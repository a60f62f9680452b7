--------------------------- MODULE SlabStoreProofs --------------------------
(***************************************************************************)
(* Proofs about SlabStore: however inserts, deletes, evictions, compaction *)
(* and crashes interleave, a slab record addresses its own bytes.          *)
(*                                                                         *)
(* The invariant is not inductive as it stands.  IInv adds what makes it   *)
(* so: the one unsealed slab is the last of the index and nothing lies on  *)
(* disk beyond it (IndexInv, OpenInv); its file is as long as the index    *)
(* says, plus the append of the lock's holder (AlignInv, LockInv); and a   *)
(* compaction's list of objects covers every record that still points into *)
(* the slab it is about to drop (ThreadInv).                               *)
(***************************************************************************)
EXTENDS SlabStore, SequenceTheorems, TLAPS

\* The open slab is the last one of the index, and no file lies beyond it.
IndexInv ==
    /\ \A s \in Slabs : meta[s].there /\ ~meta[s].sealed =>
          \A v \in Slabs : v > s => ~meta[v].there /\ file[v] = <<>>
    /\ (\A s \in Slabs : meta[s].there => meta[s].sealed) =>
          \A s \in Slabs : ~meta[s].there /\ file[s] = <<>>

\* The open slab in memory is that of the index.
OpenInv ==
    /\ up # "down" => /\ meta[open.slab].there /\ ~meta[open.slab].sealed
                      /\ meta[open.slab].len = open.len
    /\ up # "up" => lock = NoThread /\ \A t \in Threads : th[t] = Idle

\* Its file holds what is tracked, and the append of the lock's holder.
AlignInv ==
    up = "up" =>
        /\ lock = NoThread => Len(file[open.slab]) = open.len
        /\ lock # NoThread => /\ Len(file[open.slab]) = open.len + 1
                              /\ \/ open.slab < MaxSlab
                                 \/ open.len + 1 < SealLen

LockInv ==
    \A t \in Threads : th[t].pc \in {"insert_commit", "move_commit"} <=> lock = t

\* Every slab record points into an indexed slab, below its length, at bytes
\* of the object.
RecInv ==
    \A o \in Objs :
        rec[o].kind = "slab" =>
            /\ meta[rec[o].slab].there
            /\ rec[o].off < meta[rec[o].slab].len
            /\ rec[o].off < Len(file[rec[o].slab]) =>
                   file[rec[o].slab][rec[o].off + 1] = o
            /\ losses = 0 => rec[o].off < Len(file[rec[o].slab])

\* What the locals of a thread are worth.
ObjInv(t) ==
    /\ th[t].pc \in {"append", "insert_commit", "remove", "delete", "recheck",
                     "read", "check", "retire"} => th[t].obj \in Objs
    /\ th[t].ins => th[t].obj \in Objs
    /\ th[t].pc = "insert_commit" => file[open.slab][open.len + 1] = th[t].obj
    /\ th[t].pc = "move_commit" => file[open.slab][open.len + 1] = th[t].cell

ReadInv(t) ==
    th[t].pc \in {"read", "check"} /\ th[t].at.kind = "slab" =>
        /\ th[t].at.slab <= open.slab
        /\ th[t].at.slab = open.slab => th[t].at.off < open.len
        /\ th[t].at.off < Len(file[th[t].at.slab]) =>
               file[th[t].at.slab][th[t].at.off + 1] = th[t].obj

Moving == {"move", "move_commit"}

CompactInv(t) ==
    /\ \A s \in th[t].todo : s < open.slab
    /\ \A e \in th[t].live : e.obj \in Objs
    /\ th[t].pc \in {"pick", "unlink"} \cup Moving => th[t].slab < open.slab
    /\ th[t].pc \in {"pick", "unlink"} \cup Moving =>
          \A o \in Objs :
              rec[o].kind = "slab" /\ rec[o].slab = th[t].slab =>
                  \/ [obj |-> o, off |-> rec[o].off] \in th[t].live
                  \/ /\ th[t].pc \in Moving
                     /\ [obj |-> o, off |-> rec[o].off] = th[t].was
    /\ th[t].pc = "unlink" => th[t].live = {}
    /\ th[t].pc \in Moving => /\ th[t].was.obj \in Objs
                              /\ Unmoved(t) => th[t].cell = th[t].was.obj

ThreadInv == \A t \in Threads : ObjInv(t) /\ ReadInv(t) /\ CompactInv(t)

IInv == /\ TypeOK /\ IndexInv /\ OpenInv /\ AlignInv /\ LockInv
        /\ RecInv /\ ThreadInv

Committing == {"insert_commit", "move_commit"}

-----------------------------------------------------------------------------
(* Steps that append nothing and free no slab.                             *)

\* A step that leaves files, the open slab and its lock alone, at most takes
\* records out of slabs, and keeps the facts about the one thread that moves,
\* keeps the invariant.
LEMMA WeakStep ==
    ASSUME IInv, TypeOK',
           UNCHANGED <<file, up, open, lock, losses>>,
           \A s \in Slabs : /\ meta'[s].there <=> meta[s].there
                            /\ meta'[s].sealed <=> meta[s].sealed
                            /\ meta'[s].len = meta[s].len,
           \A o \in Objs : rec'[o].kind = "slab" =>
               /\ rec[o].kind = "slab"
               /\ rec'[o].slab = rec[o].slab /\ rec'[o].off = rec[o].off,
           up = "up" \/ th' = th,
           \A u \in Threads :
               \/ th'[u] = th[u]
               \/ /\ th[u].pc \notin Committing /\ th'[u].pc \notin Committing
                  /\ ObjInv(u)' /\ ReadInv(u)' /\ CompactInv(u)'
    PROVE  IInv'
<1>1. IndexInv'
  BY DEF IInv, IndexInv, TypeOK
<1>2. OpenInv'
  BY DEF IInv, OpenInv, TypeOK
<1>3. AlignInv'
  BY DEF IInv, AlignInv, TypeOK
<1>4. LockInv'
  BY DEF IInv, LockInv, Committing
<1>5. RecInv'
  BY DEF IInv, RecInv, TypeOK, Records
<1>6. ThreadInv'
  <2> SUFFICES ASSUME NEW u \in Threads, th'[u] = th[u]
               PROVE  ObjInv(u)' /\ ReadInv(u)' /\ CompactInv(u)'
    BY DEF ThreadInv
  <2>1. ObjInv(u)'
    BY DEF IInv, ThreadInv, ObjInv
  <2>2. ReadInv(u)'
    BY DEF IInv, ThreadInv, ReadInv
  <2>3. CompactInv(u)'
    <3>1. Unmoved(u)' /\ th[u].was.obj \in Objs => Unmoved(u)
      BY DEF Unmoved
    <3> QED
      BY <3>1 DEF IInv, ThreadInv, CompactInv
  <2> QED
    BY <2>1, <2>2, <2>3
<1> QED
  BY <1>1, <1>2, <1>3, <1>4, <1>5, <1>6 DEF IInv

\* A step of one thread that changes only its locals, between two points at
\* which it does not hold the slab lock.
LEMMA LocalStep ==
    ASSUME IInv, NEW t \in Threads, NEW v \in Locals,
           up = "up", th' = [th EXCEPT ![t] = v],
           th[t].pc \notin Committing, v.pc \notin Committing,
           UNCHANGED <<disk, up, mem>>,
           pinned' \subseteq Objs, calls' \in Nat, UNCHANGED <<crashes, losses>>,
           ObjInv(t)', ReadInv(t)', CompactInv(t)'
    PROVE  IInv'
<1>1. TypeOK'
  BY DEF IInv, TypeOK, disk, mem
<1>2. /\ th'[t] = v
      /\ \A u \in Threads : u # t => th'[u] = th[u]
  BY DEF IInv, TypeOK
<1>3. UNCHANGED <<file, open, lock, meta, rec>>
  BY DEF disk, mem
<1> QED
  BY <1>1, <1>2, <1>3, WeakStep

\* The locals of a thread that entered no append, read or compaction.
LEMMA PlainLocals ==
    ASSUME IInv, NEW t \in Threads, NEW v \in Locals,
           th' = [th EXCEPT ![t] = v], UNCHANGED open,
           v.pc \in {"idle", "append", "remove", "delete", "recheck", "evict",
                     "scan", "collect", "retire"},
           v.pc \in {"append", "remove", "delete", "recheck", "retire"} =>
               v.obj \in Objs,
           v.ins => v.obj \in Objs,
           \A s \in v.todo : s < open.slab,
           \A e \in v.live : e.obj \in Objs
    PROVE  ObjInv(t)' /\ ReadInv(t)' /\ CompactInv(t)'
<1>1. th'[t] = v
  BY DEF IInv, TypeOK
<1>2. ObjInv(t)'
  BY <1>1 DEF ObjInv
<1>3. ReadInv(t)'
  BY <1>1 DEF ReadInv
<1>4. CompactInv(t)'
  BY <1>1 DEF CompactInv, Moving
<1> QED
  BY <1>2, <1>3, <1>4

LEMMA IdleOK ==
    /\ Idle \in Locals
    /\ Idle.pc = "idle" /\ Idle.ins = FALSE /\ Idle.todo = {} /\ Idle.live = {}
BY SlabAssumption
   DEF Idle, Locals, PCs, Records, NoRec, Kinds, Slabs, Entries, NoEntry

\* Moving on changes no other local.
LEMMA MovedOn ==
    ASSUME NEW x \in Locals, NEW p \in PCs, NEW v, v = [x EXCEPT !.pc = p]
    PROVE  /\ v \in Locals /\ v.pc = p /\ v.obj = x.obj /\ v.ins = x.ins
           /\ v.at = x.at /\ v.todo = x.todo /\ v.slab = x.slab
           /\ v.live = x.live /\ v.was = x.was /\ v.cell = x.cell
  BY DEF Locals

\* Returning from a method, or moving on with the same locals.
LEMMA ReturnStep ==
    ASSUME IInv, NEW t \in Threads, up = "up", Return(t),
           th[t].pc \notin Committing, UNCHANGED <<disk, up, mem, pinned, bounds>>
    PROVE  IInv'
<1>1. ObjInv(t)' /\ ReadInv(t)' /\ CompactInv(t)'
  BY IdleOK, PlainLocals DEF Return, mem
<1>2. UNCHANGED <<crashes, losses>> /\ calls' \in Nat /\ pinned' \subseteq Objs
  BY DEF IInv, TypeOK, bounds
<1> QED
  BY <1>1, <1>2, IdleOK, LocalStep DEF Return, Committing

LEMMA GotoStep ==
    ASSUME IInv, NEW t \in Threads, up = "up",
           NEW p \in {"append", "remove", "recheck", "scan", "collect", "delete",
                     "retire"},
           Goto(t, p), p \in {"scan", "collect"} \/ th[t].obj \in Objs,
           th[t].pc \notin Committing, UNCHANGED <<disk, up, mem, pinned, bounds>>
    PROVE  IInv'
<1> DEFINE v == [th[t] EXCEPT !.pc = p]
<1>1. /\ v \in Locals /\ v.pc = p /\ v.obj = th[t].obj /\ v.ins = th[t].ins
      /\ v.todo = th[t].todo /\ v.live = th[t].live
  <2>1. th[t] \in Locals /\ p \in PCs
    BY DEF IInv, TypeOK, PCs
  <2> QED BY <2>1, MovedOn
<1>2. th' = [th EXCEPT ![t] = v] /\ UNCHANGED open
  BY DEF Goto, mem
<1>3. ObjInv(t) /\ CompactInv(t)
  BY DEF IInv, ThreadInv
<1> HIDE DEF v
<1>4. ObjInv(t)' /\ ReadInv(t)' /\ CompactInv(t)'
  BY <1>1, <1>2, <1>3, PlainLocals DEF ObjInv, CompactInv
<1>5. UNCHANGED <<crashes, losses>> /\ calls' \in Nat /\ pinned' \subseteq Objs
  BY DEF IInv, TypeOK, bounds
<1> QED
  BY <1>1, <1>2, <1>4, <1>5, LocalStep DEF Committing

-----------------------------------------------------------------------------
(* The actions that leave the index alone.                                 *)

LEMMA InsertCheckInv ==
    ASSUME IInv, NEW t \in Threads, NEW o \in Objs, InsertCheck(t, o)
    PROVE  IInv'
<1> DEFINE p == IF rec[o].kind = "none" THEN "append" ELSE "remove"
           v == [th[t] EXCEPT !.obj = o, !.ins = TRUE, !.pc = p]
<1>1. /\ v \in Locals /\ v.pc \in {"append", "remove"} /\ v.obj = o
      /\ v.todo = th[t].todo /\ v.live = th[t].live
  <2>1. th[t] \in Locals
    BY DEF IInv, TypeOK
  <2>2. p \in {"append", "remove"}
    OBVIOUS
  <2>3. p \in PCs
    BY <2>2 DEF PCs
  <2> HIDE DEF p
  <2> QED
    BY <2>1, <2>2, <2>3 DEF Locals
<1>2. /\ th' = [th EXCEPT ![t] = v] /\ th[t].pc = "idle" /\ up = "up"
      /\ UNCHANGED <<disk, up, mem, pinned, crashes, losses, open>>
      /\ calls' = calls + 1
  BY DEF InsertCheck, Call, Running, mem
<1>3. CompactInv(t)
  BY DEF IInv, ThreadInv
<1> HIDE DEF v
<1>4. ObjInv(t)' /\ ReadInv(t)' /\ CompactInv(t)'
  BY <1>1, <1>2, <1>3, PlainLocals DEF CompactInv
<1>5. calls' \in Nat /\ pinned' \subseteq Objs
  BY <1>2 DEF IInv, TypeOK
<1> QED
  BY <1>1, <1>2, <1>4, <1>5, LocalStep DEF Committing

LEMMA InsertRecheckInv ==
    ASSUME IInv, NEW t \in Threads, InsertRecheck(t)
    PROVE  IInv'
<1>1. /\ up = "up" /\ th[t].pc = "recheck" /\ th[t].pc \notin Committing
      /\ UNCHANGED <<disk, up, mem, pinned, bounds>>
  BY DEF InsertRecheck, Running, Committing
<1>2. th[t].obj \in Objs
  BY <1>1 DEF IInv, ThreadInv, ObjInv
<1>3. Goto(t, "append") \/ Return(t)
  BY DEF InsertRecheck
<1> QED
  BY <1>1, <1>2, <1>3, GotoStep, ReturnStep

LEMMA RemoveStartInv ==
    ASSUME IInv, NEW t \in Threads, NEW o \in Objs, RemoveStart(t, o)
    PROVE  IInv'
<1> DEFINE v == [th[t] EXCEPT !.pc = "delete", !.obj = o, !.at = rec[o]]
<1>1. /\ v \in Locals /\ v.pc = "delete" /\ v.obj = o
      /\ v.todo = th[t].todo /\ v.live = th[t].live
  <2>1. th[t] \in Locals /\ rec[o] \in Records /\ "delete" \in PCs
    BY DEF IInv, TypeOK, PCs
  <2> QED BY <2>1 DEF Locals
<1>2. /\ th' = [th EXCEPT ![t] = v] /\ th[t].pc = "idle" /\ up = "up"
      /\ UNCHANGED <<disk, up, mem, crashes, losses, open>>
      /\ calls' = calls + 1 /\ pinned' = pinned \ {o}
  BY DEF RemoveStart, Call, Running, mem
<1>3. CompactInv(t)
  BY DEF IInv, ThreadInv
<1> HIDE DEF v
<1>4. ObjInv(t)' /\ ReadInv(t)' /\ CompactInv(t)'
  BY <1>1, <1>2, <1>3, PlainLocals DEF CompactInv
<1>5. calls' \in Nat /\ pinned' \subseteq Objs
  BY <1>2 DEF IInv, TypeOK
<1> QED
  BY <1>1, <1>2, <1>4, <1>5, LocalStep DEF Committing

LEMMA RemoveReadInv ==
    ASSUME IInv, NEW t \in Threads, RemoveRead(t)
    PROVE  IInv'
<1>1. /\ up = "up" /\ th[t].pc = "remove" /\ th[t].pc \notin Committing
      /\ UNCHANGED <<disk, up, mem, pinned, bounds>>
  BY DEF RemoveRead, Running, Committing
<1>2. th[t].obj \in Objs
  BY <1>1 DEF IInv, ThreadInv, ObjInv
<1>3. CASE Goto(t, "recheck") \/ Return(t)
  BY <1>1, <1>2, <1>3, GotoStep, ReturnStep
<1>4. CASE th' = [th EXCEPT ![t] = [@ EXCEPT !.pc = "delete",
                                             !.at = rec[th[t].obj]]]
  <2> DEFINE v == [th[t] EXCEPT !.pc = "delete", !.at = rec[th[t].obj]]
  <2>1. /\ v \in Locals /\ v.pc = "delete" /\ v.obj = th[t].obj
        /\ v.todo = th[t].todo /\ v.live = th[t].live
    <3>1. th[t] \in Locals /\ rec[th[t].obj] \in Records
      BY <1>2 DEF IInv, TypeOK
    <3> QED BY <3>1 DEF Locals, PCs
  <2>2. th' = [th EXCEPT ![t] = v] /\ UNCHANGED open
    BY <1>1, <1>4 DEF mem
  <2>3. CompactInv(t)
    BY DEF IInv, ThreadInv
  <2> HIDE DEF v
  <2>4. ObjInv(t)' /\ ReadInv(t)' /\ CompactInv(t)'
    BY <1>2, <2>1, <2>2, <2>3, PlainLocals DEF CompactInv
  <2>5. UNCHANGED <<crashes, losses>> /\ calls' \in Nat /\ pinned' \subseteq Objs
    BY <1>1 DEF IInv, TypeOK, bounds
  <2> QED
    BY <1>1, <2>1, <2>2, <2>4, <2>5, LocalStep DEF Committing
<1> QED
  BY <1>3, <1>4 DEF RemoveRead

LEMMA EvictScanInv ==
    ASSUME IInv, NEW t \in Threads, EvictScan(t)
    PROVE  IInv'
<1> DEFINE c == {o \in Objs : rec[o].kind \in {"part", "slab"} /\ rec[o].ref = 0}
           v == [th[t] EXCEPT !.pc = "evict", !.cand = c]
<1>1. c \subseteq Objs
  OBVIOUS
<1>2. /\ v \in Locals /\ v.pc = "evict" /\ v.obj = th[t].obj /\ v.ins = th[t].ins
      /\ v.todo = th[t].todo /\ v.live = th[t].live
  <2>1. th[t] \in Locals /\ "evict" \in PCs
    BY DEF IInv, TypeOK, PCs
  <2> HIDE DEF c
  <2> QED BY <1>1, <2>1 DEF Locals
<1>3. /\ th' = [th EXCEPT ![t] = v] /\ th[t].pc = "idle" /\ up = "up"
      /\ UNCHANGED <<disk, up, mem, crashes, losses, open, pinned>>
      /\ calls' = calls + 1
  BY DEF EvictScan, Call, Running, mem
<1>4. ObjInv(t) /\ CompactInv(t)
  BY DEF IInv, ThreadInv
<1> HIDE DEF v
<1>5. ObjInv(t)' /\ ReadInv(t)' /\ CompactInv(t)'
  BY <1>2, <1>3, <1>4, PlainLocals DEF ObjInv, CompactInv
<1>6. calls' \in Nat /\ pinned' \subseteq Objs
  BY <1>3 DEF IInv, TypeOK
<1> QED
  BY <1>2, <1>3, <1>5, <1>6, LocalStep DEF Committing

LEMMA EvictDoneInv ==
    ASSUME IInv, NEW t \in Threads, EvictDone(t)
    PROVE  IInv'
<1> DEFINE v == [th[t] EXCEPT !.pc = "scan", !.cand = {}]
<1>1. /\ v \in Locals /\ v.pc = "scan" /\ v.obj = th[t].obj /\ v.ins = th[t].ins
      /\ v.todo = th[t].todo /\ v.live = th[t].live
  <2>1. th[t] \in Locals /\ "scan" \in PCs
    BY DEF IInv, TypeOK, PCs
  <2> QED BY <2>1 DEF Locals
<1>2. /\ th' = [th EXCEPT ![t] = v] /\ th[t].pc = "evict" /\ up = "up"
      /\ UNCHANGED <<disk, up, mem, bounds, open, pinned>>
  BY DEF EvictDone, Running, mem
<1>3. ObjInv(t) /\ CompactInv(t)
  BY DEF IInv, ThreadInv
<1> HIDE DEF v
<1>4. ObjInv(t)' /\ ReadInv(t)' /\ CompactInv(t)'
  BY <1>1, <1>2, <1>3, PlainLocals DEF ObjInv, CompactInv
<1>5. UNCHANGED <<crashes, losses>> /\ calls' \in Nat /\ pinned' \subseteq Objs
  BY <1>2 DEF IInv, TypeOK, bounds
<1> QED
  BY <1>1, <1>2, <1>4, <1>5, LocalStep DEF Committing

\* The index has no slab past the open one, and no other unsealed one.
LEMMA OpenIsLast ==
    ASSUME IInv, up # "down", NEW s \in Slabs, meta[s].there
    PROVE  /\ s <= open.slab
           /\ meta[s].sealed => s < open.slab
<1>1. open.slab \in Slabs /\ s \in Int /\ open.slab \in Int
  BY SlabAssumption DEF IInv, TypeOK, Slabs
<1>2. meta[open.slab].there /\ ~meta[open.slab].sealed
  BY DEF IInv, OpenInv
<1>3. ~(s > open.slab)
  BY <1>1, <1>2 DEF IInv, IndexInv
<1>4. meta[s].sealed => s # open.slab
  BY <1>2
<1> QED
  BY <1>1, <1>3, <1>4

LEMMA CompactedLocals ==
    ASSUME IInv, NEW t \in Threads, Compacted(t), UNCHANGED open
    PROVE  \E v \in Locals : /\ th' = [th EXCEPT ![t] = v]
                             /\ v.pc \notin Committing
                             /\ ObjInv(t)' /\ ReadInv(t)' /\ CompactInv(t)'
<1>1. CASE ~th[t].ins
  <2>1. th' = [th EXCEPT ![t] = Idle]
    BY <1>1 DEF Compacted, Return
  <2> QED
    BY <2>1, IdleOK, PlainLocals DEF Committing
<1>2. CASE th[t].ins
  <2> DEFINE v == [Idle EXCEPT !.pc = "recheck", !.ins = TRUE, !.obj = th[t].obj]
  <2>1. th' = [th EXCEPT ![t] = v]
    BY <1>2 DEF Compacted
  <2>2. th[t].obj \in Objs
    BY <1>2 DEF IInv, ThreadInv, ObjInv
  <2>3. /\ v \in Locals /\ v.pc = "recheck" /\ v.obj \in Objs
        /\ v.todo = {} /\ v.live = {}
    BY <2>2, IdleOK DEF Locals, PCs
  <2> HIDE DEF v
  <2> QED
    BY <2>1, <2>3, PlainLocals DEF Committing
<1> QED
  BY <1>1, <1>2

LEMMA CompactScanInv ==
    ASSUME IInv, NEW t \in Threads, CompactScan(t)
    PROVE  IInv'
<1>1. /\ up = "up" /\ th[t].pc = "scan" /\ th[t].pc \notin Committing
      /\ UNCHANGED <<disk, up, mem, pinned, bounds, open>>
  BY DEF CompactScan, Running, Committing, mem
<1>2. UNCHANGED <<crashes, losses>> /\ calls' \in Nat /\ pinned' \subseteq Objs
  BY <1>1 DEF IInv, TypeOK, bounds
<1>3. CASE Compacted(t)
  BY <1>1, <1>2, <1>3, CompactedLocals, LocalStep
<1>4. CASE th' = [th EXCEPT ![t] = [@ EXCEPT !.pc = "collect",
                                             !.todo = Worthwhile]]
  <2> DEFINE v == [th[t] EXCEPT !.pc = "collect", !.todo = Worthwhile]
  <2>1. Worthwhile \subseteq Slabs
    BY DEF Worthwhile
  <2>2. \A s \in Worthwhile : s < open.slab
    BY <1>1, OpenIsLast DEF Worthwhile
  <2>3. /\ v \in Locals /\ v.pc = "collect" /\ v.obj = th[t].obj
        /\ v.ins = th[t].ins /\ v.todo = Worthwhile /\ v.live = th[t].live
    <3>1. th[t] \in Locals
      BY DEF IInv, TypeOK
    <3> HIDE DEF IInv
    <3> QED BY <2>1, <3>1 DEF Locals, PCs
  <2>4. th' = [th EXCEPT ![t] = v]
    BY <1>4
  <2>5. ObjInv(t) /\ CompactInv(t)
    BY DEF IInv, ThreadInv
  <2> HIDE DEF v
  <2>6. ObjInv(t)' /\ ReadInv(t)' /\ CompactInv(t)'
    BY <1>1, <2>2, <2>3, <2>4, <2>5, PlainLocals DEF ObjInv, CompactInv
  <2> QED
    BY <1>1, <1>2, <2>3, <2>4, <2>6, LocalStep DEF Committing
<1> QED
  BY <1>3, <1>4 DEF CompactScan

LEMMA CompactCollectInv ==
    ASSUME IInv, NEW t \in Threads, NEW s \in Slabs, CompactCollect(t, s)
    PROVE  IInv'
<1> DEFINE v == [th[t] EXCEPT !.pc = "pick", !.slab = s, !.todo = @ \ {s},
                              !.live = LiveIn(s), !.at = NoRec]
<1>1. LiveIn(s) \subseteq Entries /\ \A e \in LiveIn(s) : e.obj \in Objs
  BY DEF LiveIn, Entries, IInv, TypeOK, Records
<1>2. NoRec \in Records
  BY SlabAssumption DEF NoRec, Records, Kinds, Slabs
<1>3. /\ v \in Locals /\ v.pc = "pick" /\ v.obj = th[t].obj /\ v.ins = th[t].ins
      /\ v.todo = th[t].todo \ {s} /\ v.live = LiveIn(s) /\ v.slab = s
  <2>1. th[t] \in Locals
    BY DEF IInv, TypeOK
  <2>2. "pick" \in PCs /\ th[t].todo \ {s} \subseteq Slabs
    BY <2>1 DEF PCs, Locals
  <2>3. v = [th[t] EXCEPT !.pc = "pick", !.slab = s, !.todo = th[t].todo \ {s},
                          !.live = LiveIn(s), !.at = NoRec]
    BY <2>1 DEF Locals
  <2> HIDE DEF v
  <2> QED
    BY <1>1, <1>2, <2>1, <2>2, <2>3 DEF Locals
<1>4. /\ th' = [th EXCEPT ![t] = v] /\ th[t].pc = "collect" /\ up = "up"
      /\ UNCHANGED <<disk, up, mem, bounds, open, rec, pinned>>
      /\ s \in th[t].todo
  BY DEF CompactCollect, Running, mem, disk
<1>5. ObjInv(t) /\ CompactInv(t)
  BY DEF IInv, ThreadInv
<1> HIDE DEF v
<1>6. th'[t] = v
  BY <1>4 DEF IInv, TypeOK
<1>7. ObjInv(t)' /\ ReadInv(t)'
  BY <1>3, <1>5, <1>6 DEF ObjInv, ReadInv
<1>8. CompactInv(t)'
  <2>1. \A o \in Objs : rec[o].kind = "slab" /\ rec[o].slab = s =>
           [obj |-> o, off |-> rec[o].off] \in LiveIn(s)
    BY DEF LiveIn
  <2> QED
    BY <1>1, <1>3, <1>4, <1>5, <1>6, <2>1 DEF CompactInv, Moving
<1>9. UNCHANGED <<crashes, losses>> /\ calls' \in Nat /\ pinned' \subseteq Objs
  BY <1>4 DEF IInv, TypeOK, bounds
<1> QED
  BY <1>3, <1>4, <1>7, <1>8, <1>9, LocalStep DEF Committing

LEMMA MoveReadInv ==
    ASSUME IInv, NEW t \in Threads, NEW e \in th[t].live, MoveRead(t, e)
    PROVE  IInv'
<1>1. /\ up = "up" /\ th[t].pc = "pick" /\ th[t].pc \notin Committing
      /\ UNCHANGED <<disk, up, mem, pinned, bounds, open, rec, file>>
  BY DEF MoveRead, Running, Committing, mem, disk
<1>2. CASE Return(t)
  BY <1>1, <1>2, ReturnStep
<1>3. ASSUME Readable(th[t].slab, e.off),
             th' = [th EXCEPT ![t] =
                     [@ EXCEPT !.pc = "move", !.live = th[t].live \ {e},
                               !.was = e, !.cell = file[th[t].slab][e.off + 1]]]
      PROVE  IInv'
  <2> DEFINE c == file[th[t].slab][e.off + 1]
             v == [th[t] EXCEPT !.pc = "move", !.live = @ \ {e}, !.was = e,
                                !.cell = c]
  <2>1. th[t] \in Locals /\ e \in Entries /\ th[t].slab \in Slabs
    BY DEF IInv, TypeOK, Locals
  <2>2. c \in Objs \cup {Junk}
    BY <1>3, <2>1 DEF IInv, TypeOK, Readable, Entries
  <2>3. th' = [th EXCEPT ![t] = v]
    BY <1>3
  <2>4. /\ v \in Locals /\ v.pc = "move" /\ v.obj = th[t].obj
        /\ v.ins = th[t].ins /\ v.todo = th[t].todo /\ v.live = th[t].live \ {e}
        /\ v.slab = th[t].slab /\ v.was = e /\ v.cell = c
    <3> HIDE DEF c
    <3> QED BY <2>1, <2>2 DEF Locals, PCs
  <2>5. ObjInv(t) /\ CompactInv(t)
    BY DEF IInv, ThreadInv
  <2> HIDE DEF v
  <2>6. th'[t] = v
    BY <2>3 DEF IInv, TypeOK
  <2>7. ObjInv(t)' /\ ReadInv(t)'
    BY <2>4, <2>5, <2>6 DEF ObjInv, ReadInv
  <2>8. Unmoved(t)' => c = e.obj
    BY <1>1, <1>3, <2>1, <2>4, <2>5, <2>6
       DEF Unmoved, Readable, IInv, RecInv, CompactInv
  <2>9. CompactInv(t)'
    <3> HIDE DEF c
    <3> QED BY <1>1, <2>4, <2>5, <2>6, <2>8 DEF CompactInv, Moving
  <2>10. UNCHANGED <<crashes, losses>> /\ calls' \in Nat /\ pinned' \subseteq Objs
    BY <1>1 DEF IInv, TypeOK, bounds
  <2> QED
    BY <1>1, <2>3, <2>4, <2>7, <2>9, <2>10, LocalStep DEF Committing
<1> QED
  BY <1>2, <1>3 DEF MoveRead

LEMMA ReadStartInv ==
    ASSUME IInv, NEW t \in Threads, NEW o \in Objs,
           NEW how \in {"read", "check"}, ReadStart(t, o, how)
    PROVE  IInv'
<1> DEFINE v == [th[t] EXCEPT !.pc = how, !.obj = o, !.at = rec[o]]
<1>1. /\ v \in Locals /\ v.pc = how /\ v.obj = o /\ v.at = rec[o]
      /\ v.todo = th[t].todo /\ v.live = th[t].live
  <2>1. th[t] \in Locals /\ rec[o] \in Records /\ how \in PCs
    BY DEF IInv, TypeOK, PCs
  <2> QED BY <2>1 DEF Locals
<1>2. /\ th' = [th EXCEPT ![t] = v] /\ th[t].pc = "idle" /\ up = "up"
      /\ UNCHANGED <<disk, up, mem, crashes, losses, open, file, pinned>>
      /\ calls' = calls + 1
  BY DEF ReadStart, Call, Running, mem, disk
<1>3. CompactInv(t)
  BY DEF IInv, ThreadInv
<1> HIDE DEF v
<1>4. th'[t] = v
  BY <1>2 DEF IInv, TypeOK
<1>5. ObjInv(t)'
  BY <1>1, <1>4 DEF ObjInv
<1>6. ReadInv(t)'
  <2> SUFFICES ASSUME rec[o].kind = "slab" PROVE ReadInv(t)'
    BY <1>1, <1>4 DEF ReadInv
  <2>1. rec[o].slab \in Slabs /\ meta[rec[o].slab].there
    BY <1>2 DEF IInv, TypeOK, Records, RecInv
  <2>2. rec[o].slab <= open.slab
    BY <1>2, <2>1, OpenIsLast
  <2>3. rec[o].slab = open.slab => rec[o].off < open.len
    BY <1>2 DEF IInv, RecInv, OpenInv
  <2>4. rec[o].off < Len(file[rec[o].slab]) =>
            file[rec[o].slab][rec[o].off + 1] = o
    BY <1>2 DEF IInv, RecInv
  <2> QED
    BY <1>1, <1>2, <1>4, <2>2, <2>3, <2>4 DEF ReadInv
<1>7. CompactInv(t)'
  BY <1>1, <1>2, <1>3, <1>4 DEF CompactInv, Moving
<1>8. calls' \in Nat /\ pinned' \subseteq Objs
  BY <1>2 DEF IInv, TypeOK
<1> QED
  BY <1>1, <1>2, <1>5, <1>6, <1>7, <1>8, LocalStep DEF Committing

LEMMA ReadSlabInv ==
    ASSUME IInv, NEW t \in Threads, ReadSlab(t)
    PROVE  IInv'
<1>1. /\ up = "up" /\ th[t].pc \notin Committing /\ Return(t)
      /\ UNCHANGED <<disk, up, mem, pinned, bounds>>
  BY DEF ReadSlab, Running, Committing
<1> QED
  BY <1>1, ReturnStep

LEMMA RevalidateInv ==
    ASSUME IInv, NEW t \in Threads, Revalidate(t)
    PROVE  IInv'
<1>1. /\ up = "up" /\ th[t].pc = "check" /\ th[t].pc \notin Committing
      /\ UNCHANGED <<disk, up, mem, pinned, bounds>>
  BY DEF Revalidate, Running, Committing
<1>2. th[t].obj \in Objs
  BY <1>1 DEF IInv, ThreadInv, ObjInv
<1>3. Goto(t, "remove") \/ Goto(t, "retire") \/ Return(t)
  BY DEF Revalidate
<1> QED
  BY <1>1, <1>2, <1>3, GotoStep, ReturnStep

-----------------------------------------------------------------------------
(* The transactions that take records out of slabs, or change only counts. *)

LEMMA BookDeadOK ==
    ASSUME TypeOK, NEW r \in Records, BookDead(r)
    PROVE  /\ meta' \in [Slabs -> Metas]
           /\ \A s \in Slabs : /\ meta'[s].there <=> meta[s].there
                               /\ meta'[s].sealed <=> meta[s].sealed
                               /\ meta'[s].len = meta[s].len
<1>1. CASE meta' = meta
  BY <1>1 DEF TypeOK
<1>2. CASE meta' = [meta EXCEPT ![r.slab].dead = @ + 1]
  <2> DEFINE m == [meta[r.slab] EXCEPT !.dead = @ + 1]
  <2>1. r.slab \in Slabs /\ meta[r.slab] \in Metas
    BY DEF TypeOK, Records
  <2>2. /\ m \in Metas /\ m.there = meta[r.slab].there
        /\ m.sealed = meta[r.slab].sealed /\ m.len = meta[r.slab].len
    BY <2>1 DEF Metas
  <2>3. meta' = [meta EXCEPT ![r.slab] = m]
    BY <1>2
  <2> HIDE DEF m
  <2> QED
    BY <2>1, <2>2, <2>3 DEF TypeOK
<1> QED
  BY <1>1, <1>2 DEF BookDead

LEMMA NoRecOK ==
    /\ NoRec \in Records /\ NoRec.kind = "none"
    /\ Part \in Records /\ Part.kind = "part"
BY SlabAssumption DEF NoRec, Part, Records, Kinds, Slabs

LEMMA DeleteInv ==
    ASSUME IInv, NEW t \in Threads, Delete(t)
    PROVE  IInv'
<1>1. /\ up = "up" /\ th[t].pc = "delete"
      /\ UNCHANGED <<file, up, open, lock, held, pinned, calls, crashes, losses>>
      /\ Goto(t, "scan")
  BY DEF Delete, Running, mem, bounds
<1>2. th[t].obj \in Objs /\ th[t].at \in Records /\ th[t] \in Locals
  BY <1>1 DEF IInv, ThreadInv, ObjInv, TypeOK, Locals
<1>3. /\ meta' \in [Slabs -> Metas]
      /\ \A s \in Slabs : /\ meta'[s].there <=> meta[s].there
                          /\ meta'[s].sealed <=> meta[s].sealed
                          /\ meta'[s].len = meta[s].len
  BY <1>2, BookDeadOK DEF Delete, IInv, TypeOK
<1>4. /\ rec' \in [Objs -> Records]
      /\ \A o \in Objs : rec'[o].kind = "slab" => rec'[o] = rec[o]
  BY <1>2, NoRecOK DEF Delete, IInv, TypeOK
<1> DEFINE v == [th[t] EXCEPT !.pc = "scan"]
<1>5. /\ v \in Locals /\ v.pc = "scan" /\ v.obj = th[t].obj /\ v.ins = th[t].ins
      /\ v.todo = th[t].todo /\ v.live = th[t].live
  BY <1>2, MovedOn DEF PCs
<1>6. th' = [th EXCEPT ![t] = v]
  BY <1>1 DEF Goto
<1>7. ObjInv(t) /\ CompactInv(t)
  BY DEF IInv, ThreadInv
<1> HIDE DEF v
<1>8. ObjInv(t)' /\ ReadInv(t)' /\ CompactInv(t)'
  BY <1>1, <1>5, <1>6, <1>7, PlainLocals DEF ObjInv, CompactInv
<1>9. /\ th' \in [Threads -> Locals] /\ th'[t] = v
      /\ \A u \in Threads : u # t => th'[u] = th[u]
  BY <1>5, <1>6 DEF IInv, TypeOK
<1>10. TypeOK'
  BY <1>1, <1>3, <1>4, <1>9 DEF IInv, TypeOK
<1> QED
  BY <1>1, <1>3, <1>4, <1>5, <1>8, <1>9, <1>10, WeakStep DEF Committing

LEMMA RetireExternInv ==
    ASSUME IInv, NEW t \in Threads, RetireExtern(t)
    PROVE  IInv'
<1>1. /\ up = "up" /\ th[t].pc = "retire" /\ th' = [th EXCEPT ![t] = Idle]
      /\ UNCHANGED <<meta, file, up, open, lock, held, pinned>>
      /\ UNCHANGED <<calls, crashes, losses>>
      /\ rec' = [rec EXCEPT ![th[t].obj] = NoRec]
  BY DEF RetireExtern, Running, Return, mem, bounds
<1>2. /\ rec' \in [Objs -> Records]
      /\ \A o \in Objs : rec'[o].kind = "slab" => rec'[o] = rec[o]
  BY <1>1, NoRecOK DEF IInv, TypeOK
<1>3. ObjInv(t)' /\ ReadInv(t)' /\ CompactInv(t)'
  BY <1>1, IdleOK, PlainLocals
<1>4. /\ th' \in [Threads -> Locals] /\ th'[t] = Idle
      /\ \A u \in Threads : u # t => th'[u] = th[u]
  BY <1>1, IdleOK DEF IInv, TypeOK
<1>5. TypeOK'
  BY <1>1, <1>2, <1>4 DEF IInv, TypeOK
<1> QED
  BY <1>1, <1>2, <1>3, <1>4, <1>5, IdleOK, WeakStep DEF Committing

LEMMA EvictOneInv ==
    ASSUME IInv, NEW t \in Threads, NEW o \in Objs, EvictOne(t, o)
    PROVE  IInv'
<1>1. /\ up = "up" /\ th[t].pc = "evict"
      /\ UNCHANGED <<file, up, open, lock, held, pinned, calls, crashes, losses>>
  BY DEF EvictOne, Running, mem, bounds
<1>2. rec[o] \in Records /\ th[t] \in Locals
  BY DEF IInv, TypeOK
<1>3. /\ meta' \in [Slabs -> Metas]
      /\ \A s \in Slabs : /\ meta'[s].there <=> meta[s].there
                          /\ meta'[s].sealed <=> meta[s].sealed
                          /\ meta'[s].len = meta[s].len
  BY <1>2, BookDeadOK DEF EvictOne, IInv, TypeOK
<1>4. /\ rec' \in [Objs -> Records]
      /\ \A p \in Objs : rec'[p].kind = "slab" => rec'[p] = rec[p]
  BY <1>2, NoRecOK DEF EvictOne, IInv, TypeOK
<1> DEFINE v == [th[t] EXCEPT !.cand = th[t].cand \ {o}]
<1>5. /\ v \in Locals /\ v.pc = "evict" /\ v.obj = th[t].obj /\ v.ins = th[t].ins
      /\ v.todo = th[t].todo /\ v.live = th[t].live
  BY <1>1, <1>2 DEF Locals, PCs
<1>6. th' = [th EXCEPT ![t] = v]
  BY DEF EvictOne
<1>7. ObjInv(t) /\ CompactInv(t)
  BY DEF IInv, ThreadInv
<1> HIDE DEF v
<1>8. ObjInv(t)' /\ ReadInv(t)' /\ CompactInv(t)'
  BY <1>1, <1>5, <1>6, <1>7, PlainLocals DEF ObjInv, CompactInv
<1>9. /\ th' \in [Threads -> Locals] /\ th'[t] = v
      /\ \A u \in Threads : u # t => th'[u] = th[u]
  BY <1>5, <1>6 DEF IInv, TypeOK
<1>10. TypeOK'
  BY <1>1, <1>3, <1>4, <1>9 DEF IInv, TypeOK
<1> QED
  BY <1>1, <1>3, <1>4, <1>5, <1>8, <1>9, <1>10, WeakStep DEF Committing

LEMMA TxnInv ==
    ASSUME IInv, NEW o \in Objs, Txn(o)
    PROVE  IInv'
<1>1. /\ UNCHANGED <<file, up, open, lock, th, crashes, losses>>
      /\ calls' \in Nat
  BY DEF Txn, Pin, Unpin, Hold, DropHold, EnsureSparse, CommitExtern, Call,
         disk, mem, bounds, IInv, TypeOK
<1>2. held' \subseteq Objs /\ pinned' \subseteq Objs
  BY DEF Txn, Pin, Unpin, Hold, DropHold, EnsureSparse, CommitExtern,
         mem, IInv, TypeOK
<1>3. rec[o] \in Records
  BY DEF IInv, TypeOK
<1>4. /\ meta' \in [Slabs -> Metas]
      /\ \A s \in Slabs : /\ meta'[s].there <=> meta[s].there
                          /\ meta'[s].sealed <=> meta[s].sealed
                          /\ meta'[s].len = meta[s].len
  <2>1. CASE BookDead(rec[o])
    BY <1>3, <2>1, BookDeadOK DEF IInv
  <2>2. CASE UNCHANGED meta
    BY <2>2 DEF IInv, TypeOK
  <2> QED
    BY <2>1, <2>2
       DEF Txn, Pin, Unpin, Hold, DropHold, EnsureSparse, CommitExtern, disk
<1>5. /\ rec' \in [Objs -> Records]
      /\ \A p \in Objs : rec'[p].kind = "slab" =>
            /\ rec[p].kind = "slab"
            /\ rec'[p].slab = rec[p].slab /\ rec'[p].off = rec[p].off
  <2>1. CASE Pin(o) \/ Unpin(o)
    <3> DEFINE r(n) == [rec[o] EXCEPT !.ref = n]
    <3>1. PICK n \in Nat : rec' = [rec EXCEPT ![o] = r(n)]
      <4>1. rec[o].ref \in Nat
        BY <1>3 DEF Records
      <4>2. CASE Pin(o)
        BY <4>1, <4>2 DEF Pin
      <4>3. CASE Unpin(o)
        <5>1. CASE rec[o].ref = 0
          BY <4>1, <4>3, <5>1 DEF Unpin
        <5>2. CASE rec[o].ref # 0
          <6>1. rec[o].ref - 1 \in Nat
            BY <4>1, <5>2
          <6>2. rec' = [rec EXCEPT ![o] = r(rec[o].ref - 1)]
            BY <4>3, <5>2 DEF Unpin
          <6> QED
            BY <6>1, <6>2
        <5> QED
          BY <5>1, <5>2
      <4> QED
        BY <2>1, <4>2, <4>3
    <3>2. /\ r(n) \in Records /\ r(n).kind = rec[o].kind
          /\ r(n).slab = rec[o].slab /\ r(n).off = rec[o].off
      BY <1>3 DEF Records
    <3> HIDE DEF r
    <3> QED
      BY <3>1, <3>2 DEF IInv, TypeOK
  <2>2. CASE Hold(o) \/ DropHold(o)
    BY <2>2 DEF Hold, DropHold, disk, IInv, TypeOK
  <2>3. CASE EnsureSparse(o)
    BY <2>3, NoRecOK DEF EnsureSparse, IInv, TypeOK
  <2>4. CASE CommitExtern(o)
    <3> DEFINE r == Extern(rec[o].ref)
    <3>2. rec[o].ref \in Nat /\ 0 \in Slabs
      BY <1>3, SlabAssumption DEF Records, Slabs
    <3>3. r \in Records /\ r.kind = "extern"
      BY <3>2 DEF Records, Kinds, Extern
    <3>4. rec' = [rec EXCEPT ![o] = r]
      BY <2>4 DEF CommitExtern
    <3> HIDE DEF r
    <3> QED
      BY <3>3, <3>4 DEF IInv, TypeOK
  <2> QED
    BY <2>1, <2>2, <2>3, <2>4 DEF Txn
<1>6. TypeOK'
  BY <1>1, <1>2, <1>4, <1>5 DEF IInv, TypeOK
<1> QED
  BY <1>1, <1>4, <1>5, <1>6, WeakStep

-----------------------------------------------------------------------------
(* Appending.                                                              *)

LEMMA NobodyCommits ==
    ASSUME IInv, lock = NoThread
    PROVE  \A u \in Threads : th[u].pc \notin Committing
BY SlabAssumption DEF IInv, LockInv, Committing

\* What an append does to the open slab's file.
LEMMA AppendedFile ==
    ASSUME IInv, up = "up", lock = NoThread, NEW b \in Objs \cup {Junk},
           file' = [file EXCEPT ![open.slab] = Append(@, b)]
    PROVE  /\ file' \in [Slabs -> Seq(Objs \cup {Junk})]
           /\ \A s \in Slabs : s # open.slab => file'[s] = file[s]
           /\ Len(file'[open.slab]) = open.len + 1
           /\ file'[open.slab][open.len + 1] = b
           /\ \A i \in Nat : i < open.len =>
                 file'[open.slab][i + 1] = file[open.slab][i + 1]
<1> DEFINE q == file[open.slab]
<1>1. /\ open.slab \in Slabs /\ q \in Seq(Objs \cup {Junk}) /\ Len(q) = open.len
      /\ open.len \in Nat
  BY DEF IInv, TypeOK, AlignInv
<1>2. file' = [file EXCEPT ![open.slab] = Append(q, b)]
  OBVIOUS
<1>3. /\ Append(q, b) \in Seq(Objs \cup {Junk})
      /\ Len(Append(q, b)) = open.len + 1
      /\ Append(q, b)[open.len + 1] = b
      /\ \A i \in Nat : i < open.len => Append(q, b)[i + 1] = q[i + 1]
  <2> HIDE DEF q
  <2> QED BY <1>1
<1>4. file'[open.slab] = Append(q, b)
  BY <1>1, <1>2 DEF IInv, TypeOK
<1>5. /\ file' \in [Slabs -> Seq(Objs \cup {Junk})]
      /\ \A s \in Slabs : s # open.slab => file'[s] = file[s]
  BY <1>1, <1>2, <1>3 DEF IInv, TypeOK
<1> QED
  BY <1>3, <1>4, <1>5

LEMMA AppendInv ==
    ASSUME IInv, NEW t \in Threads, NEW b \in Objs \cup {Junk},
           NEW c \in Committing, up = "up", Append1(t, b, c),
           \/ th[t].pc = "append" /\ c = "insert_commit" /\ b = th[t].obj
           \/ th[t].pc = "move" /\ c = "move_commit" /\ b = th[t].cell
    PROVE  IInv'
<1>1. /\ lock = NoThread /\ (open.slab < MaxSlab \/ open.len + 1 < SealLen)
      /\ UNCHANGED <<rec, meta, up, open, held, pinned, calls, crashes, losses>>
  BY DEF Append1, bounds
<1>2. CASE Return(t) /\ UNCHANGED <<lock, file>>
  <2>1. UNCHANGED <<disk, up, mem, pinned, bounds>>
    BY <1>1, <1>2 DEF disk, mem, bounds
  <2>2. th[t].pc \notin Committing
    BY DEF Committing
  <2> QED
    BY <1>2, <2>1, <2>2, ReturnStep
<1>3. ASSUME lock' = t, Goto(t, c),
             file' = [file EXCEPT ![open.slab] = Append(@, b)]
      PROVE  IInv'
  <2>1. /\ file' \in [Slabs -> Seq(Objs \cup {Junk})]
        /\ \A s \in Slabs : s # open.slab => file'[s] = file[s]
        /\ Len(file'[open.slab]) = open.len + 1
        /\ file'[open.slab][open.len + 1] = b
        /\ \A i \in Nat : i < open.len =>
              file'[open.slab][i + 1] = file[open.slab][i + 1]
    BY <1>1, <1>3, AppendedFile
  <2>2. /\ open.slab \in Slabs /\ open.len \in Nat
        /\ Len(file[open.slab]) = open.len
        /\ meta[open.slab].there /\ ~meta[open.slab].sealed
        /\ meta[open.slab].len = open.len
    BY <1>1 DEF IInv, TypeOK, AlignInv, OpenInv
  <2> DEFINE v == [th[t] EXCEPT !.pc = c]
  <2>3. /\ v \in Locals /\ v.pc = c /\ v.obj = th[t].obj /\ v.ins = th[t].ins
        /\ v.at = th[t].at /\ v.todo = th[t].todo /\ v.slab = th[t].slab
        /\ v.live = th[t].live /\ v.was = th[t].was /\ v.cell = th[t].cell
    <3>1. th[t] \in Locals /\ c \in PCs
      BY DEF IInv, TypeOK, PCs, Committing
    <3> QED BY <3>1, MovedOn
  <2>4. th' = [th EXCEPT ![t] = v]
    BY <1>3 DEF Goto
  <2> HIDE DEF v
  <2>5. /\ th' \in [Threads -> Locals] /\ th'[t] = v
        /\ \A u \in Threads : u # t => th'[u] = th[u]
    BY <2>3, <2>4 DEF IInv, TypeOK
  <2>6. TypeOK'
    BY <1>1, <1>3, <2>1, <2>5 DEF IInv, TypeOK
  <2>7. IndexInv'
    <3>1. ASSUME NEW s \in Slabs, meta[s].there, ~meta[s].sealed,
                 NEW w \in Slabs, w > s
          PROVE  ~meta[w].there /\ file'[w] = <<>>
      <4>1. ~meta[w].there /\ file[w] = <<>>
        BY <3>1 DEF IInv, IndexInv
      <4>2. w # open.slab
        BY <2>2, <4>1
      <4> QED
        BY <2>1, <4>1, <4>2
    <3>2. ~ \A s \in Slabs : meta[s].there => meta[s].sealed
      BY <2>2
    <3> QED
      BY <1>1, <3>1, <3>2 DEF IndexInv
  <2>8. OpenInv' /\ AlignInv'
    BY <1>1, <1>3, <2>1, <2>2, SlabAssumption DEF OpenInv, AlignInv
  <2>9. LockInv'
    BY <1>1, <1>3, <2>3, <2>5, NobodyCommits DEF LockInv, Committing
  <2>10. RecInv'
    <3> SUFFICES ASSUME NEW o \in Objs, rec[o].kind = "slab"
                 PROVE  /\ meta[rec[o].slab].there
                        /\ rec[o].off < meta[rec[o].slab].len
                        /\ rec[o].off < Len(file'[rec[o].slab]) =>
                               file'[rec[o].slab][rec[o].off + 1] = o
                        /\ losses = 0 => rec[o].off < Len(file'[rec[o].slab])
      BY <1>1 DEF RecInv
    <3>1. rec[o].slab \in Slabs /\ rec[o].off \in Nat
      BY DEF IInv, TypeOK, Records
    <3>2. CASE rec[o].slab = open.slab
      BY <2>1, <2>2, <3>1, <3>2 DEF IInv, RecInv
    <3>3. CASE rec[o].slab # open.slab
      BY <2>1, <3>1, <3>3 DEF IInv, RecInv
    <3> QED
      BY <3>2, <3>3
  <2>11. ASSUME NEW u \in Threads
         PROVE  ObjInv(u)' /\ ReadInv(u)' /\ CompactInv(u)'
    <3>1. ObjInv(u) /\ ReadInv(u) /\ CompactInv(u)
      BY DEF IInv, ThreadInv
    <3>2. CASE u = t
      <4>1. ObjInv(u)'
        BY <1>1, <2>1, <2>3, <2>5, <3>1, <3>2 DEF ObjInv
      <4>2. ReadInv(u)'
        BY <2>3, <2>5, <3>2 DEF ReadInv, Committing
      <4>3. CompactInv(u)'
        <5>1. Unmoved(u)' <=> Unmoved(u)
          BY <1>1, <2>3, <2>5, <3>2 DEF Unmoved
        <5> QED
          BY <1>1, <2>3, <2>5, <3>1, <3>2, <5>1 DEF CompactInv, Moving
      <4> QED BY <4>1, <4>2, <4>3
    <3>3. CASE u # t
      <4>1. th'[u] = th[u] /\ th[u].pc \notin Committing /\ th[u].at.slab \in Slabs
            /\ th[u].at.off \in Nat
        BY <1>1, <2>5, <3>3, NobodyCommits DEF IInv, TypeOK, Locals, Records
      <4>2. ObjInv(u)'
        BY <3>1, <4>1 DEF ObjInv, Committing
      <4>3. ReadInv(u)'
        <5>1. CASE th[u].at.slab = open.slab
          BY <1>1, <2>1, <2>2, <3>1, <4>1, <5>1 DEF ReadInv
        <5>2. CASE th[u].at.slab # open.slab
          BY <1>1, <2>1, <3>1, <4>1, <5>2 DEF ReadInv
        <5> QED BY <5>1, <5>2
      <4>4. CompactInv(u)'
        BY <1>1, <3>1, <4>1 DEF CompactInv, Unmoved
      <4> QED BY <4>2, <4>3, <4>4
    <3> QED
      BY <3>2, <3>3
  <2> QED
    BY <2>6, <2>7, <2>8, <2>9, <2>10, <2>11 DEF IInv, ThreadInv
<1> QED
  BY <1>2, <1>3 DEF Append1

LEMMA InsertAppendInv ==
    ASSUME IInv, NEW t \in Threads, InsertAppend(t)
    PROVE  IInv'
<1>1. th[t].pc = "append" /\ up = "up" /\ Append1(t, th[t].obj, "insert_commit")
  BY DEF InsertAppend, Running
<1>2. th[t].obj \in Objs
  BY <1>1 DEF IInv, ThreadInv, ObjInv
<1> QED
  BY <1>1, <1>2, AppendInv DEF Committing

LEMMA MoveAppendInv ==
    ASSUME IInv, NEW t \in Threads, MoveAppend(t)
    PROVE  IInv'
<1>1. th[t].pc = "move" /\ up = "up" /\ Append1(t, th[t].cell, "move_commit")
  BY DEF MoveAppend, Running
<1>2. th[t].cell \in Objs \cup {Junk}
  BY DEF IInv, TypeOK, Locals
<1> QED
  BY <1>1, <1>2, AppendInv DEF Committing

-----------------------------------------------------------------------------
(* Committing an append.                                                   *)

\* The slab's part of a commit keeps one unsealed slab, the last.
LEMMA GrowSlabOK ==
    ASSUME IInv, up = "up", lock # NoThread, NEW w \in BOOLEAN, GrowSlab(w)
    PROVE  /\ meta' \in [Slabs -> Metas] /\ open' \in [slab : Slabs, len : Nat]
           /\ meta'[open.slab].there /\ meta'[open.slab].len = open.len + 1
           /\ meta'[open'.slab].there /\ ~meta'[open'.slab].sealed
           /\ meta'[open'.slab].len = open'.len
           /\ \/ open'.slab = open.slab /\ open'.len = open.len + 1
              \/ /\ open'.slab = open.slab + 1 /\ open'.len = 0
                 /\ meta'[open.slab].sealed
           /\ \A s \in Slabs \ {open.slab, open'.slab} : meta'[s] = meta[s]
<1> DEFINE s == open.slab
           d == IF w THEN meta[s].dead + 1 ELSE meta[s].dead
           m == [meta[s] EXCEPT !.len = open.len + 1,
                                !.dead = IF w THEN @ + 1 ELSE @]
           z == [m EXCEPT !.sealed = TRUE]
<1>1. /\ s \in Slabs /\ open.len \in Nat /\ meta[s] \in Metas
      /\ meta[s].there /\ ~meta[s].sealed
      /\ s < MaxSlab \/ open.len + 1 < SealLen
  BY DEF IInv, TypeOK, OpenInv, AlignInv
<1>2. d \in Nat
  BY <1>1 DEF Metas
<1>3. /\ m \in Metas /\ m.len = open.len + 1 /\ m.there /\ ~m.sealed
  <2>1. m = [meta[s] EXCEPT !.len = open.len + 1, !.dead = d]
    BY <1>1 DEF Metas
  <2> DEFINE n == open.len + 1
  <2>2. n \in Nat
    BY <1>1
  <2>3. m = [meta[s] EXCEPT !.len = n, !.dead = d]
    BY <2>1
  <2> HIDE DEF d, m, n
  <2>4. m \in Metas
    BY <1>1, <1>2, <2>2, <2>3 DEF Metas
  <2>5. m.len = n /\ m.there = meta[s].there /\ m.sealed = meta[s].sealed
    BY <1>1, <2>3 DEF Metas
  <2> QED
    BY <1>1, <2>4, <2>5 DEF n
<1>4. /\ z \in Metas /\ z.len = open.len + 1 /\ z.there /\ z.sealed
  <2> HIDE DEF m
  <2> QED
    BY <1>1, <1>3 DEF Metas
<1>5. NewMeta \in Metas /\ NewMeta.there /\ ~NewMeta.sealed /\ NewMeta.len = 0
  BY DEF NewMeta, NoMeta, Metas
<1>6. \/ /\ m.len >= SealLen
         /\ meta' = [meta EXCEPT ![s] = z, ![s + 1] = NewMeta]
         /\ open' = [slab |-> s + 1, len |-> 0]
      \/ /\ ~(m.len >= SealLen)
         /\ meta' = [meta EXCEPT ![s] = m]
         /\ open' = [slab |-> s, len |-> m.len]
  BY DEF GrowSlab
<1>7. m.len >= SealLen => s + 1 \in Slabs /\ s + 1 # s
  BY <1>1, <1>3, SlabAssumption DEF Slabs
<1>8. meta \in [Slabs -> Metas]
  BY DEF IInv, TypeOK
<1> HIDE DEF m, z
<1>9. CASE /\ m.len >= SealLen
           /\ meta' = [meta EXCEPT ![s] = z, ![s + 1] = NewMeta]
           /\ open' = [slab |-> s + 1, len |-> 0]
  <2>1. meta'[s] = z /\ meta'[s + 1] = NewMeta /\ open'.slab = s + 1 /\ open'.len = 0
    BY <1>1, <1>7, <1>8, <1>9
  <2> QED
    BY <1>1, <1>4, <1>5, <1>7, <1>8, <1>9, <2>1
<1>10. CASE /\ meta' = [meta EXCEPT ![s] = m]
            /\ open' = [slab |-> s, len |-> m.len]
  BY <1>1, <1>3, <1>8, <1>10
<1> QED
  BY <1>6, <1>9, <1>10

LEMMA CommitStep ==
    ASSUME IInv, NEW t \in Threads, NEW v \in Locals, NEW w \in BOOLEAN,
           up = "up", th[t].pc \in Committing, v.pc \in {"idle", "pick"},
           th' = [th EXCEPT ![t] = v], GrowSlab(w), lock' = NoThread,
           UNCHANGED <<file, up, held, pinned, bounds>>,
           rec' \in [Objs -> Records],
           \A o \in Objs : rec'[o].kind = "slab" =>
               \/ rec'[o] = rec[o]
               \/ /\ rec'[o].slab = open.slab /\ rec'[o].off = open.len
                  /\ file[open.slab][open.len + 1] = o,
           ObjInv(t)', ReadInv(t)', CompactInv(t)'
    PROVE  IInv'
<1>1. lock = t /\ lock # NoThread
  BY SlabAssumption DEF IInv, LockInv, Committing
<1>2. /\ meta' \in [Slabs -> Metas] /\ open' \in [slab : Slabs, len : Nat]
      /\ meta'[open.slab].there /\ meta'[open.slab].len = open.len + 1
      /\ meta'[open'.slab].there /\ ~meta'[open'.slab].sealed
      /\ meta'[open'.slab].len = open'.len
      /\ \/ open'.slab = open.slab /\ open'.len = open.len + 1
         \/ /\ open'.slab = open.slab + 1 /\ open'.len = 0
            /\ meta'[open.slab].sealed
      /\ \A s \in Slabs \ {open.slab, open'.slab} : meta'[s] = meta[s]
  BY <1>1, GrowSlabOK
<1>3. /\ open.slab \in Slabs /\ open.len \in Nat
      /\ Len(file[open.slab]) = open.len + 1
      /\ meta[open.slab].there /\ ~meta[open.slab].sealed
      /\ meta[open.slab].len = open.len
  BY <1>1 DEF IInv, TypeOK, OpenInv, AlignInv
<1>4. /\ th' \in [Threads -> Locals] /\ th'[t] = v
      /\ \A u \in Threads : u # t => th'[u] = th[u]
  BY DEF IInv, TypeOK
<1>5. UNCHANGED <<calls, crashes, losses>>
  BY DEF bounds
<1>6. \A s \in Slabs : s > open.slab => ~meta[s].there /\ file[s] = <<>>
  BY <1>3 DEF IInv, IndexInv
<1>7. \A s \in Slabs : s \in Int
  BY SlabAssumption DEF Slabs
<1>8. TypeOK'
  BY <1>2, <1>4, <1>5 DEF IInv, TypeOK
<1>9. IndexInv'
  <2>1. ASSUME NEW s \in Slabs, meta'[s].there, ~meta'[s].sealed
        PROVE  s = open'.slab
    <3>1. CASE s = open.slab
      BY <1>2, <2>1, <3>1
    <3>2. CASE s # open.slab /\ s # open'.slab
      <4>1. meta[s].there /\ ~meta[s].sealed /\ s <= open.slab
        BY <1>2, <2>1, <3>2, OpenIsLast
      <4>2. s < open.slab
        BY <1>3, <1>7, <3>2, <4>1
      <4> QED
        BY <1>3, <1>7, <4>1, <4>2 DEF IInv, IndexInv
    <3> QED BY <3>1, <3>2
  <2>2. ASSUME NEW s \in Slabs, s > open'.slab
        PROVE  ~meta'[s].there /\ file[s] = <<>>
    <3>1. s > open.slab /\ s # open.slab /\ s # open'.slab
      BY <1>2, <1>3, <1>7, <2>2
    <3> QED
      BY <1>2, <1>6, <3>1
  <2>3. open'.slab \in Slabs
    BY <1>2
  <2> QED
    BY <1>2, <2>1, <2>2, <2>3 DEF IndexInv
<1>10. OpenInv'
  BY <1>2 DEF OpenInv
<1>11. AlignInv'
  <2>1. CASE open'.slab = open.slab /\ open'.len = open.len + 1
    BY <1>3, <2>1 DEF AlignInv
  <2>2. CASE open'.slab = open.slab + 1 /\ open'.len = 0
    <3>1. file[open'.slab] = <<>>
      BY <1>2, <1>3, <1>6, <1>7, <2>2
    <3> QED
      BY <2>2, <3>1 DEF AlignInv
  <2> QED
    BY <1>2, <2>1, <2>2
<1>12. \A u \in Threads : u # t => th[u].pc \notin Committing
  BY <1>1 DEF IInv, LockInv, Committing
<1>13. LockInv'
  BY <1>4, <1>12, SlabAssumption DEF LockInv, Committing
<1>14. RecInv'
  <2> SUFFICES ASSUME NEW o \in Objs, rec'[o].kind = "slab"
               PROVE  /\ meta'[rec'[o].slab].there
                      /\ rec'[o].off < meta'[rec'[o].slab].len
                      /\ rec'[o].off < Len(file[rec'[o].slab]) =>
                             file[rec'[o].slab][rec'[o].off + 1] = o
                      /\ losses = 0 => rec'[o].off < Len(file[rec'[o].slab])
    BY <1>5 DEF RecInv
  <2>1. CASE rec'[o] = rec[o]
    <3>1. /\ rec[o].slab \in Slabs /\ rec[o].off \in Nat /\ meta[rec[o].slab].there
          /\ rec[o].off < meta[rec[o].slab].len
      BY <2>1 DEF IInv, TypeOK, Records, RecInv
    <3>2. rec[o].slab <= open.slab
      BY <3>1, OpenIsLast
    <3>3. /\ meta'[rec[o].slab].there
          /\ rec[o].off < meta'[rec[o].slab].len
      <4>1. CASE rec[o].slab = open.slab
        BY <1>2, <1>3, <3>1, <4>1
      <4>2. CASE rec[o].slab # open.slab
        BY <1>2, <1>3, <1>7, <3>1, <3>2, <4>2
      <4> QED BY <4>1, <4>2
    <3> QED
      BY <2>1, <3>3 DEF IInv, RecInv
  <2>2. CASE /\ rec'[o].slab = open.slab /\ rec'[o].off = open.len
             /\ file[open.slab][open.len + 1] = o
    BY <1>2, <1>3, <2>2
  <2> QED
    BY <2>1, <2>2
<1>15. ASSUME NEW u \in Threads, u # t
       PROVE  ObjInv(u)' /\ ReadInv(u)' /\ CompactInv(u)'
  <2>1. ObjInv(u) /\ ReadInv(u) /\ CompactInv(u) /\ th[u] \in Locals
    BY DEF IInv, ThreadInv, TypeOK
  <2>2. th'[u] = th[u] /\ th[u].pc \notin Committing
    BY <1>4, <1>12, <1>15
  <2>3. ObjInv(u)'
    BY <2>1, <2>2 DEF ObjInv, Committing
  <2>4. ReadInv(u)'
    <3>1. th[u].at.slab \in Int /\ th[u].at.off \in Nat
      BY <1>7, <2>1 DEF Locals, Records
    <3> QED
      BY <1>2, <1>3, <1>7, <2>1, <2>2, <3>1 DEF ReadInv
  <2>5. CompactInv(u)'
    <3>1. th[u].slab \in Slabs /\ th[u].todo \subseteq Slabs
      BY <2>1 DEF Locals
    <3>2. \A s \in Slabs : s < open.slab => s < open'.slab
      BY <1>2, <1>3, <1>7
    <3>3. th[u].slab < open.slab =>
             \A o \in Objs : rec'[o].kind = "slab" /\ rec'[o].slab = th[u].slab
                             => rec'[o] = rec[o]
      BY <1>3, <1>7, <3>1
    <3>4. th[u].pc \in Moving /\ Unmoved(u)' => Unmoved(u)
      BY <2>1, <2>2, <3>3 DEF Unmoved, CompactInv
    <3>5. /\ \A s \in th[u].todo : s < open'.slab
          /\ \A e \in th[u].live : e.obj \in Objs
          /\ th[u].pc \in {"pick", "unlink"} \cup Moving => th[u].slab < open'.slab
          /\ th[u].pc = "unlink" => th[u].live = {}
      BY <2>1, <3>1, <3>2 DEF CompactInv
    <3>6. th[u].pc \in {"pick", "unlink"} \cup Moving =>
            \A o \in Objs :
              rec'[o].kind = "slab" /\ rec'[o].slab = th[u].slab =>
                  \/ [obj |-> o, off |-> rec'[o].off] \in th[u].live
                  \/ /\ th[u].pc \in Moving
                     /\ [obj |-> o, off |-> rec'[o].off] = th[u].was
      BY <2>1, <3>3 DEF CompactInv
    <3>7. th[u].pc \in Moving => /\ th[u].was.obj \in Objs
                                 /\ Unmoved(u)' => th[u].cell = th[u].was.obj
      BY <2>1, <3>4 DEF CompactInv
    <3> QED
      BY <2>2, <3>5, <3>6, <3>7 DEF CompactInv
  <2> QED
    BY <2>3, <2>4, <2>5
<1> QED
  BY <1>8, <1>9, <1>10, <1>11, <1>13, <1>14, <1>15 DEF IInv, ThreadInv

LEMMA InsertCommitInv ==
    ASSUME IInv, NEW t \in Threads, InsertCommit(t)
    PROVE  IInv'
<1>1. /\ up = "up" /\ th[t].pc = "insert_commit" /\ th[t].pc \in Committing
      /\ rec' = [rec EXCEPT ![th[t].obj] = InSlab(open.slab, open.len, 0)]
      /\ GrowSlab(FALSE) /\ lock' = NoThread /\ th' = [th EXCEPT ![t] = Idle]
      /\ UNCHANGED <<file, up, held, pinned, bounds>>
  BY DEF InsertCommit, Running, Committing, Return
<1>2. /\ th[t].obj \in Objs /\ open.slab \in Slabs /\ open.len \in Nat
      /\ file[open.slab][open.len + 1] = th[t].obj
  BY <1>1 DEF IInv, ThreadInv, ObjInv, TypeOK
<1> DEFINE r == InSlab(open.slab, open.len, 0)
<1>3. r \in Records /\ r.slab = open.slab /\ r.off = open.len
  BY <1>2 DEF InSlab, Records, Kinds
<1>4. rec' = [rec EXCEPT ![th[t].obj] = r]
  BY <1>1
<1> HIDE DEF r
<1>5. /\ rec' \in [Objs -> Records]
      /\ \A o \in Objs : \/ rec'[o] = rec[o]
                         \/ o = th[t].obj /\ rec'[o] = r
  BY <1>2, <1>3, <1>4 DEF IInv, TypeOK
<1>6. th'[t] = Idle
  BY <1>1 DEF IInv, TypeOK
<1>7. ObjInv(t)' /\ ReadInv(t)' /\ CompactInv(t)'
  BY <1>6, IdleOK DEF ObjInv, ReadInv, CompactInv, Moving
<1> QED
  BY <1>1, <1>2, <1>3, <1>5, <1>7, IdleOK, CommitStep

LEMMA MoveCommitInv ==
    ASSUME IInv, NEW t \in Threads, MoveCommit(t)
    PROVE  IInv'
<1>1. /\ up = "up" /\ th[t].pc = "move_commit" /\ th[t].pc \in Committing
      /\ GrowSlab(~Unmoved(t)) /\ lock' = NoThread
      /\ th' = [th EXCEPT ![t] = [@ EXCEPT !.pc = "pick", !.was = NoEntry,
                                           !.cell = Junk]]
      /\ UNCHANGED <<file, up, held, pinned, bounds>>
  BY DEF MoveCommit, Running, Committing
<1>2. /\ th[t] \in Locals /\ open.slab \in Slabs /\ open.len \in Nat
      /\ ObjInv(t) /\ CompactInv(t)
  BY DEF IInv, ThreadInv, TypeOK
<1> DEFINE o1 == th[t].was.obj
           r == [rec[o1] EXCEPT !.slab = open.slab, !.off = open.len]
           v == [th[t] EXCEPT !.pc = "pick", !.was = NoEntry, !.cell = Junk]
<1>3. /\ o1 \in Objs /\ file[open.slab][open.len + 1] = th[t].cell
      /\ Unmoved(t) => th[t].cell = o1
      /\ th[t].slab < open.slab
  BY <1>1, <1>2 DEF ObjInv, CompactInv, Moving
<1>4. /\ r \in Records /\ r.slab = open.slab /\ r.off = open.len
  <2>1. rec[o1] \in Records
    BY <1>3 DEF IInv, TypeOK
  <2> HIDE DEF o1
  <2> QED BY <1>2, <2>1 DEF Records
<1>5. rec' = IF Unmoved(t) THEN [rec EXCEPT ![o1] = r] ELSE rec
  BY DEF MoveCommit
<1>6. /\ v \in Locals /\ v.pc = "pick" /\ v.obj = th[t].obj /\ v.ins = th[t].ins
      /\ v.todo = th[t].todo /\ v.slab = th[t].slab /\ v.live = th[t].live
  <2>1. NoEntry \in Entries
    BY DEF NoEntry, Entries
  <2> QED
    BY <1>2, <2>1 DEF Locals, PCs
<1>7. th' = [th EXCEPT ![t] = v]
  BY <1>1
<1> HIDE DEF r, v
<1>8. /\ rec' \in [Objs -> Records]
      /\ \A o \in Objs : \/ rec'[o] = rec[o]
                         \/ o = o1 /\ Unmoved(t) /\ rec'[o] = r
      /\ Unmoved(t) => rec'[o1] = r
  <2>1. CASE Unmoved(t)
    <3>1. rec' = [rec EXCEPT ![o1] = r]
      BY <1>5, <2>1
    <3> HIDE DEF o1
    <3> QED
      BY <1>3, <1>4, <2>1, <3>1 DEF IInv, TypeOK
  <2>2. CASE ~Unmoved(t)
    BY <1>5, <2>2 DEF IInv, TypeOK
  <2> QED
    BY <2>1, <2>2
<1>9. th'[t] = v
  BY <1>7 DEF IInv, TypeOK
<1>10. /\ open'.slab \in Slabs
       /\ open'.slab = open.slab \/ open'.slab = open.slab + 1
  <2>1. lock # NoThread
    BY <1>1, SlabAssumption DEF IInv, LockInv
  <2>2. (~Unmoved(t)) \in BOOLEAN
    OBVIOUS
  <2> QED
    BY <1>1, <2>1, <2>2, GrowSlabOK
<1>11. ObjInv(t)' /\ ReadInv(t)'
  BY <1>2, <1>6, <1>9 DEF ObjInv, ReadInv
<1>12. CompactInv(t)'
  <2>1. \A s \in Slabs : s \in Int
    BY SlabAssumption DEF Slabs
  <2>2. th[t].slab \in Slabs /\ th[t].todo \subseteq Slabs
    BY <1>2 DEF Locals
  <2>3. /\ \A s \in v.todo : s < open'.slab
        /\ v.slab < open'.slab
        /\ \A e \in v.live : e.obj \in Objs
    BY <1>2, <1>3, <1>6, <1>10, <2>1, <2>2 DEF CompactInv
  <2>4. ASSUME NEW o \in Objs, rec'[o].kind = "slab", rec'[o].slab = th[t].slab
        PROVE  [obj |-> o, off |-> rec'[o].off] \in th[t].live
    <3>1. rec'[o] = rec[o]
      BY <1>2, <1>3, <1>4, <1>8, <2>1, <2>2, <2>4
    <3>2. CASE [obj |-> o, off |-> rec[o].off] = th[t].was
      <4>1. o = o1 /\ th[t].was.off = rec[o].off
        BY <3>2
      <4>2. Unmoved(t)
        BY <2>4, <3>1, <4>1 DEF Unmoved
      <4> QED
        BY <1>2, <1>3, <1>4, <1>8, <2>1, <2>2, <2>4, <4>1, <4>2
    <3> QED
      BY <1>1, <1>2, <2>4, <3>1, <3>2 DEF CompactInv, Moving
  <2> QED
    BY <1>6, <1>9, <2>3, <2>4 DEF CompactInv, Moving
<1>13. \A o \in Objs : rec'[o].kind = "slab" =>
           \/ rec'[o] = rec[o]
           \/ /\ rec'[o].slab = open.slab /\ rec'[o].off = open.len
              /\ file[open.slab][open.len + 1] = o
  BY <1>3, <1>4, <1>8
<1>14. (~Unmoved(t)) \in BOOLEAN
  OBVIOUS
<1> QED
  BY <1>1, <1>6, <1>7, <1>8, <1>11, <1>12, <1>13, <1>14, CommitStep

-----------------------------------------------------------------------------
(* Freeing a compacted slab.                                               *)

LEMMA DropSlabInv ==
    ASSUME IInv, NEW t \in Threads, DropSlab(t)
    PROVE  IInv'
<1> DEFINE s0 == th[t].slab
           v == [th[t] EXCEPT !.pc = "unlink"]
<1>1. /\ up = "up" /\ th[t].pc = "pick" /\ th[t].live = {}
      /\ meta' = [meta EXCEPT ![s0] = NoMeta] /\ th' = [th EXCEPT ![t] = v]
      /\ UNCHANGED <<rec, file, up, open, lock, held, pinned, calls, crashes, losses>>
  BY DEF DropSlab, Running, Goto, mem, bounds
<1>2. /\ th[t] \in Locals /\ s0 \in Slabs /\ open.slab \in Slabs
      /\ ObjInv(t) /\ CompactInv(t)
  BY DEF IInv, ThreadInv, TypeOK, Locals
<1>3. /\ s0 < open.slab /\ s0 # open.slab
      /\ \A o \in Objs : rec[o].kind = "slab" => rec[o].slab # s0
  <2>1. s0 < open.slab
    BY <1>1, <1>2 DEF CompactInv
  <2>2. s0 # open.slab
    BY <1>2, <2>1, SlabAssumption DEF Slabs
  <2> QED
    BY <1>1, <1>2, <2>1, <2>2 DEF CompactInv, Moving
<1>4. /\ v \in Locals /\ v.pc = "unlink" /\ v.obj = th[t].obj /\ v.ins = th[t].ins
      /\ v.todo = th[t].todo /\ v.slab = s0 /\ v.live = {}
  BY <1>1, <1>2 DEF Locals, PCs
<1>5. NoMeta \in Metas /\ ~NoMeta.there
  BY DEF NoMeta, Metas
<1> HIDE DEF v, s0
<1>6. /\ meta' \in [Slabs -> Metas] /\ ~meta'[s0].there
      /\ \A s \in Slabs : s # s0 => meta'[s] = meta[s]
  BY <1>1, <1>2, <1>5 DEF IInv, TypeOK
<1>7. /\ th' \in [Threads -> Locals] /\ th'[t] = v
      /\ \A u \in Threads : u # t => th'[u] = th[u]
  BY <1>1, <1>4 DEF IInv, TypeOK
<1>8. TypeOK'
  BY <1>1, <1>6, <1>7 DEF IInv, TypeOK
<1>9. OpenInv'
  BY <1>1, <1>2, <1>3, <1>6 DEF IInv, OpenInv
<1>10. IndexInv'
  <2>1. ASSUME NEW s \in Slabs, meta'[s].there, ~meta'[s].sealed,
               NEW x \in Slabs, x > s
        PROVE  ~meta'[x].there /\ file'[x] = <<>>
    <3>1. meta'[s] = meta[s]
      BY <1>6, <2>1
    <3>2. ~meta[x].there /\ file[x] = <<>>
      BY <2>1, <3>1 DEF IInv, IndexInv
    <3> QED
      BY <1>1, <1>6, <3>2
  <2>2. ~ \A s \in Slabs : meta'[s].there => meta'[s].sealed
    BY <1>1, <1>2, <1>9 DEF OpenInv
  <2> QED
    BY <2>1, <2>2 DEF IndexInv
<1>11. AlignInv'
  BY <1>1 DEF IInv, AlignInv
<1>12. LockInv'
  BY <1>1, <1>4, <1>7 DEF IInv, LockInv
<1>13. RecInv'
  <2>1. \A o \in Objs : rec[o].kind = "slab" =>
           rec[o].slab \in Slabs /\ meta'[rec[o].slab] = meta[rec[o].slab]
    BY <1>3, <1>6 DEF IInv, TypeOK, Records
  <2> QED
    BY <1>1, <2>1 DEF IInv, RecInv
<1>14. ASSUME NEW u \in Threads
       PROVE  ObjInv(u)' /\ ReadInv(u)' /\ CompactInv(u)'
  <2>1. ObjInv(u) /\ ReadInv(u) /\ CompactInv(u)
    BY DEF IInv, ThreadInv
  <2>2. CASE u = t
    <3>1. ObjInv(u)' /\ ReadInv(u)'
      BY <1>1, <1>2, <1>4, <1>7, <2>2 DEF ObjInv, ReadInv
    <3>2. CompactInv(u)'
      BY <1>1, <1>2, <1>3, <1>4, <1>7, <2>2 DEF CompactInv, Moving
    <3> QED BY <3>1, <3>2
  <2>3. CASE u # t
    BY <1>1, <1>7, <2>1, <2>3 DEF ObjInv, ReadInv, CompactInv, Unmoved
  <2> QED
    BY <2>2, <2>3
<1> QED
  BY <1>8, <1>9, <1>10, <1>11, <1>12, <1>13, <1>14 DEF IInv, ThreadInv

LEMMA UnlinkSlabInv ==
    ASSUME IInv, NEW t \in Threads, UnlinkSlab(t)
    PROVE  IInv'
<1> DEFINE s0 == th[t].slab
<1>1. /\ up = "up" /\ th[t].pc = "unlink"
      /\ file' = [file EXCEPT ![s0] = <<>>]
      /\ UNCHANGED <<rec, meta, up, open, lock, held, pinned, calls, crashes, losses>>
  BY DEF UnlinkSlab, Running, mem, bounds
<1>2. /\ th[t] \in Locals /\ s0 \in Slabs /\ open.slab \in Slabs
      /\ ObjInv(t) /\ CompactInv(t)
  BY DEF IInv, ThreadInv, TypeOK, Locals
<1>3. /\ s0 # open.slab
      /\ \A o \in Objs : rec[o].kind = "slab" => rec[o].slab # s0
  <2>1. s0 < open.slab
    BY <1>1, <1>2 DEF CompactInv
  <2>2. s0 # open.slab
    BY <1>2, <2>1, SlabAssumption DEF Slabs
  <2> QED
    BY <1>1, <1>2, <2>2 DEF CompactInv, Moving
<1>4. PICK v \in Locals : /\ th' = [th EXCEPT ![t] = v]
                          /\ v.pc \notin Committing
                          /\ ObjInv(t)' /\ ReadInv(t)' /\ CompactInv(t)'
  <2>1. CASE Compacted(t)
    BY <1>1, <2>1, CompactedLocals
  <2>2. CASE Goto(t, "collect")
    <3> DEFINE v == [th[t] EXCEPT !.pc = "collect"]
    <3>1. /\ v \in Locals /\ v.pc = "collect" /\ v.obj = th[t].obj
          /\ v.ins = th[t].ins /\ v.todo = th[t].todo /\ v.live = th[t].live
      BY <1>2, MovedOn DEF PCs
    <3>2. th' = [th EXCEPT ![t] = v]
      BY <2>2 DEF Goto
    <3> HIDE DEF v
    <3>3. ObjInv(t)' /\ ReadInv(t)' /\ CompactInv(t)'
      BY <1>1, <1>2, <3>1, <3>2, PlainLocals DEF ObjInv, CompactInv
    <3> QED
      BY <3>1, <3>2, <3>3 DEF Committing
  <2> QED
    BY <2>1, <2>2 DEF UnlinkSlab
<1> HIDE DEF s0
<1>5. /\ file' \in [Slabs -> Seq(Objs \cup {Junk})] /\ file'[s0] = <<>>
      /\ \A s \in Slabs : s # s0 => file'[s] = file[s]
  <2>1. <<>> \in Seq(Objs \cup {Junk})
    OBVIOUS
  <2> QED
    BY <1>1, <1>2, <2>1 DEF IInv, TypeOK
<1>6. /\ th' \in [Threads -> Locals] /\ th'[t] = v
      /\ \A u \in Threads : u # t => th'[u] = th[u]
  BY <1>4 DEF IInv, TypeOK
<1>7. TypeOK'
  BY <1>1, <1>5, <1>6 DEF IInv, TypeOK
<1>8. OpenInv'
  BY <1>1 DEF IInv, OpenInv
<1>9. \A s \in Slabs : file[s] = <<>> => file'[s] = <<>>
  BY <1>5
<1>10. IndexInv'
  BY <1>1, <1>9 DEF IInv, IndexInv
<1>11. AlignInv'
  BY <1>1, <1>2, <1>3, <1>5 DEF IInv, AlignInv
<1>12. LockInv'
  BY <1>1, <1>4, <1>6 DEF IInv, LockInv, Committing
<1>13. RecInv'
  <2>1. \A o \in Objs : rec[o].kind = "slab" => file'[rec[o].slab] = file[rec[o].slab]
    BY <1>3, <1>5 DEF IInv, TypeOK, Records
  <2> QED
    BY <1>1, <2>1 DEF IInv, RecInv
<1>14. ASSUME NEW u \in Threads, u # t
       PROVE  ObjInv(u)' /\ ReadInv(u)' /\ CompactInv(u)'
  <2>1. ObjInv(u) /\ ReadInv(u) /\ CompactInv(u) /\ th'[u] = th[u]
    BY <1>6, <1>14 DEF IInv, ThreadInv
  <2>2. ObjInv(u)'
    BY <1>1, <1>2, <1>3, <1>5, <2>1 DEF ObjInv
  <2>3. ReadInv(u)'
    <3>1. th[u].at.slab \in Slabs /\ th[u].at.off \in Nat
      BY DEF IInv, TypeOK, Locals, Records
    <3>2. th[u].at.slab = s0 => ~(th[u].at.off < Len(file'[s0]))
      BY <1>5, <3>1
    <3> QED
      BY <1>1, <1>5, <2>1, <3>1, <3>2 DEF ReadInv
  <2>4. CompactInv(u)'
    BY <1>1, <2>1 DEF CompactInv, Unmoved
  <2> QED
    BY <2>2, <2>3, <2>4
<1> QED
  BY <1>4, <1>7, <1>8, <1>10, <1>11, <1>12, <1>13, <1>14 DEF IInv, ThreadInv

-----------------------------------------------------------------------------
(* Crashes, and open_with.                                                 *)

LEMMA Prefix ==
    ASSUME NEW S, NEW q \in Seq(S), NEW n \in Nat, n <= Len(q)
    PROVE  /\ SubSeq(q, 1, n) \in Seq(S) /\ Len(SubSeq(q, 1, n)) = n
           /\ \A i \in Nat : i < n => SubSeq(q, 1, n)[i + 1] = q[i + 1]
<1>1. /\ SubSeq(q, 1, n) \in Seq(S) /\ Len(SubSeq(q, 1, n)) = n
  OBVIOUS
<1>2. ASSUME NEW i \in Nat, i < n
      PROVE  SubSeq(q, 1, n)[i + 1] = q[i + 1]
  BY <1>2
<1> QED
  BY <1>1, <1>2

\* Nobody is in a method while the store is not up.
LEMMA IdleThreads ==
    ASSUME \A u \in Threads : th'[u] = Idle, lock' = NoThread
    PROVE  ThreadInv' /\ LockInv'
<1>1. ASSUME NEW u \in Threads
      PROVE  ObjInv(u)' /\ ReadInv(u)' /\ CompactInv(u)'
  BY IdleOK DEF ObjInv, ReadInv, CompactInv, Moving
<1>2. LockInv'
  BY IdleOK, SlabAssumption DEF LockInv
<1> QED
  BY <1>1, <1>2 DEF ThreadInv

\* The append under way when the store stopped, if any, is all that a crash
\* without losses touches; one that loses bytes cuts a file short.
Pending(s) == s = open.slab /\ lock # NoThread

LEMMA CrashFile ==
    ASSUME IInv, Crash
    PROVE  /\ file' \in [Slabs -> Seq(Objs \cup {Junk})]
           /\ \A s \in Slabs : file[s] = <<>> /\ ~Pending(s) => file'[s] = <<>>
           /\ \A s \in Slabs, i \in Nat :
                 (Pending(s) => i < open.len) =>
                    /\ i < Len(file'[s]) => /\ i < Len(file[s])
                                            /\ file'[s][i + 1] = file[s][i + 1]
                    /\ losses' = 0 /\ i < Len(file[s]) => i < Len(file'[s])
           /\ losses' \in Nat /\ (losses' = 0 => losses = 0)
<1> DEFINE S == Objs \cup {Junk}
<1>1. /\ file \in [Slabs -> Seq(S)] /\ open.slab \in Slabs /\ open.len \in Nat
      /\ losses \in Nat
  BY DEF IInv, TypeOK
<1>2. CASE file' = file /\ losses' = losses
  BY <1>1, <1>2
<1>3. ASSUME lock # NoThread, losses' = losses, NEW tail \in {<<>>, <<Junk>>},
             file' = [file EXCEPT ![open.slab] = SubSeq(@, 1, Len(@) - 1) \o tail]
      PROVE  /\ file' \in [Slabs -> Seq(S)]
             /\ \A s \in Slabs : file[s] = <<>> /\ ~Pending(s) => file'[s] = <<>>
             /\ \A s \in Slabs, i \in Nat :
                 (Pending(s) => i < open.len) =>
                    /\ i < Len(file'[s]) => /\ i < Len(file[s])
                                            /\ file'[s][i + 1] = file[s][i + 1]
                    /\ losses' = 0 /\ i < Len(file[s]) => i < Len(file'[s])
  <2> DEFINE q == file[open.slab]
             p == SubSeq(q, 1, open.len)
             z == p \o tail
  <2>1. q \in Seq(S) /\ Len(q) = open.len + 1
    <3>1. up = "up"
      BY <1>3 DEF IInv, OpenInv
    <3> QED
      BY <1>1, <1>3, <3>1 DEF IInv, AlignInv
  <2>2. /\ p \in Seq(S) /\ Len(p) = open.len
        /\ \A i \in Nat : i < open.len => p[i + 1] = q[i + 1]
    <3> HIDE DEF q
    <3> QED BY <1>1, <2>1, Prefix
  <2>3. Len(q) - 1 = open.len
    <3> HIDE DEF q
    <3> QED BY <1>1, <2>1
  <2>4. tail \in Seq(S)
    <3>1. Junk \in S /\ <<>> \in Seq(S)
      OBVIOUS
    <3> HIDE DEF S
    <3>2. <<Junk>> \in Seq(S)
      BY <3>1
    <3> QED BY <3>1, <3>2
  <2>5. file' = [file EXCEPT ![open.slab] = z]
    BY <1>3, <2>3
  <2>6. /\ z \in Seq(S) /\ Len(z) >= open.len
        /\ \A i \in Nat : i < open.len => z[i + 1] = q[i + 1]
    <3> HIDE DEF p, q
    <3> QED BY <1>1, <2>2, <2>4
  <2> HIDE DEF p, q, z
  <2>7. /\ file' \in [Slabs -> Seq(S)] /\ file'[open.slab] = z
        /\ \A s \in Slabs : s # open.slab => file'[s] = file[s]
    BY <1>1, <2>5, <2>6
  <2>8. ASSUME NEW i \in Nat, i < open.len
        PROVE  /\ i < Len(q) /\ z[i + 1] = q[i + 1] /\ i < Len(z)
    <3>1. Len(z) \in Nat
      BY <2>6
    <3> QED BY <1>1, <2>1, <2>6, <2>8, <3>1
  <2>9. q = file[open.slab]
    BY DEF q
  <2> QED
    BY <1>1, <1>3, <2>7, <2>8, <2>9 DEF Pending
<1>4. ASSUME losses' = losses + 1, NEW r \in Slabs, NEW n \in 0 .. Len(file[r]),
             file' = [file EXCEPT ![r] = SubSeq(@, 1, n)]
      PROVE  /\ file' \in [Slabs -> Seq(S)]
             /\ \A s \in Slabs : file[s] = <<>> => file'[s] = <<>>
             /\ \A s \in Slabs, i \in Nat :
                    i < Len(file'[s]) => /\ i < Len(file[s])
                                         /\ file'[s][i + 1] = file[s][i + 1]
  <2> DEFINE q == file[r]
             p == SubSeq(q, 1, n)
  <2>1. q \in Seq(S) /\ n \in Nat /\ Len(q) \in Nat /\ n <= Len(q)
    BY <1>1
  <2>2. /\ p \in Seq(S) /\ Len(p) = n
        /\ \A i \in Nat : i < n => p[i + 1] = q[i + 1]
    <3> HIDE DEF q
    <3> QED BY <2>1, Prefix
  <2>3. q = <<>> => p = <<>>
    <3> HIDE DEF q, p
    <3> QED BY <2>1, <2>2
  <2>4. file' = [file EXCEPT ![r] = p] /\ q = file[r]
    BY <1>4
  <2> HIDE DEF q, p
  <2>5. /\ file' \in [Slabs -> Seq(S)] /\ file'[r] = p
        /\ \A s \in Slabs : s # r => file'[s] = file[s]
    BY <1>1, <2>2, <2>4
  <2>6. \A i \in Nat : i < Len(p) => i < Len(q) /\ p[i + 1] = q[i + 1]
    BY <2>1, <2>2
  <2> QED
    BY <2>3, <2>4, <2>5, <2>6
<1>5. CASE Crashed(file') /\ losses' = losses
  BY <1>1, <1>2, <1>3, <1>5 DEF Crashed
<1>6. CASE /\ losses' = losses + 1
           /\ \E s \in Slabs : \E n \in 0 .. Len(file[s]) :
                file' = [file EXCEPT ![s] = SubSeq(@, 1, n)]
  <2>1. losses' \in Nat /\ losses' # 0
    BY <1>1, <1>6
  <2> QED
    BY <1>1, <1>4, <1>6, <2>1
<1> QED
  BY <1>5, <1>6 DEF Crash

LEMMA CrashInv ==
    ASSUME IInv, Crash
    PROVE  IInv'
<1>1. /\ up # "down" /\ up' = "down" /\ lock' = NoThread /\ held' = {}
      /\ th' = [t \in Threads |-> Idle] /\ crashes' = crashes + 1
      /\ UNCHANGED <<rec, meta, open, pinned, calls>>
  BY DEF Crash
<1>2. /\ file' \in [Slabs -> Seq(Objs \cup {Junk})]
      /\ \A s \in Slabs : file[s] = <<>> /\ ~Pending(s) => file'[s] = <<>>
      /\ \A s \in Slabs, i \in Nat :
            (Pending(s) => i < open.len) =>
               /\ i < Len(file'[s]) => /\ i < Len(file[s])
                                       /\ file'[s][i + 1] = file[s][i + 1]
               /\ losses' = 0 /\ i < Len(file[s]) => i < Len(file'[s])
      /\ losses' \in Nat /\ (losses' = 0 => losses = 0)
  BY CrashFile
<1>3. /\ open.slab \in Slabs /\ meta[open.slab].there /\ ~meta[open.slab].sealed
      /\ meta[open.slab].len = open.len
  BY <1>1 DEF IInv, TypeOK, OpenInv
<1>4. TypeOK'
  <2>1. th' \in [Threads -> Locals]
    BY <1>1, IdleOK
  <2> QED
    BY <1>1, <1>2, <2>1 DEF IInv, TypeOK
<1>5. IndexInv'
  <2>1. ASSUME NEW s \in Slabs, meta[s].there, ~meta[s].sealed,
               NEW x \in Slabs, x > s
        PROVE  ~meta[x].there /\ file'[x] = <<>>
    <3>1. ~meta[x].there /\ file[x] = <<>>
      BY <2>1 DEF IInv, IndexInv
    <3>2. ~Pending(x)
      BY <1>3, <3>1 DEF Pending
    <3> QED
      BY <1>2, <3>1, <3>2
  <2>2. ~ \A s \in Slabs : meta[s].there => meta[s].sealed
    BY <1>3
  <2> QED
    BY <1>1, <2>1, <2>2 DEF IndexInv
<1>6. OpenInv' /\ AlignInv'
  BY <1>1 DEF OpenInv, AlignInv
<1>7. LockInv' /\ ThreadInv'
  BY <1>1, IdleThreads
<1>8. RecInv'
  <2> SUFFICES ASSUME NEW o \in Objs, rec[o].kind = "slab"
               PROVE  /\ meta[rec[o].slab].there
                      /\ rec[o].off < meta[rec[o].slab].len
                      /\ rec[o].off < Len(file'[rec[o].slab]) =>
                             file'[rec[o].slab][rec[o].off + 1] = o
                      /\ losses' = 0 => rec[o].off < Len(file'[rec[o].slab])
    BY <1>1 DEF RecInv
  <2>1. rec[o].slab \in Slabs /\ rec[o].off \in Nat
    BY DEF IInv, TypeOK, Records
  <2>2. /\ meta[rec[o].slab].there
        /\ rec[o].off < meta[rec[o].slab].len
        /\ rec[o].off < Len(file[rec[o].slab]) =>
               file[rec[o].slab][rec[o].off + 1] = o
        /\ losses = 0 => rec[o].off < Len(file[rec[o].slab])
    BY DEF IInv, RecInv
  <2>3. Pending(rec[o].slab) => rec[o].off < open.len
    BY <1>3, <2>2 DEF Pending
  <2>4. /\ rec[o].off < Len(file'[rec[o].slab]) =>
              /\ rec[o].off < Len(file[rec[o].slab])
              /\ file'[rec[o].slab][rec[o].off + 1]
                     = file[rec[o].slab][rec[o].off + 1]
        /\ losses' = 0 /\ rec[o].off < Len(file[rec[o].slab]) =>
              rec[o].off < Len(file'[rec[o].slab])
    BY <1>2, <2>1, <2>3
  <2> QED
    BY <1>2, <2>2, <2>4
<1> QED
  BY <1>4, <1>5, <1>6, <1>7, <1>8 DEF IInv

\* open_with takes the unsealed slab of the index; a fresh one only when the
\* index is empty.
LEMMA OpenIndexInv ==
    ASSUME IInv, OpenIndex
    PROVE  IInv'
<1>1. /\ up = "down" /\ up' = "opening"
      /\ UNCHANGED <<rec, file, lock, held, th, pinned, calls, crashes, losses>>
  BY DEF OpenIndex, bounds
<1>2. lock = NoThread /\ \A u \in Threads : th[u] = Idle
  BY <1>1 DEF IInv, OpenInv
<1>3. LockInv' /\ ThreadInv' /\ AlignInv'
  BY <1>1, <1>2, IdleThreads DEF AlignInv
<1>4. CASE UNCHANGED meta /\ \E s \in Unsealed : open' = [slab |-> s, len |-> meta[s].len]
  <2>1. PICK s \in Unsealed : open' = [slab |-> s, len |-> meta[s].len]
    BY <1>4
  <2>2. s \in Slabs /\ meta[s].there /\ ~meta[s].sealed
    BY DEF Unsealed
  <2>3. open' \in [slab : Slabs, len : Nat] /\ open'.slab = s /\ open'.len = meta[s].len
    BY <2>1, <2>2 DEF IInv, TypeOK, Metas
  <2>4. TypeOK'
    BY <1>1, <1>4, <2>3 DEF IInv, TypeOK
  <2>5. OpenInv' /\ IndexInv' /\ RecInv'
    BY <1>1, <1>2, <1>4, <2>2, <2>3 DEF IInv, OpenInv, IndexInv, RecInv
  <2> QED
    BY <1>3, <2>4, <2>5 DEF IInv
<1>5. CASE /\ Unsealed = {}
           /\ \E n \in Slabs : /\ IsNext(n)
                               /\ meta' = [meta EXCEPT ![n] = NewMeta]
                               /\ open' = [slab |-> n, len |-> 0]
  <2>1. PICK n \in Slabs : /\ meta' = [meta EXCEPT ![n] = NewMeta]
                           /\ open' = [slab |-> n, len |-> 0]
    BY <1>5
  <2>2. \A s \in Slabs : ~meta[s].there /\ file[s] = <<>>
    BY <1>5 DEF Unsealed, IInv, IndexInv
  <2>3. NewMeta \in Metas /\ NewMeta.there /\ ~NewMeta.sealed /\ NewMeta.len = 0
    BY DEF NewMeta, NoMeta, Metas
  <2>4. /\ meta' \in [Slabs -> Metas] /\ meta'[n] = NewMeta
        /\ \A s \in Slabs : s # n => meta'[s] = meta[s]
        /\ open' \in [slab : Slabs, len : Nat] /\ open'.slab = n /\ open'.len = 0
    BY <2>1, <2>3 DEF IInv, TypeOK
  <2>5. TypeOK'
    BY <1>1, <2>4 DEF IInv, TypeOK
  <2>6. OpenInv'
    BY <1>1, <1>2, <2>3, <2>4 DEF OpenInv
  <2>7. IndexInv'
    <3>1. \A s \in Slabs : s \in Int
      BY SlabAssumption DEF Slabs
    <3>2. ASSUME NEW s \in Slabs, meta'[s].there, NEW x \in Slabs, x > s
          PROVE  ~meta'[x].there /\ file'[x] = <<>>
      <4>1. s = n
        BY <2>2, <2>4, <3>2
      <4>2. x # n
        BY <3>1, <3>2, <4>1
      <4> QED
        BY <1>1, <2>2, <2>4, <4>2
    <3>3. ~ \A s \in Slabs : meta'[s].there => meta'[s].sealed
      BY <2>3, <2>4
    <3> QED
      BY <3>2, <3>3 DEF IndexInv
  <2>8. RecInv'
    <3>1. \A o \in Objs : rec[o].kind # "slab"
      BY <2>2 DEF IInv, RecInv, TypeOK, Records
    <3> QED
      BY <1>1, <3>1 DEF RecInv
  <2> QED
    BY <1>3, <2>5, <2>6, <2>7, <2>8 DEF IInv
<1> QED
  BY <1>4, <1>5 DEF OpenIndex

\* What cutting the files back to their indexed lengths leaves.
LEMMA TruncatedOK ==
    ASSUME IInv
    PROVE  /\ Truncated \in [Slabs -> Seq(Objs \cup {Junk})]
           /\ \A s \in Slabs :
                 /\ file[s] = <<>> => Truncated[s] = <<>>
                 /\ meta[s].there /\ Len(file[s]) >= meta[s].len =>
                       Len(Truncated[s]) = meta[s].len
                 /\ \A i \in Nat :
                       /\ i < Len(Truncated[s]) =>
                             /\ i < Len(file[s])
                             /\ Truncated[s][i + 1] = file[s][i + 1]
                       /\ i < Len(file[s]) /\ i < meta[s].len =>
                             i < Len(Truncated[s])
<1> SUFFICES ASSUME NEW s \in Slabs
             PROVE  /\ Truncated[s] \in Seq(Objs \cup {Junk})
                    /\ file[s] = <<>> => Truncated[s] = <<>>
                    /\ meta[s].there /\ Len(file[s]) >= meta[s].len =>
                          Len(Truncated[s]) = meta[s].len
                    /\ \A i \in Nat :
                          /\ i < Len(Truncated[s]) =>
                                /\ i < Len(file[s])
                                /\ Truncated[s][i + 1] = file[s][i + 1]
                          /\ i < Len(file[s]) /\ i < meta[s].len =>
                                i < Len(Truncated[s])
  BY DEF Truncated
<1> DEFINE q == file[s]
           n == meta[s].len
           p == SubSeq(q, 1, n)
<1>1. q \in Seq(Objs \cup {Junk}) /\ Len(q) \in Nat /\ n \in Nat
  BY DEF IInv, TypeOK, Metas
<1>2. CASE meta[s].there /\ Len(q) > n
  <2>1. Truncated[s] = p
    BY <1>2 DEF Truncated
  <2>2. /\ p \in Seq(Objs \cup {Junk}) /\ Len(p) = n
        /\ \A i \in Nat : i < n => p[i + 1] = q[i + 1]
    <3> HIDE DEF q, n
    <3> QED BY <1>1, <1>2, Prefix
  <2>3. q # <<>>
    <3> HIDE DEF q, n
    <3> QED BY <1>1, <1>2
  <2>4. q = file[s] /\ n = meta[s].len
    OBVIOUS
  <2> HIDE DEF q, n, p
  <2> QED
    BY <1>1, <1>2, <2>1, <2>2, <2>3, <2>4
<1>3. CASE ~(meta[s].there /\ Len(q) > n)
  <2>1. Truncated[s] = q
    BY <1>3 DEF Truncated
  <2>2. q = file[s] /\ n = meta[s].len
    OBVIOUS
  <2> HIDE DEF q, n, p
  <2> QED
    BY <1>1, <1>3, <2>1, <2>2
<1> QED
  BY <1>2, <1>3

LEMMA ReconcileInv ==
    ASSUME IInv, Reconcile
    PROVE  IInv'
<1>1. /\ up = "opening" /\ up' = "up" /\ file' = Truncated
      /\ UNCHANGED <<rec, lock, held, th, pinned, calls, crashes, losses>>
  BY DEF Reconcile, bounds
<1>2. lock = NoThread /\ \A u \in Threads : th[u] = Idle
  BY <1>1 DEF IInv, OpenInv
<1>3. LockInv' /\ ThreadInv'
  BY <1>1, <1>2, IdleThreads
<1>4. /\ open.slab \in Slabs /\ open.len \in Nat
      /\ meta[open.slab].there /\ ~meta[open.slab].sealed
      /\ meta[open.slab].len = open.len
  BY <1>1 DEF IInv, TypeOK, OpenInv
<1>5. /\ file' \in [Slabs -> Seq(Objs \cup {Junk})]
      /\ \A s \in Slabs :
            /\ file[s] = <<>> => file'[s] = <<>>
            /\ meta[s].there /\ Len(file[s]) >= meta[s].len =>
                  Len(file'[s]) = meta[s].len
            /\ \A i \in Nat :
                  /\ i < Len(file'[s]) => /\ i < Len(file[s])
                                          /\ file'[s][i + 1] = file[s][i + 1]
                  /\ i < Len(file[s]) /\ i < meta[s].len => i < Len(file'[s])
  BY <1>1, TruncatedOK
<1>6. ASSUME NEW o \in Objs, rec[o].kind = "slab"
      PROVE  /\ rec[o].slab \in Slabs /\ meta[rec[o].slab].there
             /\ rec[o].off < meta[rec[o].slab].len
             /\ rec[o].off < Len(file'[rec[o].slab]) =>
                    file'[rec[o].slab][rec[o].off + 1] = o
             /\ losses = 0 => rec[o].off < Len(file'[rec[o].slab])
  <2>1. rec[o].slab \in Slabs /\ rec[o].off \in Nat
    BY DEF IInv, TypeOK, Records
  <2> QED
    BY <1>5, <1>6, <2>1 DEF IInv, RecInv
<1>7. CASE Len(file[open.slab]) >= open.len /\ UNCHANGED <<meta, open>>
  <2>1. TypeOK'
    BY <1>1, <1>5, <1>7 DEF IInv, TypeOK
  <2>2. IndexInv'
    BY <1>5, <1>7 DEF IInv, IndexInv
  <2>3. OpenInv' /\ AlignInv'
    BY <1>1, <1>2, <1>4, <1>5, <1>7 DEF OpenInv, AlignInv
  <2>4. RecInv'
    BY <1>1, <1>6, <1>7 DEF RecInv
  <2> QED
    BY <1>3, <2>1, <2>2, <2>3, <2>4 DEF IInv
<1>8. CASE \E n \in Slabs :
              /\ IsNext(n)
              /\ meta' = [meta EXCEPT ![open.slab] = [@ EXCEPT !.sealed = TRUE],
                                      ![n] = NewMeta]
              /\ open' = [slab |-> n, len |-> 0]
  <2> DEFINE z == [meta[open.slab] EXCEPT !.sealed = TRUE]
  <2>1. PICK n \in Slabs :
              /\ IsNext(n)
              /\ meta' = [meta EXCEPT ![open.slab] = z, ![n] = NewMeta]
              /\ open' = [slab |-> n, len |-> 0]
    BY <1>8
  <2>2. \A s \in Slabs : s \in Int
    BY SlabAssumption DEF Slabs
  <2>3. n > open.slab /\ n # open.slab
    <3>1. \A s \in Slabs : s >= n => ~meta[s].there
      BY <1>4, <2>1 DEF IsNext
    <3> QED
      BY <1>4, <2>2, <3>1
  <2>4. /\ z \in Metas /\ z.there = meta[open.slab].there
        /\ z.len = meta[open.slab].len /\ z.sealed
    <3>1. meta[open.slab] \in Metas
      BY <1>4 DEF IInv, TypeOK
    <3> QED
      BY <3>1 DEF Metas
  <2>5. NewMeta \in Metas /\ NewMeta.there /\ ~NewMeta.sealed /\ NewMeta.len = 0
    BY DEF NewMeta, NoMeta, Metas
  <2> HIDE DEF z
  <2>6. /\ meta' \in [Slabs -> Metas] /\ meta'[open.slab] = z /\ meta'[n] = NewMeta
        /\ \A s \in Slabs \ {open.slab, n} : meta'[s] = meta[s]
        /\ open' \in [slab : Slabs, len : Nat] /\ open'.slab = n /\ open'.len = 0
    BY <1>4, <2>1, <2>3, <2>4, <2>5 DEF IInv, TypeOK
  <2>7. \A s \in Slabs : s > open.slab => ~meta[s].there /\ file[s] = <<>>
    BY <1>4 DEF IInv, IndexInv
  <2>8. TypeOK'
    BY <1>1, <1>5, <2>6 DEF IInv, TypeOK
  <2>9. OpenInv'
    BY <1>1, <2>5, <2>6 DEF OpenInv
  <2>10. AlignInv'
    <3>1. file'[n] = <<>>
      BY <1>5, <2>3, <2>7
    <3> QED
      BY <1>1, <1>2, <2>6, <3>1 DEF AlignInv
  <2>11. IndexInv'
    <3>1. ASSUME NEW s \in Slabs, meta'[s].there, ~meta'[s].sealed
          PROVE  s = n
      <4>1. s # open.slab
        BY <2>4, <2>6, <3>1
      <4>2. CASE s # n
        <5>1. meta[s].there /\ ~meta[s].sealed /\ s <= open.slab
          BY <1>1, <2>6, <3>1, <4>1, <4>2, OpenIsLast
        <5>2. s < open.slab
          BY <1>4, <2>2, <4>1, <5>1
        <5> QED
          BY <1>4, <5>1, <5>2 DEF IInv, IndexInv
      <4> QED BY <4>2
    <3>2. ASSUME NEW s \in Slabs, s > n
          PROVE  ~meta'[s].there /\ file'[s] = <<>>
      <4>1. s > open.slab /\ s # open.slab /\ s # n
        BY <1>4, <2>2, <2>3, <3>2
      <4> QED
        BY <1>5, <2>6, <2>7, <4>1
    <3>3. ~ \A s \in Slabs : meta'[s].there => meta'[s].sealed
      BY <2>5, <2>6
    <3> QED
      BY <3>1, <3>2, <3>3 DEF IndexInv
  <2>12. RecInv'
    <3>1. ASSUME NEW o \in Objs, rec[o].kind = "slab"
          PROVE  /\ meta'[rec[o].slab].there
                 /\ rec[o].off < meta'[rec[o].slab].len
      <4>1. rec[o].slab # n
        BY <1>6, <2>3, <2>7, <3>1
      <4>2. CASE rec[o].slab = open.slab
        BY <1>4, <1>6, <2>4, <2>6, <3>1, <4>2
      <4>3. CASE rec[o].slab # open.slab
        BY <1>6, <2>6, <3>1, <4>1, <4>3
      <4> QED BY <4>2, <4>3
    <3> QED
      BY <1>1, <1>6, <3>1 DEF RecInv
  <2> QED
    BY <1>3, <2>8, <2>9, <2>10, <2>11, <2>12 DEF IInv
<1> QED
  BY <1>7, <1>8 DEF Reconcile

-----------------------------------------------------------------------------
(* The theorems.                                                           *)

LEMMA ThreadStepInv ==
    ASSUME IInv, NEW t \in Threads, ThreadStep(t)
    PROVE  IInv'
BY InsertCheckInv, RemoveStartInv, EvictOneInv, ReadStartInv, InsertRecheckInv,
   InsertAppendInv, InsertCommitInv, RemoveReadInv, DeleteInv, EvictScanInv,
   EvictDoneInv, CompactScanInv, CompactCollectInv, MoveReadInv, MoveAppendInv,
   MoveCommitInv, DropSlabInv, UnlinkSlabInv, ReadSlabInv, RevalidateInv,
   RetireExternInv
   DEF ThreadStep

LEMMA StutterInv ==
    ASSUME IInv, UNCHANGED vars
    PROVE  IInv'
<1>1. /\ UNCHANGED <<rec, meta, file, up, open, lock, held, th, pinned>>
      /\ UNCHANGED <<calls, crashes, losses>>
  BY DEF vars, disk, mem, bounds
<1>2. TypeOK'
  BY <1>1 DEF IInv, TypeOK
<1> QED
  BY <1>1, <1>2, WeakStep

\* The inductive invariant of the object store's slabs holds in every state,
\* for any number of objects, threads, slabs, calls, crashes and losses.
THEOREM Invariance == Spec => []IInv
<1>1. Init => IInv
  <2> SUFFICES ASSUME Init PROVE IInv
    OBVIOUS
  <2>1. 0 \in Slabs /\ NoRec \in Records /\ NoMeta \in Metas
    BY NoRecOK, SlabAssumption DEF Slabs, NoMeta, Metas
  <2>2. TypeOK
    BY <2>1, IdleOK DEF Init, TypeOK
  <2>3. IndexInv /\ OpenInv /\ AlignInv
    BY DEF Init, IndexInv, OpenInv, AlignInv, NoMeta
  <2>4. LockInv
    BY IdleOK, SlabAssumption DEF Init, LockInv
  <2>5. RecInv
    BY NoRecOK DEF Init, RecInv
  <2>6. ThreadInv
    BY IdleOK DEF Init, ThreadInv, ObjInv, ReadInv, CompactInv, Moving
  <2> QED
    BY <2>2, <2>3, <2>4, <2>5, <2>6 DEF IInv
<1>2. IInv /\ [Next]_vars => IInv'
  BY ThreadStepInv, TxnInv, CrashInv, OpenIndexInv, ReconcileInv, StutterInv
     DEF Next
<1> QED
  BY <1>1, <1>2, PTL DEF Spec

\* Type correctness: reference counts and dead counts never go below zero, and
\* no slab id leaves its range.
THEOREM TypeCorrect == Spec => []TypeOK
<1>1. IInv => TypeOK
  BY DEF IInv
<1> QED
  BY <1>1, Invariance, PTL

\* Whenever the store is up and nobody appends, the open slab's file ends where
\* insert_bytes will record its next object.
THEOREM OpenAlignment == Spec => []OpenAligned
<1>1. IInv => OpenAligned
  BY DEF IInv, OpenInv, AlignInv, OpenAligned
<1> QED
  BY <1>1, Invariance, PTL

\* A slab record addresses its own object's bytes through every interleaving of
\* insert_bytes, delete_object, compact_slab and a crash with open_with's repair.
THEOREM Addressing == Spec => []SlabAddressed
<1>1. IInv => SlabAddressed
  BY DEF IInv, RecInv, SlabAddressed, Readable
<1> QED
  BY <1>1, Invariance, PTL

\* A reader that looked a record up before any number of compactions reads the
\* object it asked for, or fails: slab ids are never reused while it can read.
THEOREM HonestReads == Spec => []ReadsHonest
<1>1. IInv => ReadsHonest
  BY DEF IInv, ThreadInv, ReadInv, ReadsHonest, Readable
<1> QED
  BY <1>1, Invariance, PTL

\* A thread's step changes no other thread's locals.
LEMMA ThreadFrame ==
    ASSUME IInv, NEW u \in Threads, ThreadStep(u)
    PROVE  \A t \in Threads : t # u => th'[t] = th[t]
<1>1. ASSUME NEW v, th' = [th EXCEPT ![u] = v]
      PROVE  \A t \in Threads : t # u => th'[t] = th[t]
  BY <1>1 DEF IInv, TypeOK
<1>2. ASSUME NEW o \in Objs, InsertCheck(u, o) \/ RemoveStart(u, o) \/ EvictOne(u, o)
      PROVE  \E v : th' = [th EXCEPT ![u] = v]
  BY <1>2 DEF InsertCheck, RemoveStart, EvictOne
<1>3. ASSUME NEW o \in Objs, NEW how \in {"read", "check"}, ReadStart(u, o, how)
      PROVE  \E v : th' = [th EXCEPT ![u] = v]
  BY <1>3 DEF ReadStart
<1>4. ASSUME InsertRecheck(u) \/ InsertAppend(u) \/ InsertCommit(u)
      PROVE  \E v : th' = [th EXCEPT ![u] = v]
  BY <1>4 DEF InsertRecheck, InsertAppend, Append1, InsertCommit, Goto, Return
<1>5. ASSUME RemoveRead(u) \/ Delete(u) \/ EvictScan(u) \/ EvictDone(u)
      PROVE  \E v : th' = [th EXCEPT ![u] = v]
  BY <1>5 DEF RemoveRead, Delete, EvictScan, EvictDone, Goto, Return
<1>6. ASSUME CompactScan(u) \/ MoveAppend(u) \/ MoveCommit(u)
      PROVE  \E v : th' = [th EXCEPT ![u] = v]
  BY <1>6 DEF CompactScan, Compacted, MoveAppend, Append1, MoveCommit, Goto, Return
<1>7. ASSUME \/ DropSlab(u) \/ UnlinkSlab(u)
             \/ ReadSlab(u) \/ Revalidate(u) \/ RetireExtern(u)
      PROVE  \E v : th' = [th EXCEPT ![u] = v]
  BY <1>7 DEF DropSlab, UnlinkSlab, Compacted, ReadSlab, Revalidate, RetireExtern,
              Goto, Return
<1>8. ASSUME NEW s \in Slabs, CompactCollect(u, s)
      PROVE  \E v : th' = [th EXCEPT ![u] = v]
  BY <1>8 DEF CompactCollect
<1>9. ASSUME NEW e \in th[u].live, MoveRead(u, e)
      PROVE  \E v : th' = [th EXCEPT ![u] = v]
  BY <1>9 DEF MoveRead, Return
<1> QED
  BY <1>1, <1>2, <1>3, <1>4, <1>5, <1>6, <1>7, <1>8, <1>9 DEF ThreadStep

\* Steps outside the threads change no thread's locals, or empty them all.
LEMMA OtherFrame ==
    ASSUME IInv, [Next]_vars, NEW t \in Threads, th'[t] # th[t], th'[t] # Idle
    PROVE  ThreadStep(t)
<1>1. CASE \E u \in Threads : ThreadStep(u)
  BY <1>1, ThreadFrame
<1>2. ASSUME NEW o \in Objs, Txn(o) PROVE FALSE
  BY <1>2 DEF Txn, Pin, Unpin, Hold, DropHold, EnsureSparse, CommitExtern
<1>3. CASE Crash
  BY <1>3 DEF Crash
<1>4. CASE OpenIndex \/ Reconcile
  BY <1>4 DEF OpenIndex, Reconcile
<1>5. CASE UNCHANGED vars
  BY <1>5 DEF vars
<1> QED
  BY <1>1, <1>2, <1>3, <1>4, <1>5 DEF Next

\* The commit of a compaction's move re-reads the record in its transaction, so
\* it resurrects no removed object, loses no pin and drops nothing.
THEOREM InvisibleCompaction == Spec => CompactionInvisible
<1> DEFINE Inv(t) == th[t].pc = "move_commit" /\ th'[t].pc = "pick"
                     => \A o \in Objs : /\ rec'[o].kind = rec[o].kind
                                        /\ rec'[o].ref = rec[o].ref
<1>1. ASSUME IInv, [Next]_vars, NEW t \in Threads
      PROVE  Inv(t)
  <2> SUFFICES ASSUME th[t].pc = "move_commit", th'[t].pc = "pick", NEW o \in Objs
               PROVE  rec'[o].kind = rec[o].kind /\ rec'[o].ref = rec[o].ref
    OBVIOUS
  <2>1. ThreadStep(t)
    BY <1>1, OtherFrame, IdleOK
  <2>2. InsertCommit(t) \/ MoveCommit(t)
    BY <2>1 DEF ThreadStep, InsertCheck, RemoveStart, EvictOne, ReadStart,
                InsertRecheck, InsertAppend, RemoveRead, Delete, EvictScan,
                EvictDone, CompactScan, CompactCollect, MoveRead, MoveAppend,
                DropSlab, UnlinkSlab, ReadSlab, Revalidate, RetireExtern, Running
  <2>3. MoveCommit(t)
    BY <2>2 DEF InsertCommit, Running
  <2>4. CASE rec' = rec
    BY <2>4
  <2>5. CASE rec' = [rec EXCEPT ![th[t].was.obj] =
                      [@ EXCEPT !.slab = open.slab, !.off = open.len]]
    BY <1>1, <2>5 DEF IInv, TypeOK, Records
  <2> QED
    BY <2>3, <2>4, <2>5 DEF MoveCommit
<1>2. IInv /\ [Next]_vars => [\A t \in Threads : Inv(t)]_vars
  BY <1>1
<1> QED
  BY <1>2, Invariance, PTL DEF Spec, CompactionInvisible

\* delete_if_unreferenced decides in its own transaction, so however stale the
\* list of candidates is, eviction takes no referenced, held or user-owned object.
THEOREM SparingEviction == Spec => EvictionSpares
<1> DEFINE Inv(t, o) ==
             /\ th[t].pc = "evict" /\ th'[t].pc = "evict" /\ th'[t] # th[t]
             /\ rec[o].ref > 0 \/ o \in held \/ rec[o].kind = "extern"
             => rec'[o] = rec[o]
<1>1. ASSUME IInv, [Next]_vars, NEW t \in Threads, NEW o \in Objs
      PROVE  Inv(t, o)
  <2> SUFFICES ASSUME th[t].pc = "evict", th'[t].pc = "evict", th'[t] # th[t],
                      rec[o].ref > 0 \/ o \in held \/ rec[o].kind = "extern"
               PROVE  rec'[o] = rec[o]
    OBVIOUS
  <2>1. ThreadStep(t)
    BY <1>1, OtherFrame, IdleOK
  <2>2. EvictDone(t) \/ \E p \in Objs : EvictOne(t, p)
    BY <2>1 DEF ThreadStep, InsertCheck, RemoveStart, ReadStart, InsertRecheck,
                InsertAppend, InsertCommit, RemoveRead, Delete, EvictScan,
                CompactScan, CompactCollect, MoveRead, MoveAppend, MoveCommit,
                DropSlab, UnlinkSlab, ReadSlab, Revalidate, RetireExtern, Running
  <2>3. CASE EvictDone(t)
    BY <2>3 DEF EvictDone, disk
  <2>4. ASSUME NEW p \in Objs, EvictOne(t, p)
        PROVE  rec'[o] = rec[o]
    <3>1. CASE rec' = rec
      BY <3>1
    <3>2. ASSUME rec[p].kind \in {"part", "slab"}, rec[p].ref = 0, p \notin held,
                 rec' = [rec EXCEPT ![p] = NoRec]
          PROVE  rec'[o] = rec[o]
      <4>1. o # p
        BY <3>2
      <4> QED
        BY <1>1, <3>2, <4>1 DEF IInv, TypeOK
    <3> QED
      BY <2>4, <3>1, <3>2 DEF EvictOne
  <2> QED
    BY <2>2, <2>3, <2>4
<1>2. IInv /\ [Next]_vars => [\A t \in Threads, o \in Objs : Inv(t, o)]_vars
  BY <1>1
<1> QED
  BY <1>2, Invariance, PTL DEF Spec, EvictionSpares
=============================================================================
