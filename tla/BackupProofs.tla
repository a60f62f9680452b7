---------------------------- MODULE BackupProofs ----------------------------
(***************************************************************************)
(* Proofs about Backup: what a restore destroys is in an archive, and a    *)
(* restore that was left alone gives back its archive, for any files,      *)
(* threads, requests, edits and crashes.                                   *)
(***************************************************************************)
EXTENDS Backup, TLAPS

(***************************************************************************)
(* The inductive invariant.                                                *)
(***************************************************************************)

\* The content is in a readable archive, or was until the user deleted it.
Kept(c) ==
    \/ c \in discarded
    \/ \E n \in DOMAIN archive : archive[n].whole /\ c \in Range(archive[n].files)

Packing(t) == task[t].at \in {"create", "save"}

\* A thread between two requests remembers nothing, and one that makes a backup
\* restores nothing.
Bare(r) == /\ r.at = "idle" => r = Idle
           /\ r.at = "create" => r.src = Empty /\ ~r.alone

\* A restore stages files of the components it was asked for, and its stamp is
\* a moment that has passed.
Scoped(r) == /\ \A f \in DOMAIN r.src : Component[f] \in r.comps
             /\ r.at = "stage" => r.left \subseteq DOMAIN r.src
             /\ r.stamp <= clock

TasksProper == \A t \in Tasks : Bare(task[t]) /\ Scoped(task[t])

\* A plan replaces the tree only when it has a file of it, and its stamp has
\* passed.
PlanProper ==
    /\ pending.plan.dirs # {} => \E g \in pending.plan.files : g \in Tree
    /\ pending.plan.stamp <= clock

\* Requests are served by a node that is up, and a boot works off its plan.
BootProper ==
    /\ boot.at # "up" => \A t \in Tasks : task[t].at = "idle"
    /\ boot.at = "place" => boot.left \subseteq pending.plan.files
    /\ boot.at = "sweep" => boot.left = {}

\* A backup under way has a .part of its own, under a name no archive has.
PartOwn(t) ==
    Packing(t) =>
        /\ task[t].name \in DOMAIN part /\ part[task[t].name].whole
        /\ task[t].name \notin DOMAIN archive
        /\ task[t].name[1] # "uploaded"
        /\ \A u \in Tasks \ {t} : Packing(u) => task[u].name # task[t].name

\* The safety backup owes the contents the node holds of its components, except
\* the ones written since it began.
Owes(t, f) ==
    /\ f \in DOMAIN data /\ Component[f] \in task[t].comps
    /\ data[f][2] <= task[t].stamp

Packed(t, f) ==
    LET files == part[task[t].name].files
    IN  f \in DOMAIN files /\ files[f] = data[f]

SavePays(t) ==
    /\ task[t].at = "save" =>
          \A f \in Files : Owes(t, f) => f \in task[t].left \/ Packed(t, f)
    /\ task[t].at = "commit" =>
          \A f \in Files : Owes(t, f) => Kept(data[f])

AllKept(fs) == \A f \in DOMAIN fs : Kept(fs[f])

\* The files a plan may destroy are among those of its components.
InScope(f) == \E g \in pending.plan.files : Component[g] = Component[f]

PlanPaid ==
    \A f \in DOMAIN data :
        InScope(f) /\ data[f][2] <= pending.plan.stamp => Kept(data[f])

Net ==
    /\ \A t \in Tasks : PartOwn(t) /\ SavePays(t) /\ AllKept(task[t].src)
    /\ AllKept(pending.files)
    /\ PlanPaid
    /\ \A c \in gone : Kept(c)

Secured == ~spoilt => Net

\* The files of fs are those of src.
Agrees(fs, src) == \A f \in DOMAIN fs : f \in DOMAIN src /\ fs[f] = src[f]

\* A restore that is alone staged what is in the directory, ...
StagesAlone ==
    \A t \in Tasks : task[t].alone =>
        /\ Staging(t)
        /\ \A u \in Tasks \ {t} : ~Staging(u)
        /\ Agrees(pending.files, task[t].src)

\* ... and so does a plan that was made alone, which no restore has touched since.
PlansAlone ==
    pending.plan.alone =>
        /\ \A t \in Tasks : ~Staging(t)
        /\ pending.plan.files = DOMAIN pending.plan.want
        /\ Agrees(pending.files, pending.plan.want)

\* What a clean apply has placed so far.
PlacedExact ==
    boot.at = "place" /\ boot.clean /\ pending.plan.alone =>
        /\ \A f \in pending.plan.files \ boot.left :
              f \in DOMAIN data /\ data[f] = pending.plan.want[f]
        /\ pending.plan.dirs # {} => Tree \cap DOMAIN data \subseteq pending.plan.files

IInv ==
    /\ TypeOK
    /\ TasksProper
    /\ PlanProper
    /\ BootProper
    /\ Secured
    /\ StagesAlone
    /\ PlansAlone
    /\ PlacedExact
    /\ RestoreExact

-----------------------------------------------------------------------------
(***************************************************************************)
(* Facts about disks, archives and records.                                *)
(***************************************************************************)

\* Put and Without, on any function.
LEMMA PutFacts ==
    ASSUME NEW fs, NEW f, NEW v
    PROVE  /\ DOMAIN Put(fs, f, v) = DOMAIN fs \cup {f}
           /\ Put(fs, f, v)[f] = v
           /\ \A g \in DOMAIN fs : g # f => Put(fs, f, v)[g] = fs[g]
BY DEF Put

LEMMA WithoutFacts ==
    ASSUME NEW fs, NEW S
    PROVE  /\ DOMAIN Without(fs, S) = DOMAIN fs \ S
           /\ \A g \in DOMAIN fs \ S : Without(fs, S)[g] = fs[g]
BY DEF Without, Restrict

LEMMA DiskFacts ==
    ASSUME NEW fs, IsDisk(fs)
    PROVE  /\ DOMAIN fs \subseteq Files
           /\ \A f \in DOMAIN fs : fs[f] \in Files \X Nat /\ fs[f][2] \in Nat
BY DEF IsDisk

LEMMA DiskPut ==
    ASSUME NEW fs, IsDisk(fs), NEW f \in Files, NEW v \in Files \X Nat
    PROVE  IsDisk(Put(fs, f, v))
BY DEF IsDisk, Put

LEMMA DiskWithout ==
    ASSUME NEW fs, IsDisk(fs), NEW S
    PROVE  IsDisk(Without(fs, S))
BY DEF IsDisk, Without, Restrict

LEMMA DiskRestrict ==
    ASSUME NEW fs, IsDisk(fs), NEW S \in SUBSET (DOMAIN fs)
    PROVE  /\ IsDisk(Restrict(fs, S))
           /\ DOMAIN Restrict(fs, S) = S
           /\ \A f \in S : Restrict(fs, S)[f] = fs[f]
BY DEF IsDisk, Restrict

LEMMA EmptyDisk == IsDisk(Empty) /\ DOMAIN Empty = {}
BY DEF IsDisk, Empty

LEMMA ForeignerFacts ==
    ASSUME NEW S \in SUBSET Files
    PROVE  IsArchive(Foreigner(S))
<1> DEFINE fs == [f \in S |-> <<f, 0>>]
           cs == {Component[f] : f \in S}
<1>1. IsDisk(fs)
  BY DEF IsDisk
<1>2. cs \subseteq Components
  BY BackupAssumption DEF Components, Range
<1> HIDE DEF fs, cs
<1>3. [files |-> fs, comps |-> cs, whole |-> TRUE] = [files |-> fs, whole |-> TRUE, comps |-> cs]
  OBVIOUS
<1>4. PICK a : a = [files |-> fs, comps |-> cs, whole |-> TRUE]
  OBVIOUS
<1>5. IsArchive(a)
  BY <1>1, <1>2, <1>4 DEF IsArchive
<1> QED
  BY <1>3, <1>4, <1>5 DEF Foreigner, fs, cs

\* An archive being written: its files replaced.
LEMMA ArchiveFiles ==
    ASSUME NEW a, IsArchive(a), NEW fs, IsDisk(fs)
    PROVE  /\ IsArchive([a EXCEPT !.files = fs])
           /\ [a EXCEPT !.files = fs].files = fs
           /\ [a EXCEPT !.files = fs].whole = a.whole
BY DEF IsArchive

LEMMA FirstIn ==
    ASSUME NEW S, S # {}
    PROVE  First(S) \in S
BY DEF First

LEMMA IdleFacts ==
    /\ IsTask(Idle)
    /\ Idle.at = "idle" /\ Idle.src = Empty /\ Idle.alone = FALSE
    /\ Idle.stamp = 0 /\ Idle.left = {} /\ Idle.comps = {} /\ Idle.name = <<>>
BY EmptyDisk DEF IsTask, Idle

LEMMA NoPlanFacts ==
    /\ IsPlan(NoPlan)
    /\ NoPlan.files = {} /\ NoPlan.dirs = {} /\ NoPlan.stamp = 0
    /\ NoPlan.alone = FALSE /\ NoPlan.want = Empty
BY EmptyDisk DEF IsPlan, NoPlan

LEMMA NoPendingFacts ==
    /\ NoPending.there = FALSE /\ NoPending.files = Empty /\ NoPending.plan = NoPlan
    /\ NoPending = [there |-> FALSE, files |-> Empty, plan |-> NoPlan]
BY DEF NoPending

\* The fields of a thread's record.
LEMMA TaskFields ==
    ASSUME NEW r, IsTask(r)
    PROVE  /\ r = [at |-> r.at, comps |-> r.comps, left |-> r.left, src |-> r.src,
                   name |-> r.name, stamp |-> r.stamp, alone |-> r.alone]
           /\ r.at \in {"idle", "create", "stage", "save", "commit"}
           /\ r.comps \subseteq Components /\ r.left \subseteq Files
           /\ IsDisk(r.src) /\ r.name \in Names \cup {<<>>} /\ r.stamp \in Nat
           /\ r.alone \in BOOLEAN
BY DEF IsTask

LEMMA TaskMake ==
    ASSUME NEW a \in {"idle", "create", "stage", "save", "commit"},
           NEW cs \in SUBSET Components, NEW l \in SUBSET Files, NEW s, IsDisk(s),
           NEW n \in Names \cup {<<>>}, NEW k \in Nat, NEW b \in BOOLEAN
    PROVE  IsTask([at |-> a, comps |-> cs, left |-> l, src |-> s, name |-> n,
                   stamp |-> k, alone |-> b])
BY DEF IsTask

\* One thread's record is replaced.
LEMMA Turn ==
    ASSUME TypeOK, NEW t \in Tasks, NEW r, IsTask(r), task' = [task EXCEPT ![t] = r]
    PROVE  /\ task' = [u \in Tasks |-> task'[u]] /\ \A u \in Tasks : IsTask(task'[u])
           /\ task'[t] = r
           /\ \A u \in Tasks : u # t => task'[u] = task[u]
<1>1. DOMAIN task = Tasks /\ \A u \in Tasks : IsTask(task[u])
  BY DEF TypeOK
<1> QED
  BY <1>1

\* Archives come, none is overwritten: what was kept is kept.
LEMMA KeptGrows ==
    ASSUME \A n \in DOMAIN archive : n \in DOMAIN archive' /\ archive'[n] = archive[n],
           discarded \subseteq discarded'
    PROVE  \A c : Kept(c) => Kept(c)'
BY DEF Kept

LEMMA KeptSame ==
    ASSUME UNCHANGED <<archive, discarded>>
    PROVE  \A c : Kept(c)' <=> Kept(c)
BY DEF Kept

\* A thread at work means a node that is up, ...
LEMMA Serving ==
    ASSUME IInv, NEW t \in Tasks, task[t].at # "idle"
    PROVE  boot.at = "up"
BY DEF IInv, BootProper

\* ... and while it stays up nothing is applied.
LEMMA UpKeeps ==
    ASSUME boot.at = "up", boot' = boot
    PROVE  BootProper' /\ PlacedExact' /\ RestoreExact'
BY DEF BootProper, PlacedExact, RestoreExact

LEMMA ProperTurn ==
    ASSUME IInv, NEW t \in Tasks, clock' = clock,
           \A u \in Tasks : u # t => task'[u] = task[u],
           Bare(task'[t]), Scoped(task'[t])
    PROVE  TasksProper'
BY DEF IInv, TasksProper, Bare, Scoped

\* Everything of a thread but whether it is alone stays.
Unmoved(u) ==
    /\ task'[u].at = task[u].at /\ task'[u].comps = task[u].comps
    /\ task'[u].left = task[u].left /\ task'[u].src = task[u].src
    /\ task'[u].name = task[u].name /\ task'[u].stamp = task[u].stamp

\* Threads that stay where they are and keep their .part go on saving what they
\* owe.
LEMMA NetUnmoved ==
    ASSUME Net, NEW U \in SUBSET Tasks, data' = data, \A c : Kept(c) => Kept(c)',
           \A u \in U : Unmoved(u),
           \A u \in U : Packing(u) =>
               /\ task[u].name \in DOMAIN part'
               /\ part'[task[u].name] = part[task[u].name]
               /\ task[u].name \notin DOMAIN archive'
               /\ \A w \in Tasks \ U : Packing(w)' => task'[w].name # task[u].name
    PROVE  \A u \in U : PartOwn(u)' /\ SavePays(u)' /\ AllKept(task[u].src)'
<1> SUFFICES ASSUME NEW u \in U
             PROVE  PartOwn(u)' /\ SavePays(u)' /\ AllKept(task[u].src)'
  OBVIOUS
<1>1. u \in Tasks /\ PartOwn(u) /\ SavePays(u) /\ AllKept(task[u].src)
  BY DEF Net
<1>2. \A w \in U : Packing(w)' = Packing(w) /\ task'[w].name = task[w].name
  BY DEF Packing, Unmoved
<1>3. PartOwn(u)'
  <2>1. \A w \in Tasks \ {u} : Packing(w)' /\ Packing(u) => task'[w].name # task[u].name
    BY <1>1, <1>2 DEF PartOwn
  <2> QED
    BY <1>1, <1>2, <2>1 DEF PartOwn
<1>4. SavePays(u)'
  <2>1. \A f : Owes(u, f)' = Owes(u, f)
    BY DEF Owes, Unmoved
  <2>2. task[u].at = "save" => \A f : Packed(u, f)' = Packed(u, f)
    BY DEF Packed, Packing, Unmoved
  <2>3. task'[u].at = task[u].at /\ task'[u].left = task[u].left
    BY DEF Unmoved
  <2> QED
    BY <1>1, <2>1, <2>2, <2>3 DEF SavePays
<1>5. AllKept(task[u].src)'
  BY <1>1 DEF AllKept, Unmoved
<1> QED
  BY <1>3, <1>4, <1>5

\* The others are not disturbed in what they save.
LEMMA NetTurn ==
    ASSUME Net, NEW t \in Tasks, data' = data, \A c : Kept(c) => Kept(c)',
           \A u \in Tasks : u # t => task'[u] = task[u],
           \A u \in Tasks : u # t /\ Packing(u) =>
               /\ task[u].name \in DOMAIN part'
               /\ part'[task[u].name] = part[task[u].name]
               /\ task[u].name \notin DOMAIN archive'
               /\ Packing(t)' => task'[t].name # task[u].name
    PROVE  \A u \in Tasks : u # t =>
               PartOwn(u)' /\ SavePays(u)' /\ AllKept(task[u].src)'
<1>1. PICK U \in SUBSET Tasks : U = Tasks \ {t}
  OBVIOUS
<1>2. \A u \in U : Unmoved(u)
  BY <1>1 DEF Unmoved
<1>3. \A w \in Tasks \ U : w = t
  BY <1>1
<1>4. \A u \in U : Packing(u) =>
               /\ task[u].name \in DOMAIN part'
               /\ part'[task[u].name] = part[task[u].name]
               /\ task[u].name \notin DOMAIN archive'
               /\ \A w \in Tasks \ U : Packing(w)' => task'[w].name # task[u].name
  BY <1>1, <1>3
<1>5. \A u \in U : PartOwn(u)' /\ SavePays(u)' /\ AllKept(task[u].src)'
  BY <1>2, <1>4, NetUnmoved
<1> QED
  BY <1>1, <1>5

\* Nobody at work owes anything.
LEMMA NetIdle ==
    ASSUME \A t \in Tasks : task'[t] = Idle
    PROVE  \A t \in Tasks : PartOwn(t)' /\ SavePays(t)' /\ AllKept(task[t].src)'
BY IdleFacts, EmptyDisk DEF PartOwn, SavePays, AllKept, Packing

\* A step that frees a thread and packs nothing.
LEMMA IdleRecord ==
    ASSUME NEW t \in Tasks, task'[t] = Idle, TypeOK, clock' = clock
    PROVE  /\ Bare(task'[t]) /\ Scoped(task'[t])
           /\ PartOwn(t)' /\ SavePays(t)' /\ AllKept(task[t].src)'
           /\ ~task'[t].alone /\ ~Staging(t)'
<1>1. 0 <= clock
  BY DEF TypeOK
<1> QED
  BY <1>1, IdleFacts, EmptyDisk
  DEF Bare, Scoped, PartOwn, SavePays, AllKept, Packing, Staging

-----------------------------------------------------------------------------
(***************************************************************************)
(* Backups.                                                                *)
(***************************************************************************)

\* What create_backup does before its first file.
Opened(t, at, cs, n) ==
    /\ n \notin DOMAIN archive /\ n[1] # "uploaded"
    /\ DOMAIN part' = DOMAIN part \cup {n} /\ IsArchive(part'[n])
    /\ \A m \in DOMAIN part : m # n => part'[m] = part[m]
    /\ spoilt' \in BOOLEAN
    /\ ~spoilt' => /\ ~spoilt /\ part'[n].whole
                   /\ \A u \in Tasks : u # t => task[u].name # n
    /\ task' = [u \in Tasks |-> task'[u]] /\ \A u \in Tasks : IsTask(task'[u])
    /\ \A u \in Tasks : u # t => task'[u] = task[u]
    /\ task'[t].at = at /\ task'[t].comps = cs /\ task'[t].left = Covered(cs)
    /\ task'[t].src = task[t].src /\ task'[t].name = n /\ task'[t].stamp = clock
    /\ task'[t].alone = task[t].alone

LEMMA OpenFacts ==
    ASSUME TypeOK, NEW t \in Tasks, NEW at \in {"create", "save"},
           NEW cs \in SUBSET Components, NEW prefix \in {"epix-backup", "pre-restore"},
           Open(t, at, cs, prefix)
    PROVE  \E n \in Names : Opened(t, at, cs, n)
<1>1. PICK k \in Slots :
        LET n == <<prefix, k>>
            shared == \E u \in Tasks \ {t} : task[u].name = n
        IN  /\ n \notin DOMAIN archive
            /\ part' = Put(part, n, [files |-> Empty, comps |-> cs, whole |-> ~shared])
            /\ spoilt' = (spoilt \/ shared)
            /\ task' = [task EXCEPT ![t].at = at, ![t].comps = cs, ![t].name = n,
                                    ![t].left = Covered(cs), ![t].stamp = clock]
  BY DEF Open
<1>2. PICK n : n = <<prefix, k>>
  OBVIOUS
<1>3. n \in Names /\ n[1] # "uploaded"
  BY <1>2 DEF Names
<1>4. PICK shared \in BOOLEAN : shared = \E u \in Tasks \ {t} : task[u].name = n
  OBVIOUS
<1>5. /\ n \notin DOMAIN archive
      /\ part' = Put(part, n, [files |-> Empty, comps |-> cs, whole |-> ~shared])
      /\ spoilt' = (spoilt \/ shared)
      /\ task' = [task EXCEPT ![t].at = at, ![t].comps = cs, ![t].name = n,
                              ![t].left = Covered(cs), ![t].stamp = clock]
  BY <1>1, <1>2, <1>4
<1>6. PICK a : a = [files |-> Empty, comps |-> cs, whole |-> ~shared]
  OBVIOUS
<1>7. IsArchive(a) /\ (a.whole <=> ~shared)
  BY <1>6, EmptyDisk DEF IsArchive
<1>8. /\ DOMAIN part' = DOMAIN part \cup {n} /\ part'[n] = a
      /\ \A m \in DOMAIN part : m # n => part'[m] = part[m]
  <2>1. part' = Put(part, n, a)
    BY <1>5, <1>6
  <2> QED
    BY <2>1 DEF Put
<1>9. IsTask(task[t]) /\ clock \in Nat /\ spoilt \in BOOLEAN /\ Covered(cs) \in SUBSET Files
  BY DEF TypeOK, Covered, IsDisk
<1>10. PICK r : r = [task[t] EXCEPT !.at = at, !.comps = cs, !.name = n,
                                    !.left = Covered(cs), !.stamp = clock]
  OBVIOUS
<1>11. /\ IsTask(r)
       /\ r.at = at /\ r.comps = cs /\ r.left = Covered(cs) /\ r.src = task[t].src
       /\ r.name = n /\ r.stamp = clock /\ r.alone = task[t].alone
  BY <1>3, <1>9, <1>10 DEF IsTask
<1>12. task' = [task EXCEPT ![t] = r]
  BY <1>5, <1>10 DEF TypeOK
<1>13. /\ task' = [u \in Tasks |-> task'[u]] /\ \A u \in Tasks : IsTask(task'[u])
       /\ task'[t] = r /\ \A u \in Tasks : u # t => task'[u] = task[u]
  BY <1>11, <1>12, Turn
<1>14. spoilt' \in BOOLEAN /\ (~spoilt' => ~spoilt /\ ~shared)
  BY <1>5, <1>9
<1> QED
  BY <1>3, <1>4, <1>5, <1>7, <1>8, <1>11, <1>13, <1>14 DEF Opened

\* Opening a .part disturbs nothing that was saved.
LEMMA NetOpen ==
    ASSUME IInv, NEW t \in Tasks, ~Packing(t), NEW at \in {"create", "save"},
           NEW cs \in SUBSET Components, NEW prefix \in {"epix-backup", "pre-restore"},
           Open(t, at, cs, prefix),
           UNCHANGED <<data, archive, pending, gone, discarded, clock>>
    PROVE  Secured'
<1> SUFFICES ASSUME ~spoilt'
             PROVE  Net'
  BY DEF Secured
<1> TypeOK
  BY DEF IInv
<1>0. PICK n \in Names : Opened(t, at, cs, n)
  BY OpenFacts
<1>1. /\ n \notin DOMAIN archive /\ n[1] # "uploaded"
      /\ DOMAIN part' = DOMAIN part \cup {n} /\ part'[n].whole
      /\ \A m \in DOMAIN part : m # n => part'[m] = part[m]
      /\ ~spoilt
      /\ \A u \in Tasks : u # t => task[u].name # n
      /\ \A u \in Tasks : u # t => task'[u] = task[u]
  BY <1>0 DEF Opened
<1>2. Net /\ \A u \in Tasks : PartOwn(u) /\ SavePays(u) /\ AllKept(task[u].src)
  BY <1>1 DEF IInv, Secured, Net
<1>3. \A c : Kept(c)' <=> Kept(c)
  BY KeptSame
<1>4. /\ task'[t].name = n /\ task'[t].at = at /\ task'[t].src = task[t].src
      /\ task'[t].comps = cs /\ task'[t].left = Covered(cs)
  BY <1>0 DEF Opened
<1>5. \A u \in Tasks : u # t /\ Packing(u) =>
               /\ task[u].name \in DOMAIN part'
               /\ part'[task[u].name] = part[task[u].name]
               /\ task[u].name \notin DOMAIN archive'
               /\ Packing(t)' => task'[t].name # task[u].name
  BY <1>1, <1>2, <1>4 DEF PartOwn
<1>6. \A u \in Tasks : u # t => PartOwn(u)' /\ SavePays(u)' /\ AllKept(task[u].src)'
  BY <1>1, <1>2, <1>3, <1>5, NetTurn
<1>7. PartOwn(t)'
  BY <1>1, <1>4 DEF PartOwn
<1>8. SavePays(t)'
  <2>1. \A f \in Files : Owes(t, f)' => f \in task'[t].left
    BY <1>4 DEF Owes, Covered
  <2>2. task'[t].at # "commit"
    BY <1>4
  <2> QED
    BY <2>1, <2>2 DEF SavePays
<1>9. AllKept(task[t].src)'
  BY <1>2, <1>3, <1>4 DEF AllKept
<1>10. AllKept(pending.files)' /\ PlanPaid' /\ \A c \in gone' : Kept(c)'
  BY <1>2, <1>3 DEF Net, AllKept, PlanPaid, InScope
<1> QED
  BY <1>6, <1>7, <1>8, <1>9, <1>10 DEF Net

\* The counters stay within their bounds.
LEMMA SpentTyped ==
    ASSUME TypeOK,
           \/ Spend("requests", MaxRequests) \/ Spend("edits", MaxEdits)
           \/ Spend("faults", MaxFaults) \/ UNCHANGED spent
    PROVE  spent' \in [requests : 0 .. MaxRequests, edits : 0 .. MaxEdits,
                       faults : 0 .. MaxFaults]
<1>1. spent \in [requests : 0 .. MaxRequests, edits : 0 .. MaxEdits,
                 faults : 0 .. MaxFaults]
  BY DEF TypeOK
<1>2. MaxRequests \in Nat /\ MaxEdits \in Nat /\ MaxFaults \in Nat
  BY BackupAssumption
<1>3. CASE Spend("requests", MaxRequests)
  BY <1>1, <1>2, <1>3 DEF Spend
<1>4. CASE Spend("edits", MaxEdits)
  BY <1>1, <1>2, <1>4 DEF Spend
<1>5. CASE Spend("faults", MaxFaults)
  BY <1>1, <1>2, <1>5 DEF Spend
<1>6. CASE UNCHANGED spent
  BY <1>1, <1>6
<1> QED
  BY <1>3, <1>4, <1>5, <1>6

\* The threads after a step that opens a .part.
LEMMA OpenKeeps ==
    ASSUME IInv, NEW t \in Tasks, ~Packing(t), boot.at = "up", NEW at \in {"create", "save"},
           NEW cs \in SUBSET Components, NEW prefix \in {"epix-backup", "pre-restore"},
           Open(t, at, cs, prefix),
           at = "create" => task[t].at = "idle",
           at = "save" => task[t].at = "stage" /\ cs = task[t].comps,
           Spend("requests", MaxRequests) \/ UNCHANGED spent,
           UNCHANGED <<data, archive, pending, gone, discarded, clock, boot>>
    PROVE  IInv'
<1>0. PICK n \in Names : Opened(t, at, cs, n)
  BY OpenFacts DEF IInv
<1>1. TypeOK'
  <2>1. TypeOK
    BY DEF IInv
  <2>2. spent' \in [requests : 0 .. MaxRequests, edits : 0 .. MaxEdits,
                    faults : 0 .. MaxFaults]
    BY <2>1, SpentTyped
  <2>3. \A m \in DOMAIN part' : m \in Names /\ IsArchive(part'[m])
    BY <1>0, <2>1 DEF Opened, TypeOK
  <2> QED
    BY <1>0, <2>1, <2>2, <2>3 DEF Opened, TypeOK
<1>2. /\ task'[t].at = at /\ task'[t].src = task[t].src /\ task'[t].comps = cs
      /\ task'[t].stamp = clock /\ task'[t].alone = task[t].alone
      /\ \A u \in Tasks : u # t => task'[u] = task[u]
  BY <1>0 DEF Opened
<1>3. at = "create" => task[t].src = Empty /\ ~task[t].alone
  BY IdleFacts DEF IInv, TasksProper, Bare
<1>4. TasksProper'
  <2>1. Bare(task'[t])
    BY <1>2, <1>3 DEF Bare
  <2>2. clock \in Nat
    BY DEF IInv, TypeOK
  <2>3. Scoped(task[t])
    BY DEF IInv, TasksProper
  <2>4. Scoped(task'[t])
    BY <1>2, <1>3, <2>2, <2>3, EmptyDisk DEF Scoped
  <2> QED
    BY <1>2, <2>1, <2>4, ProperTurn
<1>5. Secured'
  BY NetOpen
<1>6. Staging(t)' => Staging(t)
  BY <1>2 DEF Staging
<1>7. \A u \in Tasks : Staging(u)' => Staging(u)
  BY <1>2, <1>6 DEF Staging
<1>8. \A u \in Tasks : task'[u].alone = task[u].alone /\ task'[u].src = task[u].src
  BY <1>2
<1>9. StagesAlone'
  <2>1. task[t].alone => Staging(t)'
    BY <1>2, <1>3 DEF Staging
  <2>2. \A u \in Tasks : task[u].alone => Staging(u)'
    BY <1>2, <2>1 DEF IInv, StagesAlone, Staging
  <2> QED
    BY <1>7, <1>8, <2>2 DEF IInv, StagesAlone
<1>10. PlansAlone' /\ PlanProper'
  BY <1>7 DEF IInv, PlansAlone, PlanProper
<1> QED
  BY <1>1, <1>4, <1>5, <1>9, <1>10, UpKeeps DEF IInv

LEMMA StartCreateKeeps ==
    ASSUME IInv, NEW t \in Tasks, NEW cs \in SUBSET Components, StartCreate(t, cs)
    PROVE  IInv'
<1>1. PICK at \in {"create", "save"} : at = "create"
  OBVIOUS
<1>2. PICK p \in {"epix-backup", "pre-restore"} : p = "epix-backup"
  OBVIOUS
<1>3. /\ Open(t, at, cs, p) /\ task[t].at = "idle" /\ boot.at = "up" /\ ~Packing(t)
      /\ Spend("requests", MaxRequests)
      /\ UNCHANGED <<data, archive, pending, gone, discarded, clock, boot>>
  BY <1>1, <1>2 DEF StartCreate, Request, Packing
<1>4. at # "save"
  BY <1>1
<1> QED
  BY <1>3, <1>4, OpenKeeps

\* One file more in the archive.
LEMMA PackKeeps ==
    ASSUME IInv, NEW t \in Tasks, Pack(t)
    PROVE  IInv'
<1> DEFINE q == First(task[t].left)
           m == task[t].name
<1>1. /\ Packing(t) /\ task[t].at # "idle" /\ task[t].left # {} /\ q \in DOMAIN data
      /\ part' = IF m \in DOMAIN part
                 THEN [part EXCEPT ![m].files = Put(@, q, data[q])] ELSE part
      /\ task' = [task EXCEPT ![t].left = @ \ {q}]
      /\ UNCHANGED <<data, archive, pending, boot, clock, spent, gone, discarded, spoilt>>
  BY DEF Pack, Packing, history
<1> HIDE DEF q, m
<1>2. TypeOK /\ IsTask(task[t]) /\ boot.at = "up"
  BY <1>1, Serving DEF IInv, TypeOK
<1>3. PICK r : r = [task[t] EXCEPT !.left = @ \ {q}]
  OBVIOUS
<1>4. /\ IsTask(r) /\ r.left = task[t].left \ {q}
      /\ r.at = task[t].at /\ r.comps = task[t].comps /\ r.src = task[t].src
      /\ r.name = task[t].name /\ r.stamp = task[t].stamp /\ r.alone = task[t].alone
  BY <1>2, <1>3 DEF IsTask
<1>5. task' = [task EXCEPT ![t] = r]
  BY <1>1, <1>3 DEF TypeOK
<1>6. /\ task' = [u \in Tasks |-> task'[u]] /\ \A u \in Tasks : IsTask(task'[u])
      /\ task'[t] = r /\ \A u \in Tasks : u # t => task'[u] = task[u]
  BY <1>2, <1>4, <1>5, Turn
<1>7. data[q] \in Files \X Nat /\ q \in Files
  BY <1>1, <1>2, DiskFacts DEF TypeOK
<1>8. /\ DOMAIN part' = DOMAIN part
      /\ \A k \in DOMAIN part : k # m => part'[k] = part[k]
      /\ m \in DOMAIN part =>
            /\ IsArchive(part'[m]) /\ part'[m].whole = part[m].whole
            /\ part'[m].files = Put(part[m].files, q, data[q])
  <2>1. CASE m \in DOMAIN part
    <3>1. IsArchive(part[m]) /\ IsDisk(part[m].files)
      BY <1>2, <2>1 DEF TypeOK, IsArchive
    <3>2. IsDisk(Put(part[m].files, q, data[q]))
      BY <1>7, <3>1, DiskPut
    <3>3. PICK fs : fs = Put(part[m].files, q, data[q])
      OBVIOUS
    <3>4. PICK a : a = [part[m] EXCEPT !.files = fs]
      OBVIOUS
    <3>5. IsArchive(a) /\ a.files = fs /\ a.whole = part[m].whole
      BY <3>1, <3>2, <3>3, <3>4 DEF IsArchive
    <3>6. part' = [part EXCEPT ![m] = a]
      BY <1>1, <2>1, <3>3, <3>4
    <3> QED
      BY <2>1, <3>3, <3>5, <3>6
  <2> QED
    BY <1>1, <2>1
<1>9. TypeOK'
  <2>1. \A k \in DOMAIN part' : k \in Names /\ IsArchive(part'[k])
    BY <1>2, <1>8 DEF TypeOK
  <2> QED
    BY <1>1, <1>2, <1>6, <2>1 DEF TypeOK
<1>10. TasksProper'
  <2>1. Bare(task'[t]) /\ Scoped(task'[t])
    BY <1>1, <1>4, <1>6 DEF IInv, TasksProper, Bare, Scoped
  <2> QED
    BY <1>1, <1>6, <2>1, ProperTurn
<1>11. Secured'
  <2> SUFFICES ASSUME ~spoilt
               PROVE  Net'
    BY <1>1 DEF Secured
  <2>1. Net /\ \A u \in Tasks : PartOwn(u) /\ SavePays(u) /\ AllKept(task[u].src)
    BY DEF IInv, Secured, Net
  <2>2. \A c : Kept(c)' <=> Kept(c)
    BY <1>1, KeptSame
  <2>3. m \in DOMAIN part /\ part[m].whole /\ m \notin DOMAIN archive /\ m[1] # "uploaded"
        /\ \A u \in Tasks : u # t /\ Packing(u) => task[u].name # m
    BY <1>1, <2>1 DEF PartOwn, m
  <2>4. \A u \in Tasks : u # t /\ Packing(u) =>
               /\ task[u].name \in DOMAIN part'
               /\ part'[task[u].name] = part[task[u].name]
               /\ task[u].name \notin DOMAIN archive'
               /\ Packing(t)' => task'[t].name # task[u].name
    BY <1>1, <1>4, <1>6, <1>8, <2>1, <2>3 DEF PartOwn, m
  <2>5. \A u \in Tasks : u # t => PartOwn(u)' /\ SavePays(u)' /\ AllKept(task[u].src)'
    BY <1>1, <1>6, <2>1, <2>2, <2>4, NetTurn
  <2>6. PartOwn(t)'
    <3>1. \A u \in Tasks \ {t} : Packing(u)' => task'[u].name # m
      BY <1>6, <2>3 DEF Packing
    <3>2. task'[t].name = m
      BY <1>4, <1>6 DEF m
    <3> QED
      BY <1>1, <1>8, <2>3, <3>1, <3>2 DEF PartOwn
  <2>7. SavePays(t)'
    <3>1. \A f : Owes(t, f)' = Owes(t, f)
      BY <1>1, <1>4, <1>6 DEF Owes
    <3>2. ASSUME NEW f \in Files, task[t].at = "save", Owes(t, f)
          PROVE  f \in task'[t].left \/ Packed(t, f)'
      <4>1. f \in task[t].left \/ Packed(t, f)
        BY <2>1, <3>2 DEF SavePays
      <4>2. task'[t].name = m /\ part'[m].files = Put(part[m].files, q, data[q])
        BY <1>4, <1>6, <1>8, <2>3 DEF m
      <4>3. CASE f = q
        <5>1. f \in DOMAIN part'[m].files /\ part'[m].files[f] = data[f]
          BY <4>2, <4>3 DEF Put
        <5> QED
          BY <1>1, <4>2, <5>1 DEF Packed
      <4>4. CASE f # q /\ Packed(t, f)
        <5>1. f \in DOMAIN part[m].files /\ part[m].files[f] = data[f]
          BY <4>4 DEF Packed, m
        <5>2. f \in DOMAIN part'[m].files /\ part'[m].files[f] = data[f]
          BY <4>2, <4>4, <5>1 DEF Put
        <5> QED
          BY <1>1, <4>2, <5>2 DEF Packed
      <4> QED
        BY <1>4, <1>6, <4>1, <4>3, <4>4
    <3>3. task[t].at # "commit"
      BY <1>1 DEF Packing
    <3> QED
      BY <1>4, <1>6, <3>1, <3>2, <3>3 DEF SavePays
  <2>8. AllKept(task[t].src)'
    BY <1>4, <1>6, <2>1, <2>2 DEF AllKept
  <2>9. AllKept(pending.files)' /\ PlanPaid' /\ \A c \in gone' : Kept(c)'
    BY <1>1, <2>1, <2>2 DEF Net, AllKept, PlanPaid, InScope
  <2> QED
    BY <2>5, <2>6, <2>7, <2>8, <2>9 DEF Net
<1>12. \A u \in Tasks : /\ Staging(u)' <=> Staging(u)
                        /\ task'[u].alone = task[u].alone /\ task'[u].src = task[u].src
  BY <1>4, <1>6 DEF Staging
<1>13. StagesAlone' /\ PlansAlone' /\ PlanProper'
  BY <1>1, <1>12 DEF IInv, StagesAlone, PlansAlone, PlanProper
<1> QED
  BY <1>1, <1>2, <1>9, <1>10, <1>11, <1>13, UpKeeps DEF IInv

\* The staging directory p is what is left of pending: some of its files, and
\* its plan or none.
Lesser(p) ==
    /\ p = [there |-> p.there, files |-> p.files, plan |-> p.plan]
    /\ p.there \in BOOLEAN /\ IsDisk(p.files) /\ IsPlan(p.plan)
    /\ Agrees(p.files, pending.files)
    /\ \/ p.plan = NoPlan
       \/ /\ p.plan.files = pending.plan.files /\ p.plan.dirs = pending.plan.dirs
          /\ p.plan.stamp = pending.plan.stamp /\ p.plan.want = pending.plan.want
          /\ p.plan.alone => pending.plan.alone

\* Whatever a removal of the directory does leaves less of it.
LEMMA LesserNone == Lesser(NoPending)
BY NoPendingFacts, NoPlanFacts, EmptyDisk DEF Lesser, Agrees

LEMMA LesserScraps ==
    ASSUME TypeOK, NEW p \in Scraps
    PROVE  Lesser(p)
<1>1. /\ IsDisk(pending.files) /\ IsPlan(pending.plan) /\ pending.there \in BOOLEAN
  BY DEF TypeOK
<1>2. PICK S \in SUBSET DOMAIN pending.files, q \in {pending.plan, NoPlan} :
        p = [there |-> pending.there, files |-> Restrict(pending.files, S), plan |-> q]
  BY DEF Scraps
<1>3. PICK fs : fs = Restrict(pending.files, S)
  OBVIOUS
<1>4. IsDisk(fs) /\ DOMAIN fs = S /\ \A f \in S : fs[f] = pending.files[f]
  BY <1>1, <1>3, DiskRestrict
<1>5. p = [there |-> pending.there, files |-> fs, plan |-> q]
  BY <1>2, <1>3
<1>6. IsPlan(q)
  BY <1>1, NoPlanFacts
<1>7. p.there = pending.there /\ p.files = fs /\ p.plan = q
  BY <1>5
<1>8. Agrees(fs, pending.files)
  BY <1>4 DEF Agrees
<1> QED
  BY <1>1, <1>4, <1>5, <1>6, <1>7, <1>8 DEF Lesser

LEMMA LesserDiscard ==
    ASSUME TypeOK, Discard
    PROVE  /\ Lesser(pending')
           /\ Spend("faults", MaxFaults) \/ UNCHANGED spent
BY LesserNone, LesserScraps DEF Discard, Fault

LEMMA AloneSame ==
    ASSUME NEW f, NEW d, NEW k, NEW w, NEW b, NEW p,
           p = [files |-> f, dirs |-> d, stamp |-> k, want |-> w, alone |-> b]
    PROVE  [p EXCEPT !.alone = b] = p
OBVIOUS

LEMMA AloneOff == [NoPlan EXCEPT !.alone = FALSE] = NoPlan
<1>1. PICK p : p = NoPlan
  OBVIOUS
<1>2. PICK b : b = FALSE
  OBVIOUS
<1>3. p = [files |-> {}, dirs |-> {}, stamp |-> 0, want |-> Empty, alone |-> b]
  BY <1>1, <1>2 DEF NoPlan
<1>4. [p EXCEPT !.alone = b] = p
  BY ONLY <1>3, AloneSame, Zenon
<1> QED
  BY ONLY <1>1, <1>2, <1>4, Zenon

\* Less of a directory owes no more than all of it.
LEMMA LesserProper ==
    ASSUME IInv, Lesser(pending'), clock' \in Nat, clock <= clock'
    PROVE  PlanProper'
<1>1. pending.plan.stamp \in Nat /\ clock \in Nat /\ pending.plan.stamp <= clock
  BY DEF IInv, PlanProper, TypeOK, IsPlan
<1>2. pending.plan.stamp <= clock' /\ 0 <= clock'
  BY <1>1
<1>3. CASE pending'.plan = NoPlan
  BY <1>2, <1>3, NoPlanFacts DEF PlanProper
<1>4. CASE pending'.plan # NoPlan
  <2>1. /\ pending'.plan.files = pending.plan.files /\ pending'.plan.dirs = pending.plan.dirs
        /\ pending'.plan.stamp = pending.plan.stamp
    BY <1>4 DEF Lesser
  <2> QED
    BY <1>2, <2>1 DEF IInv, PlanProper
<1> QED
  BY <1>3, <1>4

LEMMA LesserKept ==
    ASSUME Net, Lesser(pending'), \A c : Kept(c)' <=> Kept(c)
    PROVE  AllKept(pending.files)'
BY DEF Net, Lesser, Agrees, AllKept

LEMMA LesserPaid ==
    ASSUME Net, Lesser(pending'), data' = data, \A c : Kept(c)' <=> Kept(c)
    PROVE  PlanPaid'
<1>1. CASE pending'.plan = NoPlan
  BY <1>1, NoPlanFacts DEF PlanPaid, InScope
<1>2. CASE pending'.plan # NoPlan
  <2>1. /\ pending'.plan.files = pending.plan.files
        /\ pending'.plan.stamp = pending.plan.stamp
    BY <1>2 DEF Lesser
  <2> QED
    BY <2>1 DEF Net, PlanPaid, InScope
<1> QED
  BY <1>1, <1>2

LEMMA LesserAlone ==
    ASSUME IInv, Lesser(pending'), \A t \in Tasks : Staging(t)' => Staging(t)
    PROVE  PlansAlone'
<1> SUFFICES ASSUME pending'.plan.alone
             PROVE  /\ \A t \in Tasks : ~Staging(t)'
                    /\ pending'.plan.files = DOMAIN pending'.plan.want
                    /\ Agrees(pending'.files, pending'.plan.want)
  BY DEF PlansAlone, Agrees
<1>1. /\ pending'.plan.files = pending.plan.files
      /\ pending'.plan.want = pending.plan.want /\ pending.plan.alone
      /\ Agrees(pending'.files, pending.files)
  BY NoPlanFacts DEF Lesser
<1>2. /\ \A t \in Tasks : ~Staging(t)
      /\ pending.plan.files = DOMAIN pending.plan.want
      /\ Agrees(pending.files, pending.plan.want)
  BY <1>1 DEF IInv, PlansAlone
<1> QED
  BY <1>1, <1>2 DEF Agrees

\* A request that fails: its thread is free, and a restore's staging is gone or
\* less.
LEMMA FailKeeps ==
    ASSUME IInv, NEW t \in Tasks, task[t].at # "idle", Fail(t, TRUE),
           DOMAIN part' \subseteq DOMAIN part,
           \A n \in DOMAIN part' : part'[n] = part[n],
           \A n \in DOMAIN part : n \notin DOMAIN part' => Packing(t) /\ n = task[t].name,
           Spend("faults", MaxFaults) \/ UNCHANGED spent,
           UNCHANGED <<data, archive, boot, clock, gone, discarded, spoilt>>
    PROVE  IInv'
<1>1. TypeOK /\ boot.at = "up"
  BY Serving DEF IInv
<1>2. /\ task' = [u \in Tasks |-> task'[u]] /\ \A u \in Tasks : IsTask(task'[u])
      /\ task'[t] = Idle /\ \A u \in Tasks : u # t => task'[u] = task[u]
  BY <1>1, IdleFacts, Turn DEF Fail
<1>3. pending' = pending \/ (Lesser(pending') /\ task[t].at # "create")
  BY <1>1, LesserNone, LesserScraps DEF Fail
<1>4. TypeOK'
  <2>1. spent' \in [requests : 0 .. MaxRequests, edits : 0 .. MaxEdits,
                    faults : 0 .. MaxFaults]
    BY <1>1, SpentTyped
  <2>2. \A k \in DOMAIN part' : k \in Names /\ IsArchive(part'[k])
    BY <1>1 DEF TypeOK
  <2>3. /\ pending' = [there |-> pending'.there, files |-> pending'.files,
                       plan |-> pending'.plan]
        /\ pending'.there \in BOOLEAN /\ IsDisk(pending'.files) /\ IsPlan(pending'.plan)
    BY <1>1, <1>3 DEF TypeOK, Lesser
  <2> QED
    BY <1>1, <1>2, <2>1, <2>2, <2>3 DEF TypeOK
<1>5. /\ Bare(task'[t]) /\ Scoped(task'[t])
      /\ PartOwn(t)' /\ SavePays(t)' /\ AllKept(task[t].src)'
      /\ ~task'[t].alone /\ ~Staging(t)'
  BY <1>1, <1>2, IdleRecord
<1>6. TasksProper'
  BY <1>2, <1>5, ProperTurn
<1>7. clock \in Nat
  BY <1>1 DEF TypeOK
<1>8. PlanProper'
  <2>1. CASE pending' = pending
    BY <2>1 DEF IInv, PlanProper
  <2>2. CASE Lesser(pending')
    BY <1>7, <2>2, LesserProper
  <2> QED
    BY <1>3, <2>1, <2>2
<1>9. Secured'
  <2> SUFFICES ASSUME ~spoilt
               PROVE  Net'
    BY DEF Secured
  <2>1. Net /\ \A u \in Tasks : PartOwn(u) /\ SavePays(u) /\ AllKept(task[u].src)
    BY DEF IInv, Secured, Net
  <2>2. \A c : Kept(c)' <=> Kept(c)
    BY KeptSame
  <2>3. ~Packing(t)'
    BY <1>2, IdleFacts DEF Packing
  <2>4. \A u \in Tasks : u # t /\ Packing(u) =>
               /\ task[u].name \in DOMAIN part'
               /\ part'[task[u].name] = part[task[u].name]
               /\ task[u].name \notin DOMAIN archive'
    BY <2>1 DEF PartOwn
  <2>5. \A u \in Tasks : u # t => PartOwn(u)' /\ SavePays(u)' /\ AllKept(task[u].src)'
    BY <1>2, <2>1, <2>2, <2>3, <2>4, NetTurn
  <2>6. AllKept(pending.files)' /\ PlanPaid'
    <3>1. CASE pending' = pending
      BY <2>1, <2>2, <3>1 DEF Net, AllKept, PlanPaid, InScope
    <3>2. CASE Lesser(pending')
      BY <2>1, <2>2, <3>2, LesserKept, LesserPaid
    <3> QED
      BY <1>3, <3>1, <3>2
  <2>7. \A c \in gone' : Kept(c)'
    BY <2>1, <2>2 DEF Net
  <2> QED
    BY <1>5, <2>5, <2>6, <2>7 DEF Net
<1>10. \A u \in Tasks : /\ Staging(u)' => Staging(u)
                        /\ task'[u].alone => task[u].alone /\ task'[u] = task[u] /\ u # t
  BY <1>2, <1>5 DEF Staging
<1>11. StagesAlone'
  <2> SUFFICES ASSUME NEW u \in Tasks, task'[u].alone
               PROVE  /\ Staging(u)'
                      /\ \A w \in Tasks \ {u} : ~Staging(w)'
                      /\ Agrees(pending.files, task[u].src)'
    BY DEF StagesAlone
  <2>1. /\ Staging(u) /\ u # t /\ task'[u] = task[u]
        /\ \A w \in Tasks \ {u} : ~Staging(w)
        /\ Agrees(pending.files, task[u].src)
    BY <1>10 DEF IInv, StagesAlone
  <2>2. task[t].at \notin {"stage", "save", "commit"}
    BY <2>1 DEF Staging
  <2>3. pending' = pending
    <3>1. task[t].at \in {"idle", "create", "stage", "save", "commit"}
      BY <1>1 DEF TypeOK, IsTask
    <3> QED
      BY <1>3, <2>2, <3>1
  <2> QED
    BY <1>10, <2>1, <2>3 DEF Staging, Agrees
<1>12. PlansAlone'
  <2>1. CASE pending' = pending
    BY <1>10, <2>1 DEF IInv, PlansAlone, Agrees
  <2>2. CASE Lesser(pending')
    BY <1>10, <2>2, LesserAlone
  <2> QED
    BY <1>3, <2>1, <2>2
<1> QED
  BY <1>1, <1>4, <1>6, <1>8, <1>9, <1>11, <1>12, UpKeeps DEF IInv

LEMMA PackFailKeeps ==
    ASSUME IInv, NEW t \in Tasks, PackFail(t)
    PROVE  IInv'
<1>1. /\ Packing(t) /\ task[t].at # "idle" /\ Fail(t, TRUE)
      /\ Spend("faults", MaxFaults) \/ UNCHANGED spent
      /\ part' = Without(part, {task[t].name})
      /\ UNCHANGED <<data, archive, boot, clock, gone, discarded, spoilt>>
  BY DEF PackFail, Packing, Fail, Fault, history
<1>2. /\ DOMAIN part' = DOMAIN part \ {task[t].name}
      /\ \A n \in DOMAIN part' : part'[n] = part[n]
  BY <1>1 DEF Without, Restrict
<1> QED
  BY <1>1, <1>2, FailKeeps

LEMMA StageFailKeeps ==
    ASSUME IInv, NEW t \in Tasks, StageFail(t)
    PROVE  IInv'
<1>1. /\ task[t].at # "idle" /\ Fail(t, TRUE)
      /\ Spend("faults", MaxFaults) \/ UNCHANGED spent
      /\ UNCHANGED <<data, archive, part, boot, clock, gone, discarded, spoilt>>
  BY DEF StageFail, Fail, Fault, history
<1> QED
  BY <1>1, FailKeeps

\* The archive is there, with everything its backup owed.
LEMMA SealKeeps ==
    ASSUME IInv, NEW t \in Tasks, Seal(t)
    PROVE  IInv'
<1> DEFINE m == task[t].name
<1>1. /\ Packing(t) /\ task[t].at # "idle" /\ task[t].left = {}
      /\ UNCHANGED <<data, boot, clock, gone, discarded, spoilt>>
  BY DEF Seal, Packing, history
<1>2. CASE m \notin DOMAIN part
  <2>1. /\ Fail(t, TRUE) /\ UNCHANGED <<archive, part>>
        /\ Spend("faults", MaxFaults) \/ UNCHANGED spent
    BY <1>2 DEF Seal, Fail, Fault
  <2> QED
    BY <1>1, <2>1, FailKeeps
<1>3. CASE m \in DOMAIN part
  <2>1. /\ archive' = Put(archive, m, part[m])
        /\ part' = Without(part, {m})
        /\ task' = [task EXCEPT ![t] =
               IF @.at = "create" THEN Idle
               ELSE [@ EXCEPT !.at = "commit", !.name = <<>>]]
        /\ pending' = pending /\ spent' = spent
    BY <1>3 DEF Seal
  <2> HIDE DEF m
  <2>2. TypeOK /\ IsTask(task[t]) /\ boot.at = "up"
    BY <1>1, Serving DEF IInv, TypeOK
  <2>3. PICK s : s = [task[t] EXCEPT !.at = "commit", !.name = <<>>]
    OBVIOUS
  <2>4. /\ IsTask(s) /\ s.at = "commit" /\ s.comps = task[t].comps /\ s.src = task[t].src
        /\ s.stamp = task[t].stamp /\ s.alone = task[t].alone
    BY <2>2, <2>3 DEF IsTask
  <2>5. PICK r : r = IF task[t].at = "create" THEN Idle ELSE s
    OBVIOUS
  <2>6. IsTask(r)
    BY <2>4, <2>5, IdleFacts
  <2>7. task' = [task EXCEPT ![t] = r]
    BY <2>1, <2>3, <2>5 DEF TypeOK
  <2>8. /\ task' = [u \in Tasks |-> task'[u]] /\ \A u \in Tasks : IsTask(task'[u])
        /\ task'[t] = r /\ \A u \in Tasks : u # t => task'[u] = task[u]
    BY <2>2, <2>6, <2>7, Turn
  <2>9. /\ DOMAIN archive' = DOMAIN archive \cup {m} /\ archive'[m] = part[m]
        /\ \A n \in DOMAIN archive : n # m => archive'[n] = archive[n]
        /\ DOMAIN part' = DOMAIN part \ {m}
        /\ \A n \in DOMAIN part' : part'[n] = part[n]
    BY <2>1 DEF Put, Without, Restrict
  <2>10. TypeOK'
    <3>1. \A n \in DOMAIN archive' : n \in Names /\ IsArchive(archive'[n])
      BY <1>3, <2>2, <2>9 DEF TypeOK
    <3>2. \A n \in DOMAIN part' : n \in Names /\ IsArchive(part'[n])
      BY <2>2, <2>9 DEF TypeOK
    <3> QED
      BY <1>1, <2>1, <2>2, <2>8, <3>1, <3>2 DEF TypeOK
  <2>11. TasksProper'
    <3>1. CASE task[t].at = "create"
      <4>1. Bare(task'[t]) /\ Scoped(task'[t])
        BY <1>1, <2>2, <2>5, <2>8, <3>1, IdleRecord
      <4> QED
        BY <1>1, <2>8, <4>1, ProperTurn
    <3>2. CASE task[t].at # "create"
      <4>1. Bare(task'[t]) /\ Scoped(task'[t])
        BY <1>1, <2>4, <2>5, <2>8, <3>2 DEF IInv, TasksProper, Bare, Scoped
      <4> QED
        BY <1>1, <2>8, <4>1, ProperTurn
    <3> QED
      BY <3>1, <3>2
  <2>12. Secured'
    <3> SUFFICES ASSUME ~spoilt
                 PROVE  Net'
      BY <1>1 DEF Secured
    <3>1. Net /\ \A u \in Tasks : PartOwn(u) /\ SavePays(u) /\ AllKept(task[u].src)
      BY DEF IInv, Secured, Net
    <3>2. part[m].whole /\ m \notin DOMAIN archive /\ m[1] # "uploaded"
          /\ \A u \in Tasks : u # t /\ Packing(u) => task[u].name # m
      BY <1>1, <3>1 DEF PartOwn, m
    <3>3. \A c : Kept(c) => Kept(c)'
      BY <1>1, <2>9, <3>2, KeptGrows
    <3>4. ~Packing(t)'
      BY <2>4, <2>5, <2>8, IdleFacts DEF Packing
    <3>5. \A u \in Tasks : u # t /\ Packing(u) =>
               /\ task[u].name \in DOMAIN part'
               /\ part'[task[u].name] = part[task[u].name]
               /\ task[u].name \notin DOMAIN archive'
      BY <2>9, <3>1, <3>2 DEF PartOwn
    <3>6. \A u \in Tasks : u # t => PartOwn(u)' /\ SavePays(u)' /\ AllKept(task[u].src)'
      BY <1>1, <2>8, <3>1, <3>3, <3>4, <3>5, NetTurn
    <3>7. PartOwn(t)'
      BY <3>4 DEF PartOwn
    <3>8. AllKept(task[t].src)' /\ SavePays(t)'
      <4>1. CASE task[t].at = "create"
        BY <1>1, <2>2, <2>5, <2>8, <4>1, IdleRecord
      <4>2. CASE task[t].at # "create"
        <5>1. task[t].at = "save" /\ task'[t].at = "commit" /\ task'[t].src = task[t].src
          BY <1>1, <2>4, <2>5, <2>8, <4>2 DEF Packing
        <5>2. AllKept(task[t].src)'
          BY <3>1, <3>3, <5>1 DEF AllKept
        <5>3. ASSUME NEW f \in Files, Owes(t, f)'
              PROVE  Kept(data[f])'
          <6>1. Owes(t, f)
            BY <1>1, <2>4, <2>5, <2>8, <4>2, <5>3 DEF Owes
          <6>2. Packed(t, f)
            BY <1>1, <3>1, <5>1, <6>1 DEF SavePays
          <6>3. f \in DOMAIN archive'[m].files /\ archive'[m].files[f] = data[f]
            BY <2>9, <6>2 DEF Packed, m
          <6>4. data[f] \in Range(archive'[m].files)
            BY <6>3 DEF Range
          <6> QED
            BY <1>1, <2>9, <3>2, <6>4 DEF Kept
        <5> QED
          BY <5>1, <5>2, <5>3 DEF SavePays
      <4> QED
        BY <4>1, <4>2
    <3>9. AllKept(pending.files)' /\ PlanPaid' /\ \A c \in gone' : Kept(c)'
      BY <1>1, <2>1, <3>1, <3>3 DEF Net, AllKept, PlanPaid, InScope
    <3> QED
      BY <3>6, <3>7, <3>8, <3>9 DEF Net
  <2>13. \A u \in Tasks : /\ Staging(u)' => Staging(u)
                          /\ task'[u].alone => /\ task[u].alone /\ Staging(u)'
                                               /\ task'[u].src = task[u].src
    <3>1. CASE task[t].at = "create"
      BY <2>5, <2>8, <3>1, IdleFacts DEF IInv, StagesAlone, Staging
    <3>2. CASE task[t].at # "create"
      <4>1. task[t].at = "save"
        BY <1>1, <3>2 DEF Packing
      <4> QED
        BY <2>4, <2>5, <2>8, <3>2, <4>1 DEF IInv, StagesAlone, Staging
    <3> QED
      BY <3>1, <3>2
  <2>14. StagesAlone' /\ PlansAlone' /\ PlanProper'
    BY <1>1, <2>1, <2>13 DEF IInv, StagesAlone, PlansAlone, PlanProper, Agrees
  <2> QED
    BY <1>1, <2>2, <2>10, <2>11, <2>12, <2>14, UpKeeps DEF IInv
<1> QED
  BY <1>2, <1>3

-----------------------------------------------------------------------------
(***************************************************************************)
(* Restores.                                                               *)
(***************************************************************************)

\* Disturb takes nothing from a thread but that it is alone.
LEMMA DisturbFacts ==
    ASSUME TypeOK, NEW others \in SUBSET Tasks
    PROVE  LET D == Disturb(others)
           IN  /\ D = [u \in Tasks |-> D[u]]
               /\ \A u \in Tasks :
                     /\ IsTask(D[u])
                     /\ D[u].at = task[u].at /\ D[u].comps = task[u].comps
                     /\ D[u].left = task[u].left /\ D[u].src = task[u].src
                     /\ D[u].name = task[u].name /\ D[u].stamp = task[u].stamp
                     /\ u \in others => ~D[u].alone
                     /\ u \notin others => D[u] = task[u]
<1>1. PICK D : D = Disturb(others)
  OBVIOUS
<1>2. DOMAIN D = Tasks /\ D = [u \in Tasks |-> D[u]]
  BY <1>1 DEF Disturb
<1>3. ASSUME NEW u \in Tasks
      PROVE  /\ IsTask(D[u])
             /\ D[u].at = task[u].at /\ D[u].comps = task[u].comps
             /\ D[u].left = task[u].left /\ D[u].src = task[u].src
             /\ D[u].name = task[u].name /\ D[u].stamp = task[u].stamp
             /\ u \in others => ~D[u].alone
             /\ u \notin others => D[u] = task[u]
  <2>1. IsTask(task[u])
    BY DEF TypeOK
  <2>2. CASE u \notin others
    BY <1>1, <2>1, <2>2 DEF Disturb
  <2>3. CASE u \in others
    <3>1. D[u] = [task[u] EXCEPT !.alone = FALSE]
      BY <1>1, <2>3 DEF Disturb
    <3> QED
      BY <2>1, <2>3, <3>1 DEF IsTask
  <2> QED
    BY <2>2, <2>3
<1> QED
  BY <1>1, <1>2, <1>3

\* A disturbed thread between requests was not alone before.
LEMMA BareUnmoved ==
    ASSUME IInv, NEW u \in Tasks, Unmoved(u), IsTask(task'[u]), clock' = clock,
           task'[u] = task[u] \/ ~task'[u].alone
    PROVE  Bare(task'[u]) /\ Scoped(task'[u])
<1>1. Bare(task[u]) /\ Scoped(task[u]) /\ IsTask(task[u])
  BY DEF IInv, TasksProper, TypeOK
<1>2. Scoped(task'[u])
  BY <1>1 DEF Scoped, Unmoved
<1>3. task[u].at = "idle" /\ ~task'[u].alone => task'[u] = Idle
  <2> SUFFICES ASSUME task[u].at = "idle", ~task'[u].alone
               PROVE  task'[u] = Idle
    OBVIOUS
  <2>1. task[u] = Idle
    BY <1>1 DEF Bare
  <2>2. /\ task'[u].at = Idle.at /\ task'[u].comps = Idle.comps
        /\ task'[u].left = Idle.left /\ task'[u].src = Idle.src
        /\ task'[u].name = Idle.name /\ task'[u].stamp = Idle.stamp
    BY <2>1 DEF Unmoved
  <2>3. task'[u].alone = FALSE
    BY TaskFields
  <2>4. PICK r : r = task'[u]
    OBVIOUS
  <2>5. r = [at |-> r.at, comps |-> r.comps, left |-> r.left, src |-> r.src,
             name |-> r.name, stamp |-> r.stamp, alone |-> r.alone]
    BY <2>4, TaskFields
  <2> QED
    BY <2>2, <2>3, <2>4, <2>5 DEF Idle
<1>4. Bare(task'[u])
  BY <1>1, <1>3 DEF Bare, Unmoved
<1> QED
  BY <1>2, <1>4

\* A new restore throws away what was staged before it, or some of it.
LEMMA StartRestoreKeeps ==
    ASSUME IInv, NEW t \in Tasks, NEW cs \in SUBSET Components,
           NEW n \in DOMAIN archive, StartRestore(t, n, cs)
    PROVE  IInv'
<1> DEFINE a == archive[n]
           sel == cs \cap a.comps
           S == {f \in DOMAIN a.files : Component[f] \in sel}
           src == Restrict(a.files, S)
           solo == /\ pending'.files = Empty
                   /\ \A u \in Tasks \ {t} : ~Staging(u)
<1>1. /\ boot.at = "up" /\ task[t].at = "idle"
      /\ a.whole
      /\ \/ /\ pending' = [NoPending EXCEPT !.there = TRUE]
            /\ spent' = [spent EXCEPT !.requests = @ + 1]
         \/ /\ spent.faults < MaxFaults
            /\ \E p \in Scraps : pending' = [p EXCEPT !.there = TRUE, !.plan.alone = FALSE]
            /\ spent' = [spent EXCEPT !.requests = @ + 1, !.faults = @ + 1]
      /\ spent.requests < MaxRequests
      /\ task' = [Disturb(Tasks \ {t}) EXCEPT ![t] =
             [Idle EXCEPT !.at = "stage", !.comps = sel, !.src = src,
                          !.left = DOMAIN src, !.alone = solo]]
      /\ UNCHANGED <<data, archive, part, boot, clock, gone, discarded, spoilt>>
  BY DEF StartRestore, history
<1>2. TypeOK /\ IsArchive(a) /\ IsDisk(a.files) /\ clock \in Nat
  BY DEF IInv, TypeOK, IsArchive
<1>3. sel \in SUBSET Components /\ S \subseteq DOMAIN a.files
  OBVIOUS
<1>4. IsDisk(src) /\ DOMAIN src = S /\ \A f \in S : src[f] = a.files[f]
  BY <1>2, <1>3, DiskRestrict
<1>5. DOMAIN src \in SUBSET Files /\ \A f \in DOMAIN src : Component[f] \in sel
  BY <1>4, DiskFacts
<1>6. solo \in BOOLEAN
  OBVIOUS
<1>7. \A f \in DOMAIN src : src[f] \in Range(a.files)
  BY <1>4 DEF Range
<1> HIDE DEF a, sel, S, src, solo
<1>8. PICK r : r = [Idle EXCEPT !.at = "stage", !.comps = sel, !.src = src,
                                !.left = DOMAIN src, !.alone = solo]
  OBVIOUS
<1>9. /\ IsTask(r) /\ r.at = "stage" /\ r.comps = sel /\ r.src = src
      /\ r.left = DOMAIN src /\ r.alone = solo /\ r.stamp = 0
  BY <1>3, <1>4, <1>5, <1>6, <1>8, IdleFacts DEF IsTask
<1>10. PICK D : D = Disturb(Tasks \ {t})
  OBVIOUS
<1>11. /\ D = [u \in Tasks |-> D[u]]
       /\ \A u \in Tasks :
             /\ IsTask(D[u])
             /\ D[u].at = task[u].at /\ D[u].comps = task[u].comps
             /\ D[u].left = task[u].left /\ D[u].src = task[u].src
             /\ D[u].name = task[u].name /\ D[u].stamp = task[u].stamp
             /\ u \in Tasks \ {t} => ~D[u].alone
  <2>1. PICK others \in SUBSET Tasks : others = Tasks \ {t}
    OBVIOUS
  <2> QED BY <1>2, <1>10, <2>1, DisturbFacts
<1>12. task' = [D EXCEPT ![t] = r]
  BY <1>1, <1>8, <1>10
<1>13. /\ task' = [u \in Tasks |-> task'[u]] /\ task'[t] = r
       /\ \A u \in Tasks : u # t => task'[u] = D[u]
  BY <1>11, <1>12
<1>14. \A u \in Tasks : u # t => /\ Unmoved(u) /\ IsTask(task'[u]) /\ ~task'[u].alone
  BY <1>11, <1>13 DEF Unmoved
<1>15. Lesser(pending') /\ ~pending'.plan.alone
  <2>1. CASE pending' = [NoPending EXCEPT !.there = TRUE]
    <3>1. /\ pending' = [there |-> TRUE, files |-> Empty, plan |-> NoPlan]
          /\ pending'.there = TRUE /\ pending'.files = Empty /\ pending'.plan = NoPlan
      BY <2>1, NoPendingFacts
    <3> QED
      BY <3>1, NoPlanFacts, EmptyDisk DEF Lesser, Agrees
  <2>2. ASSUME NEW p \in Scraps,
               pending' = [p EXCEPT !.there = TRUE, !.plan.alone = FALSE]
        PROVE  Lesser(pending') /\ ~pending'.plan.alone
    <3>1. Lesser(p)
      BY <1>2, LesserScraps
    <3>2. PICK q : q = [p.plan EXCEPT !.alone = FALSE]
      OBVIOUS
    <3>3. /\ IsPlan(q) /\ q.files = p.plan.files /\ q.dirs = p.plan.dirs
          /\ q.stamp = p.plan.stamp /\ q.want = p.plan.want /\ q.alone = FALSE
      BY <3>1, <3>2 DEF Lesser, IsPlan
    <3>4. p.plan = NoPlan => q = NoPlan
      BY <3>2, AloneOff
    <3>5. /\ pending' = [there |-> TRUE, files |-> p.files, plan |-> q]
          /\ pending'.there = TRUE /\ pending'.files = p.files /\ pending'.plan = q
      <4>1. PICK fs, pl, th : p = [there |-> th, files |-> fs, plan |-> pl]
        BY <3>1 DEF Lesser
      <4> QED
        BY <2>2, <3>2, <4>1
    <3> QED
      BY <3>1, <3>3, <3>4, <3>5 DEF Lesser
  <2> QED
    BY <1>1, <2>1, <2>2
<1>16. TypeOK'
  <2>1. spent' \in [requests : 0 .. MaxRequests, edits : 0 .. MaxEdits,
                    faults : 0 .. MaxFaults]
    <3>1. spent \in [requests : 0 .. MaxRequests, edits : 0 .. MaxEdits,
                     faults : 0 .. MaxFaults]
      BY <1>2 DEF TypeOK
    <3>2. MaxRequests \in Nat /\ MaxFaults \in Nat
      BY BackupAssumption
    <3>3. spent.requests < MaxRequests
      BY <1>1
    <3>4. spent.requests + 1 \in 0 .. MaxRequests
      BY <3>1, <3>2, <3>3
    <3>5. CASE spent' = [spent EXCEPT !.requests = @ + 1]
      BY <3>1, <3>4, <3>5
    <3>6. CASE /\ spent.faults < MaxFaults
               /\ spent' = [spent EXCEPT !.requests = @ + 1, !.faults = @ + 1]
      <4>1. spent.faults + 1 \in 0 .. MaxFaults
        BY <3>1, <3>2, <3>6
      <4> QED
        BY <3>1, <3>4, <3>6, <4>1
    <3> QED
      BY <1>1, <3>5, <3>6
  <2>2. /\ pending' = [there |-> pending'.there, files |-> pending'.files,
                       plan |-> pending'.plan]
        /\ pending'.there \in BOOLEAN /\ IsDisk(pending'.files) /\ IsPlan(pending'.plan)
    BY <1>15 DEF Lesser
  <2>3. \A u \in Tasks : IsTask(task'[u])
    BY <1>9, <1>13, <1>14
  <2> QED
    BY <1>1, <1>2, <1>13, <2>1, <2>2, <2>3 DEF TypeOK
<1>17. TasksProper'
  <2>1. Bare(task'[t]) /\ Scoped(task'[t])
    <3>1. Bare(task'[t])
      BY <1>9, <1>13 DEF Bare
    <3>2. task'[t].stamp <= clock
      BY <1>2, <1>9, <1>13
    <3>3. \A f \in DOMAIN task'[t].src : Component[f] \in task'[t].comps
      BY <1>5, <1>9, <1>13
    <3>4. task'[t].left \subseteq DOMAIN task'[t].src
      BY <1>9, <1>13
    <3> QED
      BY <3>1, <3>2, <3>3, <3>4 DEF Scoped
  <2>2. \A u \in Tasks : u # t => Bare(task'[u]) /\ Scoped(task'[u])
    BY <1>1, <1>14, BareUnmoved
  <2> QED
    BY <1>1, <2>1, <2>2 DEF TasksProper, Scoped
<1>18. PlanProper'
  <2>1. clock' = clock /\ clock \in Nat
    BY <1>1, <1>2
  <2>2. clock' \in Nat /\ clock <= clock'
    BY ONLY <2>1
  <2> QED
    BY <1>15, <2>2, LesserProper
<1>19. Secured'
  <2> SUFFICES ASSUME ~spoilt
               PROVE  Net'
    BY <1>1 DEF Secured
  <2>1. Net /\ \A u \in Tasks : PartOwn(u) /\ SavePays(u) /\ AllKept(task[u].src)
    BY DEF IInv, Secured, Net
  <2>2. \A c : Kept(c)' <=> Kept(c)
    BY <1>1, KeptSame
  <2>3. PICK U \in SUBSET Tasks : U = Tasks \ {t}
    OBVIOUS
  <2>4. ~Packing(t)' /\ \A w \in Tasks \ U : w = t
    BY <1>9, <1>13, <2>3 DEF Packing
  <2>5. \A u \in U : Packing(u) =>
               /\ task[u].name \in DOMAIN part'
               /\ part'[task[u].name] = part[task[u].name]
               /\ task[u].name \notin DOMAIN archive'
               /\ \A w \in Tasks \ U : Packing(w)' => task'[w].name # task[u].name
    BY <1>1, <2>1, <2>3, <2>4 DEF PartOwn
  <2>6. \A u \in U : Unmoved(u)
    BY <1>14, <2>3
  <2>7. \A u \in U : PartOwn(u)' /\ SavePays(u)' /\ AllKept(task[u].src)'
    BY <1>1, <2>1, <2>2, <2>5, <2>6, NetUnmoved
  <2>8. PartOwn(t)' /\ SavePays(t)'
    BY <1>9, <1>13, <2>4 DEF PartOwn, SavePays
  <2>9. AllKept(task[t].src)'
    <3>1. \A f \in DOMAIN src : Kept(src[f])
      BY <1>1, <1>7 DEF Kept, a
    <3> QED
      BY <1>9, <1>13, <2>2, <3>1 DEF AllKept
  <2>10. AllKept(pending.files)' /\ PlanPaid'
    BY <1>1, <1>15, <2>1, <2>2, LesserKept, LesserPaid
  <2>11. \A c \in gone' : Kept(c)'
    BY <1>1, <2>1, <2>2 DEF Net
  <2> QED
    BY <2>3, <2>7, <2>8, <2>9, <2>10, <2>11 DEF Net
<1>20. StagesAlone'
  <2>1. task'[t].alone => \A u \in Tasks \ {t} : ~Staging(u)'
    BY <1>9, <1>13, <1>14 DEF solo, Staging, Unmoved
  <2>2. Staging(t)' /\ (task'[t].alone => Agrees(pending.files, task[t].src)')
    BY <1>9, <1>13, EmptyDisk DEF Staging, Agrees, solo
  <2> QED
    BY <1>14, <2>1, <2>2 DEF StagesAlone
<1>21. PlansAlone'
  BY <1>15 DEF PlansAlone
<1> QED
  BY <1>1, <1>16, <1>17, <1>18, <1>19, <1>20, <1>21, UpKeeps DEF IInv

\* One more file in the staging directory, from the archive of the restore.
LEMMA StageKeeps ==
    ASSUME IInv, NEW t \in Tasks, Stage(t)
    PROVE  IInv'
<1> DEFINE q == First(task[t].left)
           v == task[t].src[q]
           fs == Put(pending.files, q, v)
<1>1. /\ task[t].at = "stage" /\ task[t].at # "idle" /\ task[t].left # {}
      /\ pending' = [pending EXCEPT !.there = TRUE, !.files = fs]
      /\ task' = [task EXCEPT ![t].left = @ \ {q}]
      /\ UNCHANGED <<data, archive, part, boot, clock, spent, gone, discarded, spoilt>>
  BY DEF Stage, history
<1>2. TypeOK /\ IsTask(task[t]) /\ boot.at = "up" /\ IsDisk(pending.files)
  BY <1>1, Serving DEF IInv, TypeOK
<1>3. q \in task[t].left
  BY <1>1, FirstIn
<1> HIDE DEF q
<1>4. IsDisk(task[t].src) /\ q \in Files
  BY <1>2, <1>3, TaskFields
<1>5. PICK r : r = [task[t] EXCEPT !.left = @ \ {q}]
  OBVIOUS
<1>6. /\ IsTask(r) /\ r.left = task[t].left \ {q}
      /\ r.at = task[t].at /\ r.comps = task[t].comps /\ r.src = task[t].src
      /\ r.name = task[t].name /\ r.stamp = task[t].stamp /\ r.alone = task[t].alone
  BY <1>2, <1>5 DEF IsTask
<1>7. task' = [task EXCEPT ![t] = r]
  BY <1>1, <1>5 DEF TypeOK
<1>8. /\ task' = [u \in Tasks |-> task'[u]] /\ \A u \in Tasks : IsTask(task'[u])
      /\ task'[t] = r /\ \A u \in Tasks : u # t => task'[u] = task[u]
  BY <1>2, <1>6, <1>7, Turn
<1>9. q \in DOMAIN task[t].src
  BY <1>1, <1>3 DEF IInv, TasksProper, Scoped
<1>10. v \in Files \X Nat /\ IsDisk(fs)
  BY <1>2, <1>4, <1>9, DiskFacts, DiskPut
<1>11. /\ DOMAIN fs = DOMAIN pending.files \cup {q} /\ fs[q] = v
       /\ \A f \in DOMAIN pending.files : f # q => fs[f] = pending.files[f]
  BY DEF Put
<1> HIDE DEF v, fs
<1>12. /\ pending' = [there |-> pending'.there, files |-> pending'.files,
                      plan |-> pending'.plan]
       /\ pending'.there = TRUE /\ pending'.files = fs /\ pending'.plan = pending.plan
  BY <1>1, <1>2 DEF TypeOK
<1>13. TypeOK'
  BY <1>1, <1>2, <1>8, <1>10, <1>12 DEF TypeOK
<1>14. TasksProper'
  <2>1. Bare(task'[t]) /\ Scoped(task'[t])
    BY <1>1, <1>6, <1>8 DEF IInv, TasksProper, Bare, Scoped
  <2> QED
    BY <1>1, <1>8, <2>1, ProperTurn
<1>16. Secured'
  <2> SUFFICES ASSUME ~spoilt
               PROVE  Net'
    BY <1>1 DEF Secured
  <2>1. Net /\ \A u \in Tasks : PartOwn(u) /\ SavePays(u) /\ AllKept(task[u].src)
    BY DEF IInv, Secured, Net
  <2>2. \A c : Kept(c)' <=> Kept(c)
    BY <1>1, KeptSame
  <2>3. ~Packing(t)'
    BY <1>1, <1>6, <1>8 DEF Packing
  <2>4. \A u \in Tasks : u # t /\ Packing(u) =>
               /\ task[u].name \in DOMAIN part'
               /\ part'[task[u].name] = part[task[u].name]
               /\ task[u].name \notin DOMAIN archive'
    BY <1>1, <2>1 DEF PartOwn
  <2>5. \A u \in Tasks : u # t => PartOwn(u)' /\ SavePays(u)' /\ AllKept(task[u].src)'
    BY <1>1, <1>8, <2>1, <2>2, <2>3, <2>4, NetTurn
  <2>6. PartOwn(t)' /\ SavePays(t)'
    BY <1>1, <1>6, <1>8, <2>3 DEF PartOwn, SavePays
  <2>7. AllKept(task[t].src)'
    BY <1>6, <1>8, <2>1, <2>2 DEF AllKept
  <2>8. AllKept(pending.files)'
    <3>1. Kept(v)
      BY <1>9, <2>1 DEF AllKept, v
    <3> QED
      BY <1>11, <1>12, <2>1, <2>2, <3>1 DEF Net, AllKept
  <2>9. PlanPaid' /\ \A c \in gone' : Kept(c)'
    BY <1>1, <1>12, <2>1, <2>2 DEF Net, PlanPaid, InScope
  <2> QED
    BY <2>5, <2>6, <2>7, <2>8, <2>9 DEF Net
<1>17. \A u \in Tasks : /\ Staging(u)' <=> Staging(u)
                        /\ task'[u].alone = task[u].alone /\ task'[u].src = task[u].src
  BY <1>6, <1>8 DEF Staging
<1>18. Staging(t)
  BY <1>1 DEF Staging
<1>19. StagesAlone'
  <2> SUFFICES ASSUME NEW u \in Tasks, task[u].alone
               PROVE  /\ Staging(u)
                      /\ \A w \in Tasks \ {u} : ~Staging(w)
                      /\ Agrees(fs, task[u].src)
    BY <1>12, <1>17 DEF StagesAlone
  <2>1. /\ Staging(u) /\ \A w \in Tasks \ {u} : ~Staging(w)
        /\ Agrees(pending.files, task[u].src)
    BY DEF IInv, StagesAlone
  <2>2. u = t
    BY <1>18, <2>1
  <2> QED
    BY <1>9, <1>11, <2>1, <2>2 DEF Agrees, v
<1>20. PlansAlone'
  BY <1>12, <1>17, <1>18 DEF IInv, PlansAlone
<1>21. PlanProper'
  BY <1>1, <1>12 DEF IInv, PlanProper
<1> QED
  BY <1>1, <1>2, <1>13, <1>14, <1>16, <1>19, <1>20, <1>21, UpKeeps DEF IInv

\* The safety backup begins, or there is nothing to save.
LEMMA SaveKeeps ==
    ASSUME IInv, NEW t \in Tasks, Save(t)
    PROVE  IInv'
<1>1. /\ task[t].at = "stage" /\ task[t].at # "idle" /\ ~Packing(t)
      /\ UNCHANGED <<data, archive, pending, boot, clock, spent, gone, discarded>>
  BY DEF Save, Packing
<1>2. TypeOK /\ IsTask(task[t]) /\ boot.at = "up" /\ task[t].comps \in SUBSET Components
  BY <1>1, Serving, TaskFields DEF IInv, TypeOK
<1>3. CASE Covered(task[t].comps) # {}
  <2>1. PICK at \in {"create", "save"} : at = "save"
    OBVIOUS
  <2>2. PICK p \in {"epix-backup", "pre-restore"} : p = "pre-restore"
    OBVIOUS
  <2>3. PICK cs \in SUBSET Components : cs = task[t].comps
    BY <1>2
  <2>4. Open(t, at, cs, p) /\ at # "create"
    BY <1>3, <2>1, <2>2, <2>3 DEF Save
  <2> QED
    BY <1>1, <1>2, <2>3, <2>4, OpenKeeps
<1>4. CASE Covered(task[t].comps) = {}
  <2>1. /\ task' = [task EXCEPT ![t].at = "commit", ![t].stamp = clock]
        /\ UNCHANGED <<part, spoilt>>
    BY <1>4 DEF Save
  <2>2. clock \in Nat
    BY <1>2 DEF TypeOK
  <2>3. PICK r : r = [task[t] EXCEPT !.at = "commit", !.stamp = clock]
    OBVIOUS
  <2>4. /\ IsTask(r) /\ r.at = "commit" /\ r.stamp = clock
        /\ r.comps = task[t].comps /\ r.src = task[t].src /\ r.alone = task[t].alone
    BY <1>2, <2>2, <2>3 DEF IsTask
  <2>5. task' = [task EXCEPT ![t] = r]
    BY <2>1, <2>3 DEF TypeOK
  <2>6. /\ task' = [u \in Tasks |-> task'[u]] /\ \A u \in Tasks : IsTask(task'[u])
        /\ task'[t] = r /\ \A u \in Tasks : u # t => task'[u] = task[u]
    BY <1>2, <2>4, <2>5, Turn
  <2>7. TypeOK'
    BY <1>1, <1>2, <2>1, <2>6 DEF TypeOK
  <2>8. TasksProper'
    <3>1. Bare(task'[t])
      BY <2>4, <2>6 DEF Bare
    <3>2. Scoped(task'[t])
      BY <2>2, <2>4, <2>6 DEF IInv, TasksProper, Scoped
    <3> QED
      BY <1>1, <2>6, <3>1, <3>2, ProperTurn
  <2>10. Secured'
    <3> SUFFICES ASSUME ~spoilt
                 PROVE  Net'
      BY <2>1 DEF Secured
    <3>1. Net /\ \A u \in Tasks : PartOwn(u) /\ SavePays(u) /\ AllKept(task[u].src)
      BY DEF IInv, Secured, Net
    <3>2. \A c : Kept(c)' <=> Kept(c)
      BY <1>1, KeptSame
    <3>3. ~Packing(t)'
      BY <2>4, <2>6 DEF Packing
    <3>4. \A u \in Tasks : u # t /\ Packing(u) =>
               /\ task[u].name \in DOMAIN part'
               /\ part'[task[u].name] = part[task[u].name]
               /\ task[u].name \notin DOMAIN archive'
      BY <1>1, <2>1, <3>1 DEF PartOwn
    <3>5. \A u \in Tasks : u # t => PartOwn(u)' /\ SavePays(u)' /\ AllKept(task[u].src)'
      BY <1>1, <2>6, <3>1, <3>2, <3>3, <3>4, NetTurn
    <3>6. \A f \in Files : ~Owes(t, f)'
      BY <1>1, <1>4, <2>4, <2>6 DEF Owes, Covered
    <3>7. PartOwn(t)' /\ SavePays(t)'
      BY <2>4, <2>6, <3>3, <3>6 DEF PartOwn, SavePays
    <3>8. AllKept(task[t].src)'
      BY <2>4, <2>6, <3>1, <3>2 DEF AllKept
    <3>9. AllKept(pending.files)' /\ PlanPaid' /\ \A c \in gone' : Kept(c)'
      BY <1>1, <3>1, <3>2 DEF Net, AllKept, PlanPaid, InScope
    <3> QED
      BY <3>5, <3>7, <3>8, <3>9 DEF Net
  <2>11. \A u \in Tasks : /\ Staging(u)' <=> Staging(u)
                          /\ task'[u].alone = task[u].alone /\ task'[u].src = task[u].src
    BY <1>1, <2>4, <2>6 DEF Staging
  <2>12. StagesAlone' /\ PlansAlone' /\ PlanProper'
    BY <1>1, <2>11 DEF IInv, StagesAlone, PlansAlone, PlanProper
  <2> QED
    BY <1>1, <1>2, <2>7, <2>8, <2>10, <2>12, UpKeeps DEF IInv
<1> QED
  BY <1>3, <1>4

\* The plan is written: what it may destroy its safety backup has paid for.
LEMMA CommitKeeps ==
    ASSUME IInv, NEW t \in Tasks, Commit(t)
    PROVE  IInv'
<1>1. /\ task[t].at = "commit" /\ task[t].at # "idle"
      /\ pending' = IF pending.there THEN [pending EXCEPT !.plan = Plan(t)] ELSE NoPending
      /\ task' = [task EXCEPT ![t] = Idle]
      /\ UNCHANGED <<data, archive, part, boot, clock, spent, gone, discarded, spoilt>>
  BY DEF Commit, history
<1>2. TypeOK /\ IsTask(task[t]) /\ boot.at = "up"
  BY <1>1, Serving DEF IInv, TypeOK
<1>3. PICK p : p = Plan(t)
  OBVIOUS
<1>4. /\ IsPlan(p) /\ p.files = DOMAIN task[t].src /\ p.want = task[t].src
      /\ p.stamp = task[t].stamp /\ p.alone = task[t].alone
      /\ p.dirs # {} => \E g \in p.files : g \in Tree
  <2>1. /\ IsDisk(task[t].src) /\ DOMAIN task[t].src \subseteq Files
        /\ task[t].stamp \in Nat /\ task[t].alone \in BOOLEAN
    BY <1>2, TaskFields, DiskFacts
  <2>2. PICK d \in {{}, Tree} : d = IF DOMAIN task[t].src \cap Tree = {} THEN {} ELSE Tree
    OBVIOUS
  <2>3. p = [files |-> DOMAIN task[t].src, dirs |-> d, stamp |-> task[t].stamp,
             want |-> task[t].src, alone |-> task[t].alone]
    BY <1>3, <2>2 DEF Plan
  <2>4. /\ p.files = DOMAIN task[t].src /\ p.want = task[t].src /\ p.dirs = d
        /\ p.stamp = task[t].stamp /\ p.alone = task[t].alone
    BY <2>3
  <2>5. IsPlan(p)
    BY <2>1, <2>2, <2>3, <2>4 DEF IsPlan
  <2> QED
    BY <2>2, <2>4, <2>5
<1>5. \/ pending' = NoPending
      \/ /\ pending' = [there |-> pending'.there, files |-> pending'.files,
                        plan |-> pending'.plan]
         /\ pending'.there = pending.there /\ pending'.files = pending.files
         /\ pending'.plan = p
  BY <1>1, <1>2, <1>3 DEF TypeOK
<1>6. /\ task' = [u \in Tasks |-> task'[u]] /\ \A u \in Tasks : IsTask(task'[u])
      /\ task'[t] = Idle /\ \A u \in Tasks : u # t => task'[u] = task[u]
  BY <1>1, <1>2, IdleFacts, Turn
<1>7. TypeOK'
  <2>1. /\ pending' = [there |-> pending'.there, files |-> pending'.files,
                       plan |-> pending'.plan]
        /\ pending'.there \in BOOLEAN /\ IsDisk(pending'.files) /\ IsPlan(pending'.plan)
    BY <1>2, <1>4, <1>5, NoPendingFacts, NoPlanFacts, EmptyDisk DEF TypeOK
  <2> QED
    BY <1>1, <1>2, <1>6, <2>1 DEF TypeOK
<1>8. /\ Bare(task'[t]) /\ Scoped(task'[t])
      /\ PartOwn(t)' /\ SavePays(t)' /\ AllKept(task[t].src)'
      /\ ~task'[t].alone /\ ~Staging(t)'
  BY <1>1, <1>2, <1>6, IdleRecord
<1>9. TasksProper'
  BY <1>1, <1>6, <1>8, ProperTurn
<1>10. Scoped(task[t]) /\ clock \in Nat
  BY <1>2 DEF IInv, TasksProper, TypeOK
<1>11. PlanProper'
  <2>1. CASE pending' = NoPending
    BY <1>1, <1>10, <2>1, NoPendingFacts, NoPlanFacts DEF PlanProper
  <2>2. CASE pending'.plan = p
    BY <1>1, <1>4, <1>10, <2>2 DEF PlanProper, Scoped
  <2> QED
    BY <1>5, <2>1, <2>2
<1>12. Secured'
  <2> SUFFICES ASSUME ~spoilt
               PROVE  Net'
    BY <1>1 DEF Secured
  <2>1. Net /\ \A u \in Tasks : PartOwn(u) /\ SavePays(u) /\ AllKept(task[u].src)
    BY DEF IInv, Secured, Net
  <2>2. \A c : Kept(c)' <=> Kept(c)
    BY <1>1, KeptSame
  <2>3. ~Packing(t)'
    BY <1>6, IdleFacts DEF Packing
  <2>4. \A u \in Tasks : u # t /\ Packing(u) =>
               /\ task[u].name \in DOMAIN part'
               /\ part'[task[u].name] = part[task[u].name]
               /\ task[u].name \notin DOMAIN archive'
    BY <1>1, <2>1 DEF PartOwn
  <2>5. \A u \in Tasks : u # t => PartOwn(u)' /\ SavePays(u)' /\ AllKept(task[u].src)'
    BY <1>1, <1>6, <2>1, <2>2, <2>3, <2>4, NetTurn
  <2>6. AllKept(pending.files)'
    BY <1>5, <2>1, <2>2, NoPendingFacts, EmptyDisk DEF Net, AllKept
  <2>7. PlanPaid'
    <3>1. CASE pending' = NoPending
      BY <3>1, NoPendingFacts, NoPlanFacts DEF PlanPaid, InScope
    <3>2. CASE pending'.plan = p
      <4>1. ASSUME NEW f \in DOMAIN data, NEW g \in p.files, Component[g] = Component[f],
                   data[f][2] <= p.stamp
            PROVE  Kept(data[f])
        <5>1. f \in Files
          BY <1>2, DiskFacts DEF TypeOK
        <5>2. Component[f] \in task[t].comps
          BY <1>4, <1>10, <4>1 DEF Scoped
        <5>3. Owes(t, f)
          BY <1>4, <4>1, <5>2 DEF Owes
        <5> QED
          BY <1>1, <2>1, <5>1, <5>3 DEF SavePays
      <4> QED
        BY <1>1, <2>2, <3>2, <4>1 DEF PlanPaid, InScope
    <3> QED
      BY <1>5, <3>1, <3>2
  <2>8. \A c \in gone' : Kept(c)'
    BY <1>1, <2>1, <2>2 DEF Net
  <2> QED
    BY <1>8, <2>5, <2>6, <2>7, <2>8 DEF Net
<1>13. Staging(t)
  BY <1>1 DEF Staging
<1>14. \A u \in Tasks : Staging(u)' => Staging(u) /\ u # t
  BY <1>6, <1>8 DEF Staging
<1>15. StagesAlone'
  <2>1. \A u \in Tasks : u # t => ~task[u].alone
    BY <1>13 DEF IInv, StagesAlone
  <2> QED
    BY <1>6, <1>8, <2>1 DEF StagesAlone
<1>16. PlansAlone'
  <2>1. CASE pending' = NoPending
    BY <2>1, NoPendingFacts, NoPlanFacts DEF PlansAlone
  <2>2. CASE pending'.plan = p /\ pending'.files = pending.files
    BY <1>4, <1>14, <2>2 DEF IInv, StagesAlone, PlansAlone
  <2> QED
    BY <1>5, <2>1, <2>2
<1> QED
  BY <1>1, <1>2, <1>7, <1>9, <1>11, <1>12, <1>15, <1>16, UpKeeps DEF IInv

\* Nobody is alone after a cancel, and nothing more is staged.
LEMMA CancelKeeps ==
    ASSUME IInv, Cancel
    PROVE  IInv'
<1>1. /\ boot.at = "up" /\ Discard /\ task' = Disturb(Tasks)
      /\ UNCHANGED <<data, archive, part, boot, clock, gone, discarded, spoilt>>
  BY DEF Cancel, history
<1>2. /\ TypeOK /\ clock \in Nat /\ clock <= clock
      /\ Lesser(pending') /\ (Spend("faults", MaxFaults) \/ UNCHANGED spent)
  BY <1>1, LesserDiscard DEF IInv, TypeOK
<1>3. PICK U \in SUBSET Tasks : U = Tasks
  OBVIOUS
<1>4. /\ task' = [u \in Tasks |-> task'[u]]
      /\ \A u \in Tasks : IsTask(task'[u]) /\ Unmoved(u) /\ ~task'[u].alone
  BY <1>1, <1>2, <1>3, DisturbFacts DEF Unmoved
<1>5. TypeOK'
  <2>1. /\ pending' = [there |-> pending'.there, files |-> pending'.files,
                       plan |-> pending'.plan]
        /\ pending'.there \in BOOLEAN /\ IsDisk(pending'.files) /\ IsPlan(pending'.plan)
    BY <1>2 DEF Lesser
  <2>2. spent' \in [requests : 0 .. MaxRequests, edits : 0 .. MaxEdits,
                    faults : 0 .. MaxFaults]
    BY <1>2, SpentTyped
  <2> QED
    BY <1>1, <1>2, <1>4, <2>1, <2>2 DEF TypeOK
<1>6. TasksProper'
  <2>1. \A u \in Tasks : Bare(task'[u]) /\ Scoped(task'[u])
    BY <1>1, <1>4, BareUnmoved
  <2> QED
    BY <1>1, <2>1 DEF TasksProper, Scoped
<1>7. PlanProper'
  BY <1>1, <1>2, LesserProper
<1>8. Secured'
  <2> SUFFICES ASSUME ~spoilt
               PROVE  Net'
    BY <1>1 DEF Secured
  <2>1. Net /\ \A u \in Tasks : PartOwn(u)
    BY DEF IInv, Secured, Net
  <2>2. \A c : Kept(c)' <=> Kept(c)
    BY <1>1, KeptSame
  <2>3. \A u \in U : Packing(u) =>
               /\ task[u].name \in DOMAIN part'
               /\ part'[task[u].name] = part[task[u].name]
               /\ task[u].name \notin DOMAIN archive'
               /\ \A w \in Tasks \ U : Packing(w)' => task'[w].name # task[u].name
    BY <1>1, <1>3, <2>1 DEF PartOwn
  <2>4. \A u \in U : PartOwn(u)' /\ SavePays(u)' /\ AllKept(task[u].src)'
    BY <1>1, <1>3, <1>4, <2>1, <2>2, <2>3, NetUnmoved
  <2>5. AllKept(pending.files)' /\ PlanPaid'
    BY <1>1, <1>2, <2>1, <2>2, LesserKept, LesserPaid
  <2>6. \A c \in gone' : Kept(c)'
    BY <1>1, <2>1, <2>2 DEF Net
  <2> QED
    BY <1>3, <2>4, <2>5, <2>6 DEF Net
<1>9. StagesAlone'
  BY <1>4 DEF StagesAlone
<1>10. PlansAlone'
  <2>1. \A u \in Tasks : Staging(u)' => Staging(u)
    BY <1>4 DEF Staging, Unmoved
  <2> QED
    BY <1>2, <2>1, LesserAlone
<1> QED
  BY <1>1, <1>5, <1>6, <1>7, <1>8, <1>9, <1>10, UpKeeps DEF IInv

\* Archives come and go by the user's hand.
LEMMA ArchivesKeep ==
    ASSUME IInv, boot.at = "up", Spend("requests", MaxRequests),
           \A n \in DOMAIN archive' : n \in Names /\ IsArchive(archive'[n]),
           discarded' \subseteq Files \X Nat,
           \A c : Kept(c) => Kept(c)',
           \A u \in Tasks : Packing(u) /\ PartOwn(u) => task[u].name \notin DOMAIN archive',
           UNCHANGED <<data, part, pending, task, boot, clock, gone, spoilt>>
    PROVE  IInv'
<1>1. TypeOK'
  <2>1. TypeOK
    BY DEF IInv
  <2>2. spent' \in [requests : 0 .. MaxRequests, edits : 0 .. MaxEdits,
                    faults : 0 .. MaxFaults]
    BY <2>1, SpentTyped
  <2> QED
    BY <2>1, <2>2 DEF TypeOK
<1>2. Secured'
  <2> SUFFICES ASSUME ~spoilt
               PROVE  Net'
    BY DEF Secured
  <2>1. Net /\ \A u \in Tasks : PartOwn(u)
    BY DEF IInv, Secured, Net
  <2>2. PICK U \in SUBSET Tasks : U = Tasks
    OBVIOUS
  <2>3. \A u \in U : Unmoved(u)
    BY DEF Unmoved
  <2>4. \A u \in U : Packing(u) =>
               /\ task[u].name \in DOMAIN part'
               /\ part'[task[u].name] = part[task[u].name]
               /\ task[u].name \notin DOMAIN archive'
               /\ \A w \in Tasks \ U : Packing(w)' => task'[w].name # task[u].name
    BY <2>1, <2>2 DEF PartOwn
  <2>5. \A u \in U : PartOwn(u)' /\ SavePays(u)' /\ AllKept(task[u].src)'
    BY <2>1, <2>3, <2>4, NetUnmoved
  <2>6. AllKept(pending.files)' /\ PlanPaid' /\ \A c \in gone' : Kept(c)'
    BY <2>1 DEF Net, AllKept, PlanPaid, InScope
  <2> QED
    BY <2>2, <2>5, <2>6 DEF Net
<1>3. TasksProper' /\ PlanProper' /\ StagesAlone' /\ PlansAlone'
  BY DEF IInv, TasksProper, Bare, Scoped, PlanProper, StagesAlone, PlansAlone, Staging
<1> QED
  BY <1>1, <1>2, <1>3, UpKeeps DEF IInv

LEMMA DeleteKeeps ==
    ASSUME IInv, NEW n \in DOMAIN archive, Delete(n)
    PROVE  IInv'
<1>1. /\ boot.at = "up" /\ Spend("requests", MaxRequests)
      /\ archive' = Without(archive, {n})
      /\ discarded' = discarded \cup Range(archive[n].files)
      /\ UNCHANGED <<data, part, pending, task, boot, clock, gone, spoilt>>
  BY DEF Delete, Request
<1>2. /\ DOMAIN archive' = DOMAIN archive \ {n}
      /\ \A k \in DOMAIN archive' : archive'[k] = archive[k]
  BY <1>1 DEF Without, Restrict
<1>3. TypeOK
  BY DEF IInv
<1>4. \A k \in DOMAIN archive' : k \in Names /\ IsArchive(archive'[k])
  BY <1>2, <1>3 DEF TypeOK
<1>5. discarded' \subseteq Files \X Nat
  <2>1. IsDisk(archive[n].files)
    BY <1>3 DEF TypeOK, IsArchive
  <2>2. Range(archive[n].files) \subseteq Files \X Nat
    BY <2>1, DiskFacts DEF Range
  <2> QED
    BY <1>1, <1>3, <2>2 DEF TypeOK
<1>6. ASSUME NEW c, Kept(c)
      PROVE  Kept(c)'
  <2>1. CASE c \in discarded
    BY <1>1, <2>1 DEF Kept
  <2>2. CASE c \notin discarded
    <3>1. PICK k \in DOMAIN archive : archive[k].whole /\ c \in Range(archive[k].files)
      BY <1>6, <2>2 DEF Kept
    <3>2. CASE k = n
      BY <1>1, <3>1, <3>2 DEF Kept
    <3>3. CASE k # n
      BY <1>2, <3>1, <3>3 DEF Kept
    <3> QED
      BY <3>2, <3>3
  <2> QED
    BY <2>1, <2>2
<1>7. \A u \in Tasks : Packing(u) /\ PartOwn(u) => task[u].name \notin DOMAIN archive'
  BY <1>2 DEF PartOwn
<1> QED
  BY <1>1, <1>4, <1>5, <1>6, <1>7, ArchivesKeep

LEMMA UploadKeeps ==
    ASSUME IInv, NEW S \in Foreign, Upload(S)
    PROVE  IInv'
<1>1. PICK k \in Slots :
        /\ <<"uploaded", k>> \notin DOMAIN archive
        /\ archive' = Put(archive, <<"uploaded", k>>, Foreigner(S))
  BY DEF Upload
<1>2. /\ boot.at = "up" /\ Spend("requests", MaxRequests)
      /\ UNCHANGED <<data, part, pending, task, boot, clock, gone, discarded, spoilt>>
  BY DEF Upload, Request, history
<1>3. PICK n : n = <<"uploaded", k>>
  OBVIOUS
<1>4. n \in Names /\ n[1] = "uploaded" /\ n \notin DOMAIN archive
  BY <1>1, <1>3 DEF Names
<1>5. PICK a : a = Foreigner(S)
  OBVIOUS
<1>6. IsArchive(a)
  BY <1>5, BackupAssumption, ForeignerFacts
<1>7. archive' = Put(archive, n, a)
  BY <1>1, <1>3, <1>5
<1>8. /\ DOMAIN archive' = DOMAIN archive \cup {n} /\ archive'[n] = a
      /\ \A m \in DOMAIN archive : m # n => archive'[m] = archive[m]
  BY <1>7 DEF Put
<1>9. TypeOK
  BY DEF IInv
<1>10. \A m \in DOMAIN archive' : m \in Names /\ IsArchive(archive'[m])
  BY <1>4, <1>6, <1>8, <1>9 DEF TypeOK
<1>11. \A c : Kept(c) => Kept(c)'
  BY <1>2, <1>4, <1>8, KeptGrows
<1>12. \A u \in Tasks : Packing(u) /\ PartOwn(u) => task[u].name \notin DOMAIN archive'
  BY <1>4, <1>8 DEF PartOwn
<1>13. discarded' \subseteq Files \X Nat
  BY <1>2, <1>9 DEF TypeOK
<1> QED
  BY <1>2, <1>10, <1>11, <1>12, <1>13, ArchivesKeep

\* The node writes and deletes its files: what is new is later than any stamp.
LEMMA EditKeeps ==
    ASSUME IInv, boot.at = "up", Spend("edits", MaxEdits), IsDisk(data'),
           clock' \in Nat, clock <= clock',
           \A g \in DOMAIN data' : \/ g \in DOMAIN data /\ data'[g] = data[g]
                                   \/ data'[g][2] = clock + 1,
           UNCHANGED <<archive, part, pending, task, boot, gone, discarded, spoilt>>
    PROVE  IInv'
<1>1. TypeOK
  BY DEF IInv
<1>2. TypeOK'
  <2>1. spent' \in [requests : 0 .. MaxRequests, edits : 0 .. MaxEdits,
                    faults : 0 .. MaxFaults]
    BY <1>1, SpentTyped
  <2> QED
    BY <1>1, <2>1 DEF TypeOK
<1>3. clock \in Nat /\ pending.plan.stamp \in Nat /\ \A u \in Tasks : task[u].stamp \in Nat
  BY <1>1 DEF TypeOK, IsPlan, IsTask
<1>4. TasksProper'
  <2>1. \A u \in Tasks : task[u].stamp <= clock'
    BY <1>3 DEF IInv, TasksProper, Scoped
  <2> QED
    BY <2>1 DEF IInv, TasksProper, Bare, Scoped
<1>5. PlanProper'
  <2>1. pending.plan.stamp <= clock'
    BY <1>3 DEF IInv, PlanProper
  <2> QED
    BY <2>1 DEF IInv, PlanProper
<1>6. Secured'
  <2> SUFFICES ASSUME ~spoilt
               PROVE  Net'
    BY DEF Secured
  <2>1. Net /\ \A u \in Tasks : PartOwn(u) /\ SavePays(u) /\ AllKept(task[u].src)
    BY DEF IInv, Secured, Net
  <2>2. \A c : Kept(c)' <=> Kept(c)
    BY KeptSame
  <2>3. ASSUME NEW u \in Tasks
        PROVE  PartOwn(u)' /\ SavePays(u)' /\ AllKept(task[u].src)'
    <3>1. task[u].stamp <= clock
      BY DEF IInv, TasksProper, Scoped
    <3>2. \A f : Owes(u, f)' => Owes(u, f) /\ data'[f] = data[f]
      <4>1. \A k \in Nat : k = clock + 1 => ~(k <= task[u].stamp)
        BY <1>3, <3>1
      <4>2. clock + 1 \in Nat
        BY <1>3
      <4> QED
        BY <4>1, <4>2 DEF Owes
    <3>3. \A f : data'[f] = data[f] => Packed(u, f)' = Packed(u, f)
      BY DEF Packed
    <3>4. SavePays(u)'
      BY <2>1, <2>2, <3>2, <3>3 DEF SavePays
    <3>5. PartOwn(u)'
      BY <2>1 DEF PartOwn, Packing
    <3>6. AllKept(task[u].src)'
      BY <2>1, <2>2 DEF AllKept
    <3> QED
      BY <3>4, <3>5, <3>6
  <2>4. AllKept(pending.files)' /\ \A c \in gone' : Kept(c)'
    BY <2>1, <2>2 DEF Net, AllKept
  <2>5. PlanPaid'
    <3>1. pending.plan.stamp <= clock
      BY DEF IInv, PlanProper
    <3>2. ~(clock + 1 <= pending.plan.stamp)
      BY <1>3, <3>1
    <3> QED
      BY <2>1, <2>2, <3>2 DEF Net, PlanPaid, InScope
  <2> QED
    BY <2>3, <2>4, <2>5 DEF Net
<1>7. StagesAlone' /\ PlansAlone'
  BY DEF IInv, StagesAlone, PlansAlone, Staging
<1> QED
  BY <1>2, <1>4, <1>5, <1>6, <1>7, UpKeeps DEF IInv

LEMMA WriteKeeps ==
    ASSUME IInv, NEW f \in Files, Write(f)
    PROVE  IInv'
<1>1. /\ boot.at = "up" /\ Spend("edits", MaxEdits) /\ clock' = clock + 1
      /\ data' = Put(data, f, <<f, clock + 1>>)
      /\ UNCHANGED <<archive, part, pending, task, boot, gone, discarded, spoilt>>
  BY DEF Write, history
<1>2. clock \in Nat /\ IsDisk(data)
  BY DEF IInv, TypeOK
<1>3. clock + 1 \in Nat /\ clock <= clock + 1
  BY <1>2
<1>4. PICK v : v = <<f, clock + 1>>
  OBVIOUS
<1>5. v \in Files \X Nat /\ v[2] = clock + 1
  BY <1>3, <1>4
<1>6. data' = Put(data, f, v)
  BY <1>1, <1>4
<1>7. IsDisk(data')
  BY <1>2, <1>5, <1>6, DiskPut
<1>8. \A g \in DOMAIN data' : \/ g \in DOMAIN data /\ data'[g] = data[g]
                              \/ data'[g][2] = clock + 1
  BY <1>5, <1>6 DEF Put
<1> QED
  BY <1>1, <1>3, <1>7, <1>8, EditKeeps

LEMMA UnlinkKeeps ==
    ASSUME IInv, NEW f \in Files, Unlink(f)
    PROVE  IInv'
<1>1. /\ boot.at = "up" /\ Spend("edits", MaxEdits) /\ clock' = clock
      /\ data' = Without(data, {f})
      /\ UNCHANGED <<archive, part, pending, task, boot, gone, discarded, spoilt>>
  BY DEF Unlink, history
<1>2. clock \in Nat /\ IsDisk(data) /\ clock <= clock
  BY DEF IInv, TypeOK
<1>3. IsDisk(data')
  BY <1>1, <1>2, DiskWithout
<1>4. \A g \in DOMAIN data' : g \in DOMAIN data /\ data'[g] = data[g]
  BY <1>1 DEF Without, Restrict
<1> QED
  BY <1>1, <1>2, <1>3, <1>4, EditKeeps

-----------------------------------------------------------------------------
(***************************************************************************)
(* The restart and the boot.                                               *)
(***************************************************************************)

LEMMA RestartKeeps ==
    ASSUME IInv, Restart
    PROVE  IInv'
<1>1. /\ Spend("faults", MaxFaults)
      /\ task' = [t \in Tasks |-> Idle]
      /\ boot' = [at |-> "check", left |-> {},
                  clean |-> boot.at = "up" \/ (boot.at = "check" /\ boot.clean)]
      /\ part' = Empty
      /\ UNCHANGED <<data, archive, pending, clock, gone, discarded, spoilt>>
  BY DEF Restart, Fault, history
<1>2. TypeOK /\ clock \in Nat
  BY DEF IInv, TypeOK
<1>3. \A t \in Tasks : task'[t] = Idle
  BY <1>1
<1>4. /\ boot' \in [at : {"up", "check", "place", "sweep", "load"}, left : SUBSET Files,
                    clean : BOOLEAN]
      /\ boot'.at = "check"
  <2>1. PICK b \in BOOLEAN : b = (boot.at = "up" \/ (boot.at = "check" /\ boot.clean))
    BY <1>2 DEF TypeOK
  <2>2. boot' = [at |-> "check", left |-> {}, clean |-> b]
    BY <1>1, <2>1
  <2> QED
    BY <2>2
<1>5. TypeOK'
  <2>1. spent' \in [requests : 0 .. MaxRequests, edits : 0 .. MaxEdits,
                    faults : 0 .. MaxFaults]
    BY <1>1, <1>2, SpentTyped
  <2>2. task' = [u \in Tasks |-> task'[u]] /\ \A u \in Tasks : IsTask(task'[u])
    BY <1>1, IdleFacts
  <2>3. DOMAIN part' = {}
    BY <1>1, EmptyDisk
  <2> QED
    BY <1>1, <1>2, <1>4, <2>1, <2>2, <2>3 DEF TypeOK
<1>6. \A t \in Tasks : /\ Bare(task'[t]) /\ Scoped(task'[t])
                       /\ ~task'[t].alone /\ ~Staging(t)'
  BY <1>1, <1>2, <1>3, IdleRecord
<1>7. TasksProper' /\ StagesAlone'
  BY <1>1, <1>6 DEF TasksProper, Scoped, StagesAlone
<1>8. PlanProper' /\ PlansAlone'
  BY <1>1, <1>6 DEF IInv, PlanProper, PlansAlone
<1>9. Secured'
  <2> SUFFICES ASSUME ~spoilt
               PROVE  Net'
    BY <1>1 DEF Secured
  <2>1. Net
    BY DEF IInv, Secured
  <2>2. \A c : Kept(c)' <=> Kept(c)
    BY <1>1, KeptSame
  <2>3. \A t \in Tasks : PartOwn(t)' /\ SavePays(t)' /\ AllKept(task[t].src)'
    BY <1>3, NetIdle
  <2>4. AllKept(pending.files)' /\ PlanPaid' /\ \A c \in gone' : Kept(c)'
    BY <1>1, <2>1, <2>2 DEF Net, AllKept, PlanPaid, InScope
  <2> QED
    BY <2>3, <2>4 DEF Net
<1>10. BootProper' /\ PlacedExact' /\ RestoreExact'
  BY <1>3, <1>4, IdleFacts DEF BootProper, PlacedExact, RestoreExact
<1> QED
  BY <1>5, <1>7, <1>8, <1>9, <1>10 DEF IInv

\* Whatever a plan destroys is paid for.
LEMMA DestroyedKept ==
    ASSUME TypeOK, NEW S, \A f \in S : InScope(f)
    PROVE  /\ Destroyed(S) \subseteq Files \X Nat
           /\ Net => \A c \in Destroyed(S) : Kept(c)
<1>1. \A f \in DOMAIN data : data[f] \in Files \X Nat
  BY DiskFacts DEF TypeOK
<1>2. Destroyed(S) \subseteq Files \X Nat
  BY <1>1 DEF Destroyed
<1>3. Net => \A c \in Destroyed(S) : Kept(c)
  BY DEF Destroyed, Net, PlanPaid
<1> QED
  BY <1>2, <1>3

\* What a step of the boot leaves alone, and where the files it writes come
\* from.
LEMMA BootStep ==
    ASSUME IInv, boot.at # "up", NEW S, \A f \in S : InScope(f),
           clock' \in Nat, clock <= clock',
           UNCHANGED <<archive, part, task, discarded, spoilt>>,
           Spend("faults", MaxFaults) \/ UNCHANGED spent,
           \/ Lesser(pending')
           \/ /\ pending' = [there |-> pending'.there, files |-> pending'.files,
                             plan |-> pending'.plan]
              /\ pending'.there = pending.there /\ pending'.plan = pending.plan
              /\ IsDisk(pending'.files)
              /\ Agrees(pending'.files, pending.files),
           IsDisk(data'),
           \A f \in DOMAIN data' :
              \/ f \in DOMAIN data /\ data'[f] = data[f]
              \/ f \in DOMAIN pending.files /\ data'[f] = pending.files[f]
              \/ \E g \in DOMAIN data : Component[g] = Component[f] /\ data'[f] = data[g]
              \/ data'[f][2] = clock + 1,
           gone' \subseteq gone \cup Destroyed(S),
           boot' \in [at : {"up", "check", "place", "sweep", "load"}, left : SUBSET Files,
                      clean : BOOLEAN]
    PROVE  /\ TypeOK' /\ TasksProper' /\ PlanProper' /\ Secured'
           /\ StagesAlone' /\ PlansAlone'
           /\ \A t \in Tasks : task'[t].at = "idle"
<1>1. TypeOK /\ clock \in Nat /\ IsPlan(pending.plan) /\ pending.there \in BOOLEAN
  BY DEF IInv, TypeOK
<1>0. Lesser(pending')
  BY <1>1 DEF Lesser
<1>2. \A t \in Tasks : task[t] = Idle /\ task'[t] = Idle
  BY DEF IInv, BootProper, TasksProper, Bare
<1>3. TypeOK'
  <2>1. spent' \in [requests : 0 .. MaxRequests, edits : 0 .. MaxEdits,
                    faults : 0 .. MaxFaults]
    BY <1>1, SpentTyped
  <2>2. /\ pending' = [there |-> pending'.there, files |-> pending'.files,
                       plan |-> pending'.plan]
        /\ pending'.there \in BOOLEAN /\ IsDisk(pending'.files) /\ IsPlan(pending'.plan)
    BY <1>0 DEF Lesser
  <2>3. gone' \subseteq Files \X Nat
    BY <1>1, DestroyedKept DEF TypeOK
  <2> QED
    BY <1>1, <2>1, <2>2, <2>3 DEF TypeOK
<1>4. TasksProper' /\ StagesAlone'
  <2>1. 0 <= clock'
    OBVIOUS
  <2> QED
    BY <1>2, <2>1, IdleFacts, EmptyDisk DEF TasksProper, Bare, Scoped, StagesAlone
<1>5. PlanProper'
  BY <1>0, LesserProper
<1>6. Secured'
  <2> SUFFICES ASSUME ~spoilt
               PROVE  Net'
    BY DEF Secured
  <2>1. Net
    BY DEF IInv, Secured
  <2>2. \A c : Kept(c)' <=> Kept(c)
    BY KeptSame
  <2>3. \A t \in Tasks : PartOwn(t)' /\ SavePays(t)' /\ AllKept(task[t].src)'
    BY <1>2, NetIdle
  <2>4. AllKept(pending.files)'
    BY <1>0, <2>1, <2>2, LesserKept
  <2>5. \A c \in gone' : Kept(c)'
    BY <1>1, <2>1, <2>2, DestroyedKept DEF Net
  <2>6. PlanPaid'
    <3>1. CASE pending'.plan = NoPlan
      BY <3>1, NoPlanFacts DEF PlanPaid, InScope
    <3>2. CASE pending'.plan # NoPlan
      <4>0. /\ pending'.plan.files = pending.plan.files
            /\ pending'.plan.stamp = pending.plan.stamp
        BY <1>0, <3>2 DEF Lesser
      <4>1. ~(clock + 1 <= pending.plan.stamp)
        <5>1. pending.plan.stamp \in Nat /\ pending.plan.stamp <= clock
          BY <1>1 DEF IInv, PlanProper, TypeOK, IsPlan
        <5> QED
          BY <1>1, <5>1
      <4>2. ASSUME NEW f \in DOMAIN data', InScope(f), data'[f][2] <= pending.plan.stamp
            PROVE  Kept(data'[f])
        <5>1. CASE f \in DOMAIN data /\ data'[f] = data[f]
          BY <2>1, <4>2, <5>1 DEF Net, PlanPaid
        <5>2. CASE f \in DOMAIN pending.files /\ data'[f] = pending.files[f]
          BY <2>1, <5>2 DEF Net, AllKept
        <5>3. CASE \E g \in DOMAIN data : Component[g] = Component[f] /\ data'[f] = data[g]
          BY <2>1, <4>2, <5>3 DEF Net, PlanPaid, InScope
        <5> QED
          BY <4>1, <4>2, <5>1, <5>2, <5>3
      <4> QED
        BY <2>2, <4>0, <4>2 DEF PlanPaid, InScope
    <3> QED
      BY <3>1, <3>2
  <2> QED
    BY <2>3, <2>4, <2>5, <2>6 DEF Net
<1>7. PlansAlone'
  <2>1. \A t \in Tasks : ~Staging(t)'
    BY <1>2, IdleFacts DEF Staging
  <2> QED
    BY <1>0, <2>1, LesserAlone
<1> QED
  BY <1>2, <1>3, <1>4, <1>5, <1>6, <1>7, IdleFacts

\* The boot's record with one field or more replaced.
LEMMA BootFields ==
    ASSUME TypeOK
    PROVE  /\ boot = [at |-> boot.at, left |-> boot.left, clean |-> boot.clean]
           /\ boot.left \subseteq Files /\ boot.clean \in BOOLEAN
BY DEF TypeOK

\* A boot that removes the staging directory, or some of it, and goes on to load.
LEMMA DiscardKeeps ==
    ASSUME IInv, boot.at # "up", Discard, boot' = [boot EXCEPT !.at = "load"],
           UNCHANGED <<data, archive, part, task, clock, gone, discarded, spoilt>>
    PROVE  IInv'
<1>1. /\ TypeOK /\ clock' \in Nat /\ clock <= clock' /\ IsDisk(data')
      /\ Lesser(pending') /\ (Spend("faults", MaxFaults) \/ UNCHANGED spent)
  BY LesserDiscard DEF IInv, TypeOK
<1>2. /\ boot' \in [at : {"up", "check", "place", "sweep", "load"}, left : SUBSET Files,
                    clean : BOOLEAN]
      /\ boot'.at = "load"
  BY <1>1 DEF TypeOK
<1>3. PICK S : S = {}
  OBVIOUS
<1>4. /\ TypeOK' /\ TasksProper' /\ PlanProper' /\ Secured'
      /\ StagesAlone' /\ PlansAlone' /\ \A t \in Tasks : task'[t].at = "idle"
  BY <1>1, <1>2, <1>3, BootStep
<1>5. BootProper' /\ PlacedExact' /\ RestoreExact'
  BY <1>2, <1>4 DEF BootProper, PlacedExact, RestoreExact
<1> QED
  BY <1>4, <1>5 DEF IInv

\* A boot without a plan.
LEMMA ApplyNothingKeeps ==
    ASSUME IInv, ApplyNothing
    PROVE  IInv'
<1>1. /\ boot.at = "check" /\ boot.at # "up" /\ Discard
      /\ boot' = [boot EXCEPT !.at = "load"]
      /\ UNCHANGED <<data, archive, part, task, clock, gone, discarded, spoilt>>
  BY DEF ApplyNothing, history
<1> QED
  BY <1>1, DiscardKeeps

\* With one: the tree, or the part of it that can be, is removed.
LEMMA ApplyKeeps ==
    ASSUME IInv, Apply
    PROVE  IInv'
<1>1. /\ boot.at = "check" /\ boot.at # "up"
      /\ UNCHANGED <<archive, part, pending, task, clock, discarded, spoilt>>
  BY DEF Apply
<1>2. TypeOK /\ clock \in Nat /\ clock <= clock /\ IsDisk(data) /\ IsPlan(pending.plan)
  BY DEF IInv, TypeOK
<1>3. PICK stuck \in SUBSET (pending.plan.dirs \cap DOMAIN data) :
        /\ IF stuck = {} THEN UNCHANGED spent ELSE Fault
        /\ data' = Without(data, pending.plan.dirs \ stuck)
        /\ gone' = gone \cup Destroyed(pending.plan.dirs \ stuck)
        /\ boot' = [boot EXCEPT !.at = "place", !.left = pending.plan.files,
                                !.clean = @ /\ stuck = {}]
  BY DEF Apply
<1>4. PICK S : S = pending.plan.dirs \ stuck
  OBVIOUS
<1>5. /\ data' = Without(data, S) /\ gone' = gone \cup Destroyed(S)
      /\ Spend("faults", MaxFaults) \/ UNCHANGED spent
  BY <1>3, <1>4 DEF Fault
<1>6. pending.plan.files \subseteq Files /\ pending.plan.dirs \in {{}, Tree}
  BY <1>2 DEF IsPlan
<1>7. PICK b \in BOOLEAN : b = (boot.clean /\ stuck = {})
  BY <1>2, BootFields
<1>8. boot' = [at |-> "place", left |-> pending.plan.files, clean |-> b]
  <2>1. boot' = [boot EXCEPT !.at = "place", !.left = pending.plan.files, !.clean = b]
    BY <1>2, <1>3, <1>7 DEF TypeOK
  <2>2. PICK x, y, z : boot = [at |-> x, left |-> y, clean |-> z]
    BY <1>2, BootFields
  <2> QED
    BY <2>1, <2>2
<1>9. /\ boot' \in [at : {"up", "check", "place", "sweep", "load"}, left : SUBSET Files,
                    clean : BOOLEAN]
      /\ boot'.at = "place" /\ boot'.left = pending.plan.files /\ boot'.clean = b
  BY <1>6, <1>8
<1>10. /\ DOMAIN data' = DOMAIN data \ S
       /\ \A f \in DOMAIN data' : data'[f] = data[f]
  BY <1>5 DEF Without, Restrict
<1>11. IsDisk(data')
  BY <1>2, <1>5, DiskWithout
<1>12. \A f \in S : InScope(f)
  <2> SUFFICES ASSUME NEW f \in S
               PROVE  InScope(f)
    OBVIOUS
  <2>1. pending.plan.dirs = Tree /\ f \in Tree
    BY <1>4, <1>6
  <2>2. PICK g \in pending.plan.files : g \in Tree
    BY <2>1 DEF IInv, PlanProper
  <2> QED
    BY <2>1, <2>2, BackupAssumption DEF InScope
<1>13. /\ pending' = [there |-> pending'.there, files |-> pending'.files,
                      plan |-> pending'.plan]
       /\ pending'.there = pending.there /\ pending'.plan = pending.plan
       /\ IsDisk(pending'.files)
       /\ Agrees(pending'.files, pending.files)
  BY <1>1, <1>2 DEF TypeOK, Agrees
<1>14. /\ TypeOK' /\ TasksProper' /\ PlanProper' /\ Secured'
       /\ StagesAlone' /\ PlansAlone' /\ \A t \in Tasks : task'[t].at = "idle"
  BY <1>1, <1>2, <1>5, <1>9, <1>10, <1>11, <1>12, <1>13, BootStep
<1>15. BootProper' /\ RestoreExact'
  BY <1>1, <1>9, <1>14 DEF BootProper, RestoreExact
<1>16. PlacedExact'
  <2>1. b => S = pending.plan.dirs
    BY <1>4, <1>7
  <2> QED
    BY <1>1, <1>6, <1>9, <1>10, <2>1 DEF PlacedExact
<1> QED
  BY <1>14, <1>15, <1>16 DEF IInv

LEMMA PlaceKeeps ==
    ASSUME IInv, Place
    PROVE  IInv'
<1> DEFINE q == First(boot.left)
           staged == q \in DOMAIN pending.files
<1>1. /\ boot.at = "place" /\ boot.at # "up" /\ boot.left # {}
      /\ gone' = gone \cup Destroyed({q})
      /\ data' = IF staged THEN Put(data, q, pending.files[q]) ELSE Without(data, {q})
      /\ pending' = [pending EXCEPT !.files = Without(@, {q})]
      /\ boot' = [boot EXCEPT !.left = @ \ {q}, !.clean = @ /\ staged]
      /\ UNCHANGED <<archive, part, task, clock, spent, discarded, spoilt>>
  BY DEF Place
<1>2. /\ TypeOK /\ clock \in Nat /\ clock <= clock /\ IsDisk(data)
      /\ IsDisk(pending.files) /\ IsPlan(pending.plan)
  BY DEF IInv, TypeOK
<1>3. q \in boot.left /\ boot.left \subseteq pending.plan.files /\ boot.left \subseteq Files
  BY <1>1, <1>2, FirstIn, BootFields DEF IInv, BootProper
<1> HIDE DEF q
<1>4. PICK s \in BOOLEAN : s <=> q \in DOMAIN pending.files
  <2>1. CASE staged
    <3>1. TRUE \in BOOLEAN /\ (TRUE <=> q \in DOMAIN pending.files)
      BY <2>1
    <3> QED
      BY <3>1
  <2>2. CASE ~staged
    <3>1. FALSE \in BOOLEAN /\ (FALSE <=> q \in DOMAIN pending.files)
      BY <2>2
    <3> QED
      BY <3>1
  <2> QED
    BY <2>1, <2>2
<1> HIDE DEF staged
<1>5. /\ boot' \in [at : {"up", "check", "place", "sweep", "load"}, left : SUBSET Files,
                    clean : BOOLEAN]
      /\ boot'.at = "place" /\ boot'.left = boot.left \ {q}
      /\ boot'.clean => boot.clean /\ s
  <2>1. boot' = [boot EXCEPT !.left = @ \ {q}, !.clean = @ /\ s]
    BY <1>1, <1>4 DEF staged
  <2>2. PICK b \in BOOLEAN : b = (boot.clean /\ s)
    BY <1>2, BootFields
  <2>3. boot' = [boot EXCEPT !.left = boot.left \ {q}, !.clean = b]
    BY <1>2, <2>1, <2>2 DEF TypeOK
  <2>4. boot' = [at |-> boot.at, left |-> boot.left \ {q}, clean |-> b]
    BY <1>2, <2>3 DEF TypeOK
  <2>5. /\ boot'.at = "place" /\ boot'.left = boot.left \ {q}
        /\ boot'.clean => b
    <3>1. boot'.at = boot.at /\ boot'.left = boot.left \ {q} /\ (boot'.clean <=> b)
      BY ONLY <2>4
    <3> QED
      BY <1>1, <3>1
  <2>6. boot.left \ {q} \in SUBSET Files
    BY <1>3
  <2>7. "place" \in {"up", "check", "place", "sweep", "load"}
    OBVIOUS
  <2>8. boot' \in [at : {"up", "check", "place", "sweep", "load"}, left : SUBSET Files,
                   clean : BOOLEAN]
    BY <1>1, <2>2, <2>4, <2>6, <2>7
  <2>9. b => boot.clean /\ s
    BY <2>2
  <2> QED
    BY <2>5, <2>8, <2>9
<1>6. IsDisk(data')
  <2>1. CASE s
    BY <1>1, <1>2, <1>3, <1>4, <2>1, DiskPut, DiskFacts DEF staged
  <2>2. CASE ~s
    BY <1>1, <1>2, <1>4, <2>2, DiskWithout DEF staged
  <2> QED
    BY <2>1, <2>2
<1>7. /\ s => /\ DOMAIN data' = DOMAIN data \cup {q} /\ data'[q] = pending.files[q]
              /\ q \in DOMAIN pending.files
      /\ ~s => DOMAIN data' = DOMAIN data \ {q}
      /\ \A f \in DOMAIN data' : f # q => f \in DOMAIN data /\ data'[f] = data[f]
  BY <1>1, <1>4 DEF Put, Without, Restrict, staged
<1>8. PICK fs : fs = Without(pending.files, {q})
  OBVIOUS
<1>9. IsDisk(fs) /\ Agrees(fs, pending.files)
  BY <1>2, <1>8, DiskWithout DEF Without, Restrict, Agrees
<1>10. /\ pending' = [there |-> pending'.there, files |-> pending'.files,
                      plan |-> pending'.plan]
       /\ pending'.there = pending.there /\ pending'.plan = pending.plan
       /\ pending'.files = fs
  BY <1>1, <1>2, <1>8 DEF TypeOK
<1>11. PICK S : S = {q}
  OBVIOUS
<1>12. \A f \in S : InScope(f)
  BY <1>3, <1>11 DEF InScope
<1>13. \A f \in DOMAIN data' :
              \/ f \in DOMAIN data /\ data'[f] = data[f]
              \/ f \in DOMAIN pending.files /\ data'[f] = pending.files[f]
  BY <1>7
<1>14. /\ TypeOK' /\ TasksProper' /\ PlanProper' /\ Secured'
       /\ StagesAlone' /\ PlansAlone' /\ \A t \in Tasks : task'[t].at = "idle"
  BY <1>1, <1>2, <1>5, <1>6, <1>9, <1>10, <1>11, <1>12, <1>13, BootStep
<1>15. BootProper' /\ RestoreExact'
  BY <1>3, <1>5, <1>10, <1>14 DEF BootProper, RestoreExact
<1>16. PlacedExact'
  <2> SUFFICES ASSUME boot'.clean, pending.plan.alone
               PROVE  /\ \A f \in pending.plan.files \ (boot.left \ {q}) :
                            f \in DOMAIN data' /\ data'[f] = pending.plan.want[f]
                      /\ pending.plan.dirs # {} =>
                            Tree \cap DOMAIN data' \subseteq pending.plan.files
    BY <1>5, <1>10 DEF PlacedExact
  <2>1. s /\ boot.clean
    BY <1>5
  <2>2. /\ \A f \in pending.plan.files \ boot.left :
              f \in DOMAIN data /\ data[f] = pending.plan.want[f]
        /\ pending.plan.dirs # {} => Tree \cap DOMAIN data \subseteq pending.plan.files
    BY <1>1, <2>1 DEF IInv, PlacedExact
  <2>3. pending.files[q] = pending.plan.want[q]
    BY <1>7, <2>1 DEF IInv, PlansAlone, Agrees
  <2> QED
    BY <1>3, <1>7, <2>1, <2>2, <2>3
<1> QED
  BY <1>14, <1>15, <1>16 DEF IInv

LEMMA PlaceFailKeeps ==
    ASSUME IInv, PlaceFail
    PROVE  IInv'
<1> DEFINE q == First(boot.left)
<1>1. /\ boot.at = "place" /\ boot.at # "up" /\ boot.left # {}
      /\ Spend("faults", MaxFaults)
      /\ gone' = gone \cup Destroyed({q})
      /\ data' = Without(data, {q})
      /\ boot' = [boot EXCEPT !.left = @ \ {q}, !.clean = FALSE]
      /\ UNCHANGED <<archive, part, pending, task, clock, discarded, spoilt>>
  BY DEF PlaceFail, Fault
<1>2. TypeOK /\ clock \in Nat /\ clock <= clock /\ IsDisk(data)
  BY DEF IInv, TypeOK
<1>3. q \in boot.left /\ boot.left \subseteq pending.plan.files
  BY <1>1, FirstIn DEF IInv, BootProper
<1> HIDE DEF q
<1>4. /\ boot' \in [at : {"up", "check", "place", "sweep", "load"}, left : SUBSET Files,
                    clean : BOOLEAN]
      /\ boot'.at = "place" /\ boot'.left = boot.left \ {q} /\ ~boot'.clean
  BY <1>1, <1>2 DEF TypeOK
<1>5. IsDisk(data') /\ \A f \in DOMAIN data' : f \in DOMAIN data /\ data'[f] = data[f]
  BY <1>1, <1>2, DiskWithout DEF Without, Restrict
<1>6. PICK S : S = {q}
  OBVIOUS
<1>7. \A f \in S : InScope(f)
  BY <1>3, <1>6 DEF InScope
<1>8. /\ pending' = [there |-> pending'.there, files |-> pending'.files,
                     plan |-> pending'.plan]
      /\ pending'.there = pending.there /\ pending'.plan = pending.plan
      /\ IsDisk(pending'.files)
      /\ Agrees(pending'.files, pending.files)
  BY <1>1, <1>2 DEF TypeOK, Agrees
<1>9. /\ TypeOK' /\ TasksProper' /\ PlanProper' /\ Secured'
      /\ StagesAlone' /\ PlansAlone' /\ \A t \in Tasks : task'[t].at = "idle"
  BY <1>1, <1>2, <1>4, <1>5, <1>6, <1>7, <1>8, BootStep
<1>10. BootProper' /\ RestoreExact' /\ PlacedExact'
  BY <1>1, <1>3, <1>4, <1>9 DEF BootProper, RestoreExact, PlacedExact
<1> QED
  BY <1>9, <1>10 DEF IInv

LEMMA NormalizeKeeps ==
    ASSUME IInv, Normalize
    PROVE  IInv'
<1> DEFINE copy == /\ Legacy \in pending.plan.files /\ Registry \notin pending.plan.files
                   /\ Legacy \in DOMAIN data
<1>1. /\ boot.at = "place" /\ boot.at # "up" /\ boot.left = {}
      /\ data' = IF copy THEN Put(data, Registry, data[Legacy]) ELSE data
      /\ gone' = IF copy THEN gone \cup Destroyed({Registry}) ELSE gone
      /\ boot' = [boot EXCEPT !.at = "sweep"]
      /\ UNCHANGED <<archive, part, pending, task, clock, spent, discarded, spoilt>>
  BY DEF Normalize
<1>2. TypeOK /\ clock \in Nat /\ clock <= clock /\ IsDisk(data)
  BY DEF IInv, TypeOK
<1>3. PICK S : S = IF copy THEN {Registry} ELSE {}
  OBVIOUS
<1>4. \A f \in S : InScope(f)
  BY <1>3, BackupAssumption DEF InScope
<1>5. gone' \subseteq gone \cup Destroyed(S)
  BY <1>1, <1>3
<1>6. /\ boot' \in [at : {"up", "check", "place", "sweep", "load"}, left : SUBSET Files,
                    clean : BOOLEAN]
      /\ boot'.at = "sweep" /\ boot'.left = {} /\ boot'.clean = boot.clean
  BY <1>1, <1>2 DEF TypeOK
<1>7. IsDisk(data')
  BY <1>1, <1>2, BackupAssumption, DiskFacts, DiskPut
<1>8. /\ ~copy => data' = data
      /\ copy => /\ DOMAIN data' = DOMAIN data \cup {Registry}
                 /\ data'[Registry] = data[Legacy]
                 /\ \A f \in DOMAIN data : f # Registry => data'[f] = data[f]
  BY <1>1 DEF Put
<1>9. /\ pending' = [there |-> pending'.there, files |-> pending'.files,
                     plan |-> pending'.plan]
      /\ pending'.there = pending.there /\ pending'.plan = pending.plan
      /\ IsDisk(pending'.files)
      /\ Agrees(pending'.files, pending.files)
  BY <1>1, <1>2 DEF TypeOK, Agrees
<1>10. \A f \in DOMAIN data' :
              \/ f \in DOMAIN data /\ data'[f] = data[f]
              \/ \E g \in DOMAIN data : Component[g] = Component[f] /\ data'[f] = data[g]
  BY <1>8, BackupAssumption
<1>11. /\ TypeOK' /\ TasksProper' /\ PlanProper' /\ Secured'
       /\ StagesAlone' /\ PlansAlone' /\ \A t \in Tasks : task'[t].at = "idle"
  BY <1>1, <1>2, <1>4, <1>5, <1>6, <1>7, <1>9, <1>10, BootStep
<1>12. BootProper' /\ PlacedExact'
  BY <1>6, <1>11 DEF BootProper, PlacedExact
<1>13. RestoreExact'
  <2> SUFFICES ASSUME boot.clean, pending.plan.alone
               PROVE  /\ \A f \in pending.plan.files :
                            f \in DOMAIN data' /\ data'[f] = pending.plan.want[f]
                      /\ pending.plan.dirs # {} =>
                            Tree \cap DOMAIN data' = Tree \cap pending.plan.files
                      /\ Legacy \in pending.plan.files /\ Registry \notin pending.plan.files
                            => data'[Registry] = pending.plan.want[Legacy]
    BY <1>1, <1>6 DEF RestoreExact
  <2>1. /\ \A f \in pending.plan.files :
              f \in DOMAIN data /\ data[f] = pending.plan.want[f]
        /\ pending.plan.dirs # {} => Tree \cap DOMAIN data \subseteq pending.plan.files
    BY <1>1 DEF IInv, PlacedExact
  <2>2. Registry \notin Tree
    BY BackupAssumption
  <2>3. CASE copy
    BY <1>8, <2>1, <2>2, <2>3
  <2>4. CASE ~copy
    BY <1>8, <2>1, <2>4
  <2> QED
    BY <2>3, <2>4
<1> QED
  BY <1>11, <1>12, <1>13 DEF IInv

LEMMA SweepKeeps ==
    ASSUME IInv, Sweep
    PROVE  IInv'
<1>1. /\ boot.at # "up" /\ Discard
      /\ boot' = [boot EXCEPT !.at = "load"]
      /\ UNCHANGED <<data, archive, part, task, clock, gone, discarded, spoilt>>
  BY DEF Sweep, history
<1> QED
  BY <1>1, DiscardKeeps

LEMMA LoadKeeps ==
    ASSUME IInv, Load
    PROVE  IInv'
<1> DEFINE loaded == IF Keys \in DOMAIN data THEN data
                     ELSE Put(data, Keys, <<Keys, clock + 1>>)
<1>1. /\ boot.at = "load" /\ boot.at # "up"
      /\ clock' = IF Keys \in DOMAIN data THEN clock ELSE clock + 1
      /\ data' = IF Registry \notin DOMAIN data /\ Legacy \in DOMAIN data
                 THEN Put(loaded, Registry, data[Legacy]) ELSE loaded
      /\ boot' = Up
      /\ UNCHANGED <<archive, part, pending, task, spent, gone, discarded, spoilt>>
  BY DEF Load, history
<1>2. TypeOK /\ clock \in Nat /\ IsDisk(data)
  BY DEF IInv, TypeOK
<1>3. clock' \in Nat /\ clock <= clock' /\ clock + 1 \in Nat
  BY <1>1, <1>2
<1>4. /\ boot' \in [at : {"up", "check", "place", "sweep", "load"}, left : SUBSET Files,
                    clean : BOOLEAN]
      /\ boot'.at = "up"
  BY <1>1 DEF Up
<1>5. PICK v : v = <<Keys, clock + 1>>
  OBVIOUS
<1>6. v \in Files \X Nat /\ v[2] = clock + 1
  BY <1>3, <1>5, BackupAssumption
<1>7. loaded = IF Keys \in DOMAIN data THEN data ELSE Put(data, Keys, v)
  BY <1>5
<1> HIDE DEF loaded
<1>8. IsDisk(loaded)
  BY <1>2, <1>6, <1>7, BackupAssumption, DiskPut
<1>9. \A f \in DOMAIN loaded : \/ f \in DOMAIN data /\ loaded[f] = data[f]
                               \/ loaded[f][2] = clock + 1
  BY <1>6, <1>7 DEF Put
<1>10. IsDisk(data')
  BY <1>1, <1>2, <1>8, BackupAssumption, DiskFacts, DiskPut
<1>11. \A f \in DOMAIN data' :
              \/ f \in DOMAIN data /\ data'[f] = data[f]
              \/ \E g \in DOMAIN data : Component[g] = Component[f] /\ data'[f] = data[g]
              \/ data'[f][2] = clock + 1
  <2>1. CASE Registry \notin DOMAIN data /\ Legacy \in DOMAIN data
    <3>1. data' = Put(loaded, Registry, data[Legacy])
      BY <1>1, <2>1
    <3>2. /\ data'[Registry] = data[Legacy]
          /\ \A f \in DOMAIN data' : f # Registry => f \in DOMAIN loaded /\ data'[f] = loaded[f]
      BY <3>1 DEF Put
    <3>3. Component[Legacy] = Component[Registry]
      BY BackupAssumption
    <3> QED
      BY <1>9, <2>1, <3>2, <3>3
  <2>2. CASE ~(Registry \notin DOMAIN data /\ Legacy \in DOMAIN data)
    BY <1>1, <1>9, <2>2
  <2> QED
    BY <2>1, <2>2
<1>12. /\ pending' = [there |-> pending'.there, files |-> pending'.files,
                      plan |-> pending'.plan]
       /\ pending'.there = pending.there /\ pending'.plan = pending.plan
       /\ IsDisk(pending'.files)
       /\ Agrees(pending'.files, pending.files)
  BY <1>1, <1>2 DEF TypeOK, Agrees
<1>13. PICK S : S = {}
  OBVIOUS
<1>14. /\ \A f \in S : InScope(f)
       /\ gone' \subseteq gone \cup Destroyed(S)
       /\ UNCHANGED <<archive, part, task, spent, discarded, spoilt>>
       /\ boot.at # "up" /\ clock' \in Nat /\ clock <= clock'
  BY <1>1, <1>3, <1>13
<1>15. /\ TypeOK' /\ TasksProper' /\ PlanProper' /\ Secured'
       /\ StagesAlone' /\ PlansAlone' /\ \A t \in Tasks : task'[t].at = "idle"
  BY <1>4, <1>10, <1>11, <1>12, <1>14, BootStep
<1>16. BootProper' /\ PlacedExact' /\ RestoreExact'
  BY <1>4 DEF BootProper, PlacedExact, RestoreExact
<1> QED
  BY <1>15, <1>16 DEF IInv

-----------------------------------------------------------------------------
(***************************************************************************)
(* The theorems.                                                           *)
(***************************************************************************)

LEMMA Initially == Init => IInv
<1> SUFFICES ASSUME Init
             PROVE  IInv
  OBVIOUS
<1>1. PICK S \in Starts : data = [f \in S |-> <<f, 1>>]
  BY DEF Init
<1>2. PICK F \in Foreign, k \in Slots :
        archive = Put(Empty, <<"uploaded", k>>, Foreigner(F))
  BY DEF Init
<1>3. /\ part = Empty /\ pending = NoPending /\ task = [t \in Tasks |-> Idle]
      /\ boot = Up /\ clock = 1 /\ spent = [requests |-> 0, edits |-> 0, faults |-> 0]
      /\ gone = {} /\ discarded = {} /\ spoilt = FALSE
  BY DEF Init
<1>4. IsDisk(data)
  BY <1>1, BackupAssumption DEF IsDisk
<1>5. \A n \in DOMAIN archive : n \in Names /\ IsArchive(archive[n])
  <2>1. PICK n : n = <<"uploaded", k>>
    OBVIOUS
  <2>2. PICK a : a = Foreigner(F)
    OBVIOUS
  <2>3. n \in Names /\ IsArchive(a)
    BY <2>1, <2>2, BackupAssumption, ForeignerFacts DEF Names
  <2>4. archive = Put(Empty, n, a)
    BY <1>2, <2>1, <2>2
  <2>5. DOMAIN archive = {n} /\ archive[n] = a
    BY <2>4, EmptyDisk DEF Put
  <2> QED
    BY <2>3, <2>5
<1>6. /\ boot.at = "up"
      /\ boot \in [at : {"up", "check", "place", "sweep", "load"}, left : SUBSET Files,
                   clean : BOOLEAN]
  BY <1>3 DEF Up
<1>7. TypeOK
  <2>1. spent \in [requests : 0 .. MaxRequests, edits : 0 .. MaxEdits,
                   faults : 0 .. MaxFaults]
    BY <1>3, BackupAssumption
  <2>2. task = [u \in Tasks |-> task[u]] /\ \A u \in Tasks : IsTask(task[u])
    BY <1>3, IdleFacts
  <2>3. /\ pending = [there |-> pending.there, files |-> pending.files,
                      plan |-> pending.plan]
        /\ pending.there \in BOOLEAN /\ IsDisk(pending.files) /\ IsPlan(pending.plan)
    BY <1>3, NoPendingFacts, NoPlanFacts, EmptyDisk
  <2>4. DOMAIN part = {}
    BY <1>3, EmptyDisk
  <2> QED
    BY <1>3, <1>4, <1>5, <1>6, <2>1, <2>2, <2>3, <2>4 DEF TypeOK
<1>8. \A t \in Tasks : task[t] = Idle
  BY <1>3
<1>9. TasksProper /\ StagesAlone
  BY <1>3, <1>8, IdleFacts, EmptyDisk DEF TasksProper, Bare, Scoped, StagesAlone
<1>10. PlanProper /\ PlansAlone
  BY <1>3, NoPendingFacts, NoPlanFacts DEF PlanProper, PlansAlone
<1>11. BootProper /\ PlacedExact /\ RestoreExact
  BY <1>6 DEF BootProper, PlacedExact, RestoreExact
<1>12. Secured
  <2>1. \A t \in Tasks : PartOwn(t) /\ SavePays(t) /\ AllKept(task[t].src)
    BY <1>8, IdleFacts, EmptyDisk DEF PartOwn, SavePays, AllKept, Packing
  <2>2. AllKept(pending.files) /\ PlanPaid
    BY <1>3, NoPendingFacts, NoPlanFacts, EmptyDisk DEF AllKept, PlanPaid, InScope
  <2> QED
    BY <1>3, <2>1, <2>2 DEF Secured, Net
<1> QED
  BY <1>7, <1>9, <1>10, <1>11, <1>12 DEF IInv

LEMMA Inductive == IInv /\ [Next]_vars => IInv'
<1> SUFFICES ASSUME IInv, [Next]_vars
             PROVE  IInv'
  OBVIOUS
<1>1. CASE UNCHANGED vars
  BY <1>1 DEF vars, IInv, TypeOK, TasksProper, Bare, Scoped, PlanProper, BootProper,
     Secured, Net, PartOwn, Packing, SavePays, Owes, Packed, AllKept, Kept, PlanPaid,
     InScope, StagesAlone, PlansAlone, Staging, PlacedExact, RestoreExact
<1>2. ASSUME NEW t \in Tasks, NEW cs \in SUBSET Components, StartCreate(t, cs)
      PROVE  IInv'
  BY <1>2, StartCreateKeeps
<1>3. ASSUME NEW t \in Tasks, NEW cs \in SUBSET Components, NEW n \in DOMAIN archive,
             StartRestore(t, n, cs)
      PROVE  IInv'
  BY <1>3, StartRestoreKeeps
<1>4. ASSUME NEW t \in Tasks,
             \/ Pack(t) \/ PackFail(t) \/ Seal(t)
             \/ Stage(t) \/ StageFail(t) \/ Save(t) \/ Commit(t)
      PROVE  IInv'
  BY <1>4, PackKeeps, PackFailKeeps, SealKeeps, StageKeeps, StageFailKeeps, SaveKeeps,
     CommitKeeps
<1>5. CASE Cancel
  BY <1>5, CancelKeeps
<1>6. ASSUME NEW n \in DOMAIN archive, Delete(n)
      PROVE  IInv'
  BY <1>6, DeleteKeeps
<1>7. ASSUME NEW S \in Foreign, Upload(S)
      PROVE  IInv'
  BY <1>7, UploadKeeps
<1>8. ASSUME NEW f \in Files, Write(f) \/ Unlink(f)
      PROVE  IInv'
  BY <1>8, WriteKeeps, UnlinkKeeps
<1>9. CASE Restart \/ ApplyNothing \/ Apply \/ Place \/ PlaceFail \/ Normalize \/ Sweep \/ Load
  BY <1>9, RestartKeeps, ApplyNothingKeeps, ApplyKeeps, PlaceKeeps, PlaceFailKeeps,
     NormalizeKeeps, SweepKeeps, LoadKeeps
<1> QED
  BY <1>1, <1>2, <1>3, <1>4, <1>5, <1>6, <1>7, <1>8, <1>9 DEF Next

\* IInv holds in every reachable state.
THEOREM Invariance == Spec => []IInv
BY Initially, Inductive, PTL DEF Spec

\* Every variable keeps its type.
THEOREM TypeCorrect == Spec => []TypeOK
<1>1. IInv => TypeOK
  BY DEF IInv
<1> QED
  BY <1>1, Invariance, PTL

\* finalize_staging and apply_pending_restore: what a restore destroys of what
\* the node held when it was staged is in a readable archive, unless the user
\* deleted it or two requests shared a .part, whichever requests ran together,
\* wherever the node died and however often the plan was applied.
THEOREM NothingLost == Spec => []SafetyNet
<1>1. IInv => SafetyNet
  <2> SUFFICES ASSUME IInv, ~spoilt, NEW c \in gone \ discarded
               PROVE  \E a \in Range(archive) : a.whole /\ c \in Range(a.files)
    BY DEF SafetyNet
  <2>1. Kept(c)
    BY DEF IInv, Secured, Net
  <2>2. PICK n \in DOMAIN archive : archive[n].whole /\ c \in Range(archive[n].files)
    BY <2>1 DEF Kept
  <2>3. archive[n] \in Range(archive)
    BY DEF Range
  <2> QED
    BY <2>2, <2>3
<1> QED
  BY <1>1, Invariance, PTL

\* stage_restore and apply_pending_restore: a restore that had the staging
\* directory to itself and was applied without a failure gives back its
\* archive and nothing else in the xite's tree.
THEOREM RestoresExactly == Spec => []RestoreExact
<1>1. IInv => RestoreExact
  BY DEF IInv
<1> QED
  BY <1>1, Invariance, PTL

=============================================================================
