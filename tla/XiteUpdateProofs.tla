-------------------------- MODULE XiteUpdateProofs --------------------------
(***************************************************************************)
(* Proofs about XiteUpdate, for every number of nodes, files, versions and *)
(* tasks: a node that had one update at a time holds what its content.json *)
(* declares, or what the one declares that it could not write              *)
(* (UntangledConsistent).                                                  *)
(*                                                                         *)
(* The argument.  As long as all the tasks at work on a node are at work   *)
(* on one version, a file that one of them places is a file the others     *)
(* want: so what files_needed found (Check) still holds when it is acted   *)
(* on (Land), and what was committed still holds when it is adopted        *)
(* (Adopt), although the lock was let go in between.  A node without a     *)
(* task at work then has either committed the files it placed or deferred  *)
(* them.  That the owner is never behind (OwnerAhead) is what keeps        *)
(* updates off the owner itself.                                           *)
(*                                                                         *)
(* The second part is about UserContent, the directory of one user whose   *)
(* content.json travels by the same pushes and passes: an archived user    *)
(* stays gone (ArchivedGone) and a record that no signer made stays where  *)
(* it was written (StraysStay), in every order of its steps.               *)
(***************************************************************************)
EXTENDS XiteUpdate, UserDirectory, TLAPS

-----------------------------------------------------------------------------
(***************************************************************************)
(* The inductive invariant.                                                *)
(***************************************************************************)

\* No version is anywhere before the owner has signed it, and nothing is ever
\* at work on the owner.
OwnerAhead ==
    /\ mem[Owner] = disk[Owner]
    /\ file[Owner] = Manifest[disk[Owner]]
    /\ unwritten[Owner] = 0
    /\ \A t \in Tasks : task[Owner][t].at = "idle"
    /\ \A n \in Nodes : /\ disk[n] <= disk[Owner]
                        /\ pending[n] <= disk[Owner]
                        /\ \A t \in Tasks : task[n][t].v <= disk[Owner]
    /\ \A p \in pushes : p.v <= disk[Owner]
    /\ \A q \in pulls : q.at # Owner

\* A task past its probe has a version that was signed, and one that is only
\* marked in flight is not committed.
Staged(r) ==
    /\ r.at \in {"stage", "sync", "fetch", "land", "adopt"} => r.v \in Versions
    /\ r.at = "stage" => r.inline = FALSE

\* A task whose version is on disk, and that is not done with its files.
Committed(r) ==
    r.at = "adopt" \/ (r.inline = TRUE /\ r.at \in {"sync", "fetch"})

TasksStaged == \A n \in Nodes : \A t \in Tasks : Staged(task[n][t])

\* What an untangled node owes: its tasks work on one version; ...
SameVersion(n) ==
    \A t, u \in Working(n) : task[n][t].v = task[n][u].v

\* ... a task that found no file missing is right until it lands; ...
LandTrue(n) ==
    \A t \in Tasks :
        task[n][t].at = "land" /\ task[n][t].need = {} =>
            FilesNeeded(n, task[n][t].v) = {}

\* ... one that committed is right until it is done; ...
AdoptTrue(n) ==
    \A t \in Tasks :
        Committed(task[n][t]) =>
            /\ disk[n] = task[n][t].v /\ FilesNeeded(n, disk[n]) = {}
            /\ unwritten[n] \in {0, disk[n]}

\* ... nobody at work and nothing deferred means nothing half done; ...
RestTrue(n) ==
    Working(n) = {} /\ pending[n] = 0 => FilesNeeded(n, Placed(n)) = {}

\* ... and what is on disk is adopted, or about to be.
MemTrue(n) ==
    mem[n] # disk[n] => \E t \in Tasks : task[n][t].at = "adopt"

Sound(n) ==
    /\ SameVersion(n)
    /\ LandTrue(n)
    /\ AdoptTrue(n)
    /\ RestTrue(n)
    /\ MemTrue(n)

Settled == \A n \in Nodes : ~tangled[n] => Sound(n)

IInv ==
    /\ TypeOK
    /\ OwnerAhead
    /\ TasksStaged
    /\ Settled

\* A step leaves a node's storage and tasks alone.
Untouched(m) ==
    /\ disk'[m] = disk[m] /\ mem'[m] = mem[m] /\ file'[m] = file[m]
    /\ pending'[m] = pending[m] /\ task'[m] = task[m]
    /\ unwritten'[m] = unwritten[m]

\* A step of Next remembers what it tangled.
History ==
    /\ UNCHANGED limit
    /\ tangled' = [n \in Nodes |-> tangled[n] \/ Tangling(n)]

-----------------------------------------------------------------------------
(***************************************************************************)
(* Facts about versions, tasks and records.                                *)
(***************************************************************************)

LEMMA VersionRange ==
    /\ Versions \subseteq Nat
    /\ 0 .. MaxVersion \subseteq Nat
    /\ 0 \in 0 .. MaxVersion /\ 0 \in 0 .. MaxUpsets
    /\ Versions \subseteq 0 .. MaxVersion
    /\ \A v \in 0 .. MaxVersion : v # 0 => v \in Versions
    /\ \A v \in Versions : v # 0
    /\ 1 \in Versions /\ \A v \in Versions : 1 <= v
    /\ Versions \subseteq Tasks /\ Passes \subseteq Tasks /\ Loop \in Passes
BY XiteAssumption DEF Versions, Tasks

LEMMA Names ==
    /\ {"idle", "probe", "stage", "sync", "fetch", "land", "adopt",
        "announce"} = Places
    /\ "sync" # "land" /\ "sync" # "adopt" /\ "sync" # "fetch"
    /\ "stage" # "land" /\ "stage" # "adopt" /\ "stage" # "fetch"
    /\ "stage" # "sync" /\ "idle" # "sync" /\ "probe" # "sync"
    /\ "announce" # "sync" /\ "announce" # "stage"
    /\ "idle" # "stage" /\ "probe" # "stage"
    /\ "fetch" # "land" /\ "fetch" # "adopt" /\ "land" # "adopt"
    /\ "idle" # "land" /\ "idle" # "adopt" /\ "idle" # "fetch"
    /\ "probe" # "land" /\ "probe" # "adopt" /\ "probe" # "fetch"
    /\ "announce" # "land" /\ "announce" # "adopt" /\ "announce" # "fetch"
BY DEF Places

LEMMA IdleType ==
    /\ Idle \in TaskRecord
    /\ Idle.at = "idle" /\ Idle.v = 0 /\ Idle.local = 0 /\ Idle.need = {}
    /\ Idle.inline = FALSE /\ ~Committed(Idle)
<1>1. "idle" \in Places
  BY Names
<1> QED
  BY <1>1, VersionRange, Names DEF Idle, TaskRecord, Committed

\* A step that replaces the record of one task of one node.
LEMMA Turn ==
    ASSUME TypeOK, NEW n \in Nodes, NEW t \in Tasks, NEW r \in TaskRecord,
           task' = [task EXCEPT ![n][t] = r]
    PROVE  /\ task' \in [Nodes -> [Tasks -> TaskRecord]]
           /\ task'[n][t] = r
           /\ \A u \in Tasks \ {t} : task'[n][u] = task[n][u]
           /\ \A m \in Nodes \ {n} : task'[m] = task[m]
BY DEF TypeOK

LEMMA NeededFiles ==
    ASSUME NEW n, NEW v
    PROVE  FilesNeeded(n, v) \in SUBSET Files
BY DEF FilesNeeded

LEMMA HistoryType ==
    ASSUME TypeOK, History
    PROVE  /\ limit' \in [Nodes \ {Owner} -> Limits]
           /\ tangled' \in [Nodes -> BOOLEAN]
           /\ \A n \in Nodes : ~tangled'[n] => ~tangled[n] /\ ~Tangling(n)
<1>1. limit' \in [Nodes \ {Owner} -> Limits]
  BY DEF TypeOK, History
<1>2. tangled' \in [Nodes -> BOOLEAN]
  BY DEF History
<1>3. \A n \in Nodes : tangled'[n] = (tangled[n] \/ Tangling(n))
  BY DEF History
<1> QED
  BY <1>1, <1>2, <1>3

-----------------------------------------------------------------------------
(***************************************************************************)
(* What steps of different shapes do to the invariant.                     *)
(***************************************************************************)

\* A node that is left alone stays sound.
LEMMA UntouchedSound ==
    ASSUME NEW m \in Nodes, Sound(m), Untouched(m)
    PROVE  Sound(m)'
<1>1. Working(m)' = Working(m)
  BY DEF Working, Untouched
<1>2. SameVersion(m)'
  BY <1>1 DEF Sound, SameVersion, Untouched
<1>3. LandTrue(m)' /\ AdoptTrue(m)'
  BY DEF Sound, LandTrue, AdoptTrue, Committed, FilesNeeded, Untouched
<1>4. RestTrue(m)' /\ MemTrue(m)'
  BY <1>1 DEF Sound, RestTrue, MemTrue, Placed, FilesNeeded, Untouched
<1> QED
  BY <1>2, <1>3, <1>4 DEF Sound

\* Steps that leave every node's storage and tasks alone.
LEMMA AllStill ==
    ASSUME IInv, TypeOK',
           UNCHANGED <<disk, unwritten, mem, file, pending, task>>,
           \A p \in pushes' : p.v <= disk[Owner],
           \A q \in pulls' : q.at # Owner,
           \A n \in Nodes : ~tangled'[n] => ~tangled[n]
    PROVE  IInv'
<1>1. OwnerAhead'
  BY DEF IInv, OwnerAhead
<1>2. TasksStaged'
  BY DEF IInv, TasksStaged, Staged
<1>3. \A m \in Nodes : Untouched(m)
  BY DEF Untouched
<1>4. Settled'
  BY <1>3, UntouchedSound DEF IInv, Settled
<1> QED
  BY <1>1, <1>2, <1>4 DEF IInv

\* Steps of one node that is not the owner.
LEMMA NodeStep ==
    ASSUME IInv, NEW n \in Nodes \ {Owner}, TypeOK', History,
           \A m \in Nodes \ {n} : Untouched(m),
           disk'[n] <= disk[Owner], pending'[n] <= disk[Owner],
           \A t \in Tasks : task'[n][t].v <= disk[Owner],
           \A t \in Tasks : Staged(task'[n][t]),
           \A p \in pushes' : p.v <= disk[Owner],
           \A q \in pulls' : q.at # Owner,
           Sound(n) /\ ~Tangling(n) => Sound(n)'
    PROVE  IInv'
<1>1. Owner \in Nodes \ {n}
  BY XiteAssumption
<1>2. OwnerAhead'
  BY <1>1 DEF IInv, OwnerAhead, Untouched
<1>3. TasksStaged'
  <2>1. \A m \in Nodes \ {n} : \A t \in Tasks : Staged(task'[m][t])
    BY DEF IInv, TasksStaged, Untouched
  <2> QED
    BY <2>1 DEF TasksStaged, Staged
<1>4. Settled'
  <2>1. ASSUME NEW m \in Nodes, ~tangled'[m]
        PROVE  Sound(m)'
    <3>1. ~tangled[m] /\ ~Tangling(m)
      BY <2>1, HistoryType DEF IInv
    <3>2. Sound(m)
      BY <3>1 DEF IInv, Settled
    <3>3. CASE m = n
      BY <3>1, <3>2, <3>3
    <3>4. CASE m # n
      BY <3>2, <3>4, UntouchedSound
    <3> QED
      BY <3>3, <3>4
  <2> QED
    BY <2>1 DEF Settled
<1> QED
  BY <1>2, <1>3, <1>4 DEF IInv

\* A task whose step claims no more than is so, and leaves the work only when
\* its version is on disk.
LEMMA TurnSound ==
    ASSUME NEW n \in Nodes, NEW t \in Tasks, Sound(n), ~Tangling(n),
           \A u \in Tasks \ {t} : task'[n][u] = task[n][u],
           disk'[n] = disk[n], mem'[n] = mem[n], file'[n] = file[n],
           pending'[n] = pending[n], unwritten'[n] = unwritten[n],
           task[n][t].at # "adopt",
           Committed(task'[n][t]) =>
               Committed(task[n][t]) /\ task'[n][t].v = task[n][t].v,
           t \in Working(n) => t \in Working(n)' \/ Committed(task[n][t]),
           task'[n][t].at = "land" /\ task'[n][t].need = {}
               => FilesNeeded(n, task'[n][t].v) = {}
    PROVE  Sound(n)'
<1>1. SameVersion(n)'
  BY DEF Tangling, SameVersion
<1>2. \A v : FilesNeeded(n, v)' = FilesNeeded(n, v)
  BY DEF FilesNeeded
<1>3. LandTrue(n)'
  BY <1>2 DEF Sound, LandTrue
<1>4. AdoptTrue(n)'
  <2>1. ASSUME NEW u \in Tasks, Committed(task'[n][u])
        PROVE  /\ disk[n] = task'[n][u].v /\ FilesNeeded(n, disk[n]) = {}
               /\ unwritten[n] \in {0, disk[n]}
    <3>1. Committed(task[n][u]) /\ task'[n][u].v = task[n][u].v
      BY <2>1
    <3> QED
      BY <3>1 DEF Sound, AdoptTrue
  <2>2. FilesNeeded(n, disk[n])' = FilesNeeded(n, disk[n])
    BY DEF FilesNeeded
  <2> QED
    BY <2>1, <2>2 DEF AdoptTrue, Committed
<1>5. FilesNeeded(n, Placed(n))' = FilesNeeded(n, Placed(n))
  BY DEF FilesNeeded, Placed
<1>6. RestTrue(n)'
  <2>1. CASE t \in Working(n) /\ t \notin Working(n)'
    <3>1. /\ FilesNeeded(n, disk[n]) = {}
          /\ unwritten[n] \in {0, disk[n]}
      BY <2>1 DEF Sound, AdoptTrue
    <3>2. Placed(n) = disk[n]
      BY <3>1 DEF Placed
    <3> QED
      BY <1>5, <3>1, <3>2 DEF RestTrue
  <2>2. CASE ~(t \in Working(n) /\ t \notin Working(n)')
    <3>1. Working(n) \subseteq Working(n)'
      BY <2>2 DEF Working
    <3> QED
      BY <1>5, <3>1 DEF Sound, RestTrue
  <2> QED
    BY <2>1, <2>2
<1>7. MemTrue(n)'
  BY DEF Sound, MemTrue
<1> QED
  BY <1>1, <1>3, <1>4, <1>6, <1>7 DEF Sound

\* The same, as a step of the whole state.
LEMMA TurnStep ==
    ASSUME IInv, NEW n \in Nodes \ {Owner}, NEW t \in Tasks,
           NEW r \in TaskRecord, TypeOK', History,
           task' = [task EXCEPT ![n][t] = r],
           UNCHANGED <<disk, unwritten, mem, file, pending>>,
           \A p \in pushes' : p.v <= disk[Owner],
           \A q \in pulls' : q.at # Owner,
           r.v <= disk[Owner], Staged(r),
           task[n][t].at # "adopt",
           Committed(r) => Committed(task[n][t]) /\ r.v = task[n][t].v,
           \/ task[n][t].at \notin {"sync", "fetch", "land"}
           \/ r.at \in {"sync", "fetch", "land"}
           \/ Committed(task[n][t]),
           r.at = "land" /\ r.need = {} => FilesNeeded(n, r.v) = {}
    PROVE  IInv'
<1>1. /\ task'[n][t] = r
      /\ \A u \in Tasks \ {t} : task'[n][u] = task[n][u]
      /\ \A m \in Nodes \ {n} : task'[m] = task[m]
  BY Turn DEF IInv
<1>2. \A m \in Nodes \ {n} : Untouched(m)
  BY <1>1 DEF Untouched
<1>3. disk'[n] <= disk[Owner] /\ pending'[n] <= disk[Owner]
  BY DEF IInv, OwnerAhead
<1>4. \A u \in Tasks : task'[n][u].v <= disk[Owner]
  BY <1>1 DEF IInv, OwnerAhead
<1>5. \A u \in Tasks : Staged(task'[n][u])
  BY <1>1 DEF IInv, TasksStaged
<1>6. t \in Working(n) => t \in Working(n)' \/ Committed(task[n][t])
  BY <1>1 DEF Working
<1>7. Sound(n) /\ ~Tangling(n) => Sound(n)'
  BY <1>1, <1>6, TurnSound
<1> QED
  BY <1>2, <1>3, <1>4, <1>5, <1>7, NodeStep

-----------------------------------------------------------------------------
(***************************************************************************)
(* The steps, one by one.                                                  *)
(***************************************************************************)

\* A published body carries the version on the publisher's disk.
LEMMA PublishType ==
    ASSUME IInv, NEW n \in Nodes, NEW v \in Versions, v <= disk'[Owner],
           disk[Owner] <= disk'[Owner], disk'[Owner] \in Versions,
           NEW S \in SUBSET (Nodes \ {n}),
           pushes' = pushes \cup {[to |-> m, from |-> n, v |-> v] : m \in S}
    PROVE  /\ pushes' \in SUBSET [to : Nodes, from : Nodes, v : Versions]
           /\ \A p \in pushes' : p.v <= disk'[Owner]
<1>1. pushes' \in SUBSET [to : Nodes, from : Nodes, v : Versions]
  BY DEF IInv, TypeOK
<1>2. ASSUME NEW p \in pushes
      PROVE  p.v <= disk'[Owner]
  <2>1. p.v <= disk[Owner] /\ p.v \in Versions
    BY <1>2 DEF IInv, OwnerAhead, TypeOK
  <2>2. disk[Owner] \in Versions
    BY XiteAssumption DEF IInv, TypeOK
  <2>3. p.v \in Nat /\ disk[Owner] \in Nat /\ disk'[Owner] \in Nat
    BY <2>1, <2>2, VersionRange
  <2> QED
    BY <2>1, <2>3
<1>3. \A p \in pushes' : p \in pushes \/ p.v = v
  OBVIOUS
<1> QED
  BY <1>1, <1>2, <1>3

\* The owner signs the next version: no version runs ahead of it.
LEMMA SignStep ==
    ASSUME IInv, SignAndPublish, History
    PROVE  IInv'
<1>0. TypeOK /\ OwnerAhead /\ Owner \in Nodes
  BY XiteAssumption DEF IInv
<1>1. PICK v \in Versions :
        /\ v = disk[Owner] + 1
        /\ disk' = [disk EXCEPT ![Owner] = v]
        /\ mem' = [mem EXCEPT ![Owner] = v]
        /\ file' = [file EXCEPT ![Owner] = Manifest[v]]
        /\ \E S \in SUBSET (Nodes \ {Owner}) :
              pushes' = pushes \cup
                  {[to |-> m, from |-> Owner, v |-> v] : m \in S}
  BY DEF SignAndPublish
<1>2. UNCHANGED <<unwritten, pending, bad, task, pulls, serving, upsets>>
  BY DEF SignAndPublish
<1>3. disk[Owner] \in Versions /\ disk[Owner] \in Nat
  BY <1>0, VersionRange DEF TypeOK
<1>4. disk'[Owner] = v /\ disk[Owner] <= v /\ v <= v /\ v \in Nat
  BY <1>0, <1>1, <1>3, VersionRange DEF TypeOK
<1>5. /\ pushes' \in SUBSET [to : Nodes, from : Nodes, v : Versions]
      /\ \A p \in pushes' : p.v <= disk'[Owner]
  <2>1. PICK S \in SUBSET (Nodes \ {Owner}) :
           pushes' = pushes \cup {[to |-> m, from |-> Owner, v |-> v] : m \in S}
    BY <1>1
  <2> QED
    BY <1>0, <1>4, <2>1, PublishType
<1>6. disk' \in [Nodes -> Versions] /\ mem' \in [Nodes -> Versions]
  BY <1>0, <1>1 DEF TypeOK
<1>7. /\ Manifest[v] \in [Files -> Contents]
      /\ \A f \in Files : Manifest[v][f] \in {Manifest[w][f] : w \in Versions}
  BY XiteAssumption DEF Contents
<1>8. file' \in [Nodes -> [Files -> Contents]]
  BY <1>0, <1>1, <1>7 DEF TypeOK
<1>9. \A n \in Nodes : file'[n] = IF n = Owner THEN Manifest[v] ELSE file[n]
  BY <1>0, <1>1 DEF TypeOK
<1>10. \A n \in Nodes : \A f \in Files :
         file'[n][f] \in {Manifest[w][f] : w \in Versions}
  BY <1>0, <1>7, <1>9 DEF TypeOK
<1>11. TypeOK'
  BY <1>0, <1>2, <1>5, <1>6, <1>8, <1>10, HistoryType DEF TypeOK
<1>12. \A m \in Nodes \ {Owner} : Untouched(m)
  BY <1>0, <1>1, <1>2 DEF Untouched, TypeOK
<1>13. OwnerAhead'
  <2>1. mem'[Owner] = disk'[Owner] /\ file'[Owner] = Manifest[disk'[Owner]]
    BY <1>0, <1>1, <1>4, <1>9 DEF TypeOK
  <2>2. ASSUME NEW n \in Nodes
        PROVE  /\ disk'[n] <= v /\ pending[n] <= v
               /\ \A t \in Tasks : task[n][t].v <= v
    <3>1. disk[n] \in Nat /\ pending[n] \in Nat
      BY <1>0, VersionRange DEF TypeOK
    <3>2. disk'[n] = IF n = Owner THEN v ELSE disk[n]
      BY <1>0, <1>1 DEF TypeOK
    <3>3. disk[n] <= disk[Owner] /\ pending[n] <= disk[Owner]
      BY <1>0 DEF OwnerAhead
    <3>4. disk'[n] <= v /\ pending[n] <= v
      BY <1>1, <1>3, <1>4, <3>1, <3>2, <3>3
    <3>5. ASSUME NEW t \in Tasks
          PROVE  task[n][t].v <= v
      <4>1. task[n][t].v \in Nat
        BY <1>0, VersionRange DEF TypeOK, TaskRecord
      <4>2. task[n][t].v <= disk[Owner]
        BY <1>0 DEF OwnerAhead
      <4> QED
        BY <1>1, <1>3, <4>1, <4>2
    <3> QED
      BY <3>4, <3>5
  <2> QED
    BY <1>0, <1>2, <1>4, <1>5, <2>1, <2>2 DEF OwnerAhead
<1>14. TasksStaged'
  BY <1>2 DEF IInv, TasksStaged, Staged
<1>15. Sound(Owner)'
  <2>1. \A t \in Tasks : task'[Owner][t].at = "idle"
    BY <1>0, <1>2 DEF OwnerAhead
  <2>2. Working(Owner)' = {}
    BY <2>1 DEF Working
  <2>3. FilesNeeded(Owner, disk[Owner])' = {}
    BY <1>0, <1>4, <1>9 DEF FilesNeeded
  <2>4. mem'[Owner] = disk'[Owner]
    BY <1>0, <1>1 DEF TypeOK
  <2>5. FilesNeeded(Owner, Placed(Owner))' = {}
    BY <1>0, <1>2, <2>3 DEF Placed, OwnerAhead, FilesNeeded
  <2>6. \A t \in Tasks : ~Committed(task'[Owner][t])
    BY <2>1, Names DEF Committed
  <2>7. SameVersion(Owner)' /\ LandTrue(Owner)' /\ MemTrue(Owner)'
    BY <2>1, <2>2, <2>4, Names DEF SameVersion, LandTrue, MemTrue
  <2>8. AdoptTrue(Owner)'
    BY <2>6 DEF AdoptTrue, Committed
  <2> QED
    BY <2>5, <2>7, <2>8 DEF Sound, RestTrue
<1>16. Settled'
  <2>1. ASSUME NEW m \in Nodes, ~tangled'[m], m # Owner
        PROVE  Sound(m)'
    <3>1. Sound(m)
      BY <1>0, <2>1, HistoryType DEF IInv, Settled
    <3> QED
      BY <1>12, <2>1, <3>1, UntouchedSound
  <2> QED
    BY <1>15, <2>1 DEF Settled
<1> QED
  BY <1>11, <1>13, <1>14, <1>16 DEF IInv

\* A push is lost, a body does not come: nothing else changes.
LEMMA LosePushStep ==
    ASSUME IInv, NEW p \in pushes, LosePush(p), History
    PROVE  IInv'
<1>1. TypeOK'
  BY HistoryType DEF IInv, TypeOK, LosePush
<1>2. \A x \in pushes' : x.v <= disk[Owner]
  BY DEF IInv, OwnerAhead, LosePush
<1>3. \A q \in pulls' : q.at # Owner
  BY DEF IInv, OwnerAhead, LosePush
<1> QED
  BY <1>1, <1>2, <1>3, HistoryType, AllStill DEF LosePush, IInv

LEMMA PullFailsStep ==
    ASSUME IInv, NEW q \in pulls, PullFails(q), History
    PROVE  IInv'
<1>1. TypeOK'
  BY HistoryType DEF IInv, TypeOK, PullFails
<1>2. \A p \in pushes' : p.v <= disk[Owner]
  BY DEF IInv, OwnerAhead, PullFails
<1>3. \A x \in pulls' : x.at # Owner
  BY DEF IInv, OwnerAhead, PullFails
<1> QED
  BY <1>1, <1>2, <1>3, HistoryType, AllStill DEF PullFails, IInv

\* A version that has arrived is dropped or marked in flight, on a node that
\* is not the owner.
LEMMA ApplyStep ==
    ASSUME IInv, NEW n \in Nodes \ {Owner}, NEW w \in Versions,
           w <= disk[Owner], NEW have, ApplyInbound(n, w, have), History,
           UNCHANGED <<disk, unwritten, mem, file, pending, bad, serving,
                       upsets>>,
           pushes' \in SUBSET pushes, pulls' \in SUBSET pulls
    PROVE  IInv'
<1>0. TypeOK
  BY DEF IInv
<1>1. /\ \A p \in pushes' : p.v <= disk[Owner]
      /\ \A q \in pulls' : q.at # Owner
  BY DEF IInv, OwnerAhead
<1>2. CASE UNCHANGED task
  <2>1. TypeOK'
    BY <1>0, <1>2, HistoryType DEF TypeOK
  <2> QED
    BY <1>0, <1>1, <1>2, <2>1, HistoryType, AllStill
<1>3. CASE ~UNCHANGED task
  <2>1. PICK r : r = [Idle EXCEPT !.at = "stage", !.v = w]
    OBVIOUS
  <2>2. task' = [task EXCEPT ![n][w] = r] /\ task[n][w].at = "idle"
    BY <1>3, <2>1 DEF ApplyInbound, InFlight
  <2>3. "stage" \in Places
    BY Names
  <2>4. /\ r \in TaskRecord /\ r.at = "stage" /\ r.v = w
        /\ r.inline = FALSE
    BY <2>1, <2>3, IdleType, VersionRange DEF TaskRecord
  <2>5. Staged(r) /\ ~Committed(r) /\ r.v <= disk[Owner]
    BY <2>4, Names DEF Staged, Committed
  <2>6. w \in Tasks
    BY VersionRange
  <2>7. task' \in [Nodes -> [Tasks -> TaskRecord]]
    BY <1>0, <2>2, <2>4, <2>6, Turn
  <2>8. TypeOK'
    BY <1>0, <2>7, HistoryType DEF TypeOK
  <2> QED
    BY <1>1, <2>2, <2>4, <2>5, <2>6, <2>8, TurnStep, Names
<1> QED
  BY <1>2, <1>3

\* A push is delivered; the owner refuses every one.
LEMMA DeliverStep ==
    ASSUME IInv, NEW p \in pushes, Deliver(p), History
    PROVE  IInv'
<1>0. TypeOK /\ OwnerAhead
  BY DEF IInv
<1>1. /\ p.to \in Nodes /\ p.from \in Nodes /\ p.v \in Versions
      /\ p.v <= disk[Owner]
  BY <1>0 DEF TypeOK, OwnerAhead
<1>2. /\ UNCHANGED <<disk, unwritten, mem, file, pending, bad, serving,
                   upsets>>
      /\ pushes' = pushes \ {p}
  BY DEF Deliver
<1>3. \A x \in pushes' : x.v <= disk[Owner]
  BY <1>0, <1>2 DEF OwnerAhead
<1>4. CASE ~serving[p.to] \/ p.v <= mem[p.to]
  <2>1. UNCHANGED <<task, pulls>>
    BY <1>4 DEF Deliver
  <2>2. TypeOK'
    BY <1>0, <1>2, <2>1, HistoryType DEF TypeOK
  <2>3. \A q \in pulls' : q.at # Owner
    BY <1>0, <2>1 DEF OwnerAhead
  <2> QED
    BY <1>0, <1>2, <1>3, <2>1, <2>2, <2>3, HistoryType, AllStill
<1>5. CASE ~(~serving[p.to] \/ p.v <= mem[p.to])
  <2>1. p.to \in Nodes \ {Owner}
    BY <1>0, <1>1, <1>5 DEF OwnerAhead
  <2>2. CASE p.v \in Inline
    <3>1. ApplyInbound(p.to, p.v, mem[p.to]) /\ UNCHANGED pulls
      BY <1>5, <2>2 DEF Deliver
    <3> QED
      BY <1>1, <1>2, <2>1, <3>1, ApplyStep
  <2>3. CASE p.v \notin Inline
    <3>1. UNCHANGED task /\ pulls' = pulls \cup
              {[at |-> p.to, from |-> p.from, local |-> mem[p.to]]}
      BY <1>5, <2>3 DEF Deliver
    <3>2. mem[p.to] \in Versions
      BY <1>0, <1>1 DEF TypeOK
    <3>3. pulls' \in SUBSET [at : Nodes, from : Nodes, local : Versions]
      BY <1>0, <1>1, <3>1, <3>2 DEF TypeOK
    <3>4. TypeOK'
      BY <1>0, <1>2, <3>1, <3>3, HistoryType DEF TypeOK
    <3>5. \A q \in pulls' : q.at # Owner
      BY <1>0, <2>1, <3>1 DEF OwnerAhead
    <3> QED
      BY <1>0, <1>2, <1>3, <3>1, <3>4, <3>5, HistoryType, AllStill
  <2> QED
    BY <2>2, <2>3
<1> QED
  BY <1>4, <1>5

\* The body that was asked back for arrives.
LEMMA PullBodyStep ==
    ASSUME IInv, NEW q \in pulls, PullBody(q), History
    PROVE  IInv'
<1>1. q.at \in Nodes \ {Owner} /\ q.from \in Nodes
  BY DEF IInv, TypeOK, OwnerAhead
<1>2. disk[q.from] \in Versions /\ disk[q.from] <= disk[Owner]
  BY <1>1 DEF IInv, TypeOK, OwnerAhead
<1> QED
  BY <1>1, <1>2, ApplyStep DEF PullBody

\* What a step makes of a task at one of its turns.
LEMMA TurnType ==
    ASSUME IInv, NEW n \in Nodes \ {Owner}, NEW t \in Tasks,
           NEW r \in TaskRecord, task' = [task EXCEPT ![n][t] = r], History,
           UNCHANGED <<disk, unwritten, mem, file, pending, bad, pushes, pulls,
                       serving, upsets>>
    PROVE  /\ TypeOK'
           /\ \A p \in pushes' : p.v <= disk[Owner]
           /\ \A q \in pulls' : q.at # Owner
<1>1. task' \in [Nodes -> [Tasks -> TaskRecord]]
  BY Turn DEF IInv
<1> QED
  BY <1>1, HistoryType DEF IInv, TypeOK, OwnerAhead

\* The marked version is staged, and is to be committed at once when no file
\* is missing.
LEMMA StageStep ==
    ASSUME IInv, NEW n \in Nodes \ {Owner}, NEW v \in Versions, Stage(n, v),
           History
    PROVE  IInv'
<1>0. /\ TypeOK /\ OwnerAhead /\ v \in Tasks /\ task[n][v] \in TaskRecord
      /\ task[n][v].at = "stage"
  BY VersionRange DEF IInv, TypeOK, Stage
<1>1. task[n][v].v \in Versions /\ task[n][v].v <= disk[Owner]
  BY <1>0 DEF IInv, TasksStaged, Staged, OwnerAhead
<1>2. "land" \in Places /\ "sync" \in Places
  BY Names
<1>3. UNCHANGED <<disk, unwritten, mem, file, pending, bad, pushes, pulls,
                  serving, upsets>>
  BY DEF Stage
<1>4. CASE FilesNeeded(n, task[n][v].v) = {}
  <2>1. PICK r : r = [task[n][v] EXCEPT !.at = "land", !.inline = TRUE]
    OBVIOUS
  <2>2. r \in TaskRecord /\ r.at = "land" /\ r.v = task[n][v].v
    BY <1>0, <1>2, <2>1 DEF TaskRecord
  <2>3. task' = [task EXCEPT ![n][v] = r]
    BY <1>4, <2>1 DEF Stage
  <2>4. Staged(r) /\ ~Committed(r)
    BY <1>1, <2>2, Names DEF Staged, Committed
  <2>5. /\ TypeOK'
        /\ \A p \in pushes' : p.v <= disk[Owner]
        /\ \A q \in pulls' : q.at # Owner
    BY <1>0, <1>3, <2>2, <2>3, TurnType
  <2> QED
    BY <1>0, <1>1, <1>3, <1>4, <2>2, <2>3, <2>4, <2>5, TurnStep, Names
<1>5. CASE FilesNeeded(n, task[n][v].v) # {}
  <2>1. PICK r : r = [task[n][v] EXCEPT !.at = "sync"]
    OBVIOUS
  <2>2. /\ r \in TaskRecord /\ r.at = "sync" /\ r.v = task[n][v].v
        /\ r.inline = task[n][v].inline
    BY <1>0, <1>2, <2>1 DEF TaskRecord
  <2>3. task' = [task EXCEPT ![n][v] = r]
    BY <1>5, <2>1 DEF Stage
  <2>4. Staged(r)
    BY <1>1, <2>2 DEF Staged
  <2>5. ~Committed(r)
    BY <1>0, <2>2, Names DEF Committed, IInv, TasksStaged, Staged
  <2>6. /\ TypeOK'
        /\ \A p \in pushes' : p.v <= disk[Owner]
        /\ \A q \in pulls' : q.at # Owner
    BY <1>0, <1>3, <2>2, <2>3, TurnType
  <2> QED
    BY <1>0, <1>1, <1>3, <2>2, <2>3, <2>4, <2>5, <2>6, TurnStep, Names
<1> QED
  BY <1>4, <1>5

\* The marked version is refused and released.
LEMMA StageFailsStep ==
    ASSUME IInv, NEW n \in Nodes \ {Owner}, NEW v \in Versions,
           StageFails(n, v), History
    PROVE  IInv'
<1>0. v \in Tasks /\ task[n][v].at = "stage" /\ disk[Owner] \in Nat
  BY XiteAssumption, VersionRange DEF IInv, TypeOK, StageFails
<1>1. /\ task' = [task EXCEPT ![n][v] = Idle]
      /\ UNCHANGED <<disk, unwritten, mem, file, pending, bad, pushes, pulls,
                     serving, upsets>>
  BY DEF StageFails
<1>2. Idle.v <= disk[Owner] /\ Staged(Idle)
  BY <1>0, IdleType, Names DEF Staged
<1>3. /\ TypeOK'
      /\ \A p \in pushes' : p.v <= disk[Owner]
      /\ \A q \in pulls' : q.at # Owner
  BY <1>0, <1>1, IdleType, TurnType
<1> QED
  BY <1>0, <1>1, <1>2, <1>3, IdleType, TurnStep, Names

\* The files to fetch are listed.
LEMMA SyncStep ==
    ASSUME IInv, NEW n \in Nodes \ {Owner}, NEW v \in Versions, Sync(n, v),
           History
    PROVE  IInv'
<1>0. /\ TypeOK /\ OwnerAhead /\ v \in Tasks /\ task[n][v] \in TaskRecord
      /\ task[n][v].at = "sync"
  BY VersionRange DEF IInv, TypeOK, Sync
<1>1. task[n][v].v \in Versions /\ task[n][v].v <= disk[Owner]
  BY <1>0 DEF IInv, TasksStaged, Staged, OwnerAhead
<1>2. PICK need \in SUBSET Files : need = FilesNeeded(n, task[n][v].v)
  BY NeededFiles
<1>3. PICK r : r = [task[n][v] EXCEPT !.at = "fetch", !.need = need]
  OBVIOUS
<1>4. "fetch" \in Places
  BY Names
<1>5. /\ r \in TaskRecord /\ r.at = "fetch" /\ r.v = task[n][v].v
      /\ r.inline = task[n][v].inline
  BY <1>0, <1>2, <1>3, <1>4 DEF TaskRecord
<1>6. task' = [task EXCEPT ![n][v] = r]
  BY <1>0, <1>2, <1>3 DEF Sync, TypeOK
<1>7. UNCHANGED <<disk, unwritten, mem, file, pending, bad, pushes, pulls,
                  serving, upsets>>
  BY DEF Sync
<1>8. /\ TypeOK'
      /\ \A p \in pushes' : p.v <= disk[Owner]
      /\ \A q \in pulls' : q.at # Owner
  BY <1>0, <1>5, <1>6, <1>7, TurnType
<1>9. Staged(r) /\ (Committed(r) => Committed(task[n][v]))
  BY <1>0, <1>1, <1>5, Names DEF Staged, Committed
<1> QED
  BY <1>0, <1>1, <1>5, <1>6, <1>7, <1>8, <1>9, TurnStep, Names

\* The steps of a task that move it on before it lands.
LEMMA CheckStep ==
    ASSUME IInv, NEW n \in Nodes \ {Owner}, NEW t \in Tasks, Check(n, t), History
    PROVE  IInv'
<1>0. /\ TypeOK /\ OwnerAhead /\ task[n][t] \in TaskRecord
      /\ task[n][t].at = "fetch"
  BY DEF IInv, TypeOK, Check
<1>1. task[n][t].v \in Versions /\ task[n][t].v <= disk[Owner]
  BY <1>0 DEF IInv, TasksStaged, Staged, OwnerAhead
<1>2. UNCHANGED <<disk, unwritten, mem, file, pending, bad, pushes, pulls,
                  serving, upsets>>
  BY DEF Check
<1>3. "land" \in Places /\ "announce" \in Places
  BY Names
<1>4. CASE task[n][t].inline
  <2>1. PICK r : r = [task[n][t] EXCEPT !.at = "announce"]
    OBVIOUS
  <2>2. r \in TaskRecord /\ r.at = "announce" /\ r.v = task[n][t].v
    BY <1>0, <1>3, <2>1 DEF TaskRecord
  <2>3. task' = [task EXCEPT ![n][t] = r]
    BY <1>4, <2>1 DEF Check
  <2>4. Staged(r) /\ ~Committed(r) /\ Committed(task[n][t])
    BY <1>0, <1>4, <2>2, Names DEF Staged, Committed
  <2>5. /\ TypeOK'
        /\ \A p \in pushes' : p.v <= disk[Owner]
        /\ \A q \in pulls' : q.at # Owner
    BY <1>2, <2>2, <2>3, TurnType
  <2> QED
    BY <1>0, <1>1, <1>2, <2>2, <2>3, <2>4, <2>5, TurnStep, Names
<1>5. CASE ~task[n][t].inline
  <2>1. PICK need \in SUBSET Files : need = FilesNeeded(n, task[n][t].v)
    BY NeededFiles
  <2>2. PICK r : r = [task[n][t] EXCEPT !.at = "land", !.need = need]
    OBVIOUS
  <2>3. r \in TaskRecord /\ r.at = "land" /\ r.v = task[n][t].v /\ r.need = need
    BY <1>0, <1>3, <2>1, <2>2 DEF TaskRecord
  <2>4. task' = [task EXCEPT ![n][t] = r]
    BY <1>5, <2>1, <2>2 DEF Check
  <2>5. Staged(r) /\ ~Committed(r)
    BY <1>1, <2>3, Names DEF Staged, Committed
  <2>6. /\ TypeOK'
        /\ \A p \in pushes' : p.v <= disk[Owner]
        /\ \A q \in pulls' : q.at # Owner
    BY <1>2, <2>3, <2>4, TurnType
  <2>7. r.need = {} => FilesNeeded(n, r.v) = {}
    BY <2>1, <2>3
  <2> QED
    BY <1>0, <1>1, <1>2, <2>3, <2>4, <2>5, <2>6, <2>7, TurnStep, Names
<1> QED
  BY <1>4, <1>5

LEMMA MissFileStep ==
    ASSUME IInv, NEW n \in Nodes \ {Owner}, NEW t \in Tasks, NEW f \in Files,
           MissFile(n, t, f), History
    PROVE  IInv'
<1>0. TypeOK /\ OwnerAhead /\ task[n][t] \in TaskRecord
  BY DEF IInv, TypeOK
<1>1. PICK need \in SUBSET Files : need = task[n][t].need \ {f}
  BY <1>0 DEF TaskRecord
<1>2. PICK r : r = [task[n][t] EXCEPT !.need = need]
  OBVIOUS
<1>4. /\ r \in TaskRecord /\ r.at = task[n][t].at /\ r.v = task[n][t].v
      /\ r.inline = task[n][t].inline
  <2>1. r.inline = task[n][t].inline
    BY <1>0, <1>2 DEF TaskRecord
  <2>2. r \in TaskRecord /\ r.at = task[n][t].at /\ r.v = task[n][t].v
    BY <1>0, <1>1, <1>2 DEF TaskRecord
  <2> QED
    BY <2>1, <2>2
<1>a. Committed(r) => Committed(task[n][t])
  BY <1>4 DEF Committed
<1>5. task' = [task EXCEPT ![n][t] = r]
  BY <1>0, <1>1, <1>2 DEF MissFile, TypeOK
<1>6. task' \in [Nodes -> [Tasks -> TaskRecord]]
  BY <1>0, <1>4, <1>5, Turn
<1>7. TypeOK'
  BY <1>0, <1>6, HistoryType DEF TypeOK, MissFile
<1>8. task[n][t].at = "fetch" /\ Staged(task[n][t])
  BY DEF MissFile, IInv, TasksStaged
<1>9. Staged(r) /\ r.v <= disk[Owner]
  BY <1>0, <1>4, <1>8 DEF Staged, OwnerAhead
<1>10. /\ \A p \in pushes' : p.v <= disk[Owner]
       /\ \A q \in pulls' : q.at # Owner
  BY <1>0 DEF OwnerAhead, MissFile
<1> QED
  BY <1>4, <1>5, <1>7, <1>8, <1>9, <1>10, <1>a, TurnStep, Names DEF MissFile

\* A file is placed: every task at work on an untangled node wants just that.
LEMMA FetchFileStep ==
    ASSUME IInv, NEW n \in Nodes \ {Owner}, NEW t \in Tasks, NEW f \in Files,
           FetchFile(n, t, f), History
    PROVE  IInv'
<1>0. TypeOK /\ OwnerAhead /\ task[n][t] \in TaskRecord
  BY DEF IInv, TypeOK
<1>1. PICK need \in SUBSET Files : need = task[n][t].need \ {f}
  BY <1>0 DEF TaskRecord
<1>2. PICK r : r = [task[n][t] EXCEPT !.need = need]
  OBVIOUS
<1>3. /\ r \in TaskRecord /\ r.at = task[n][t].at /\ r.v = task[n][t].v
      /\ r.inline = task[n][t].inline
  <2>1. r.inline = task[n][t].inline
    BY <1>0, <1>2 DEF TaskRecord
  <2>2. r \in TaskRecord /\ r.at = task[n][t].at /\ r.v = task[n][t].v
    BY <1>0, <1>1, <1>2 DEF TaskRecord
  <2> QED
    BY <2>1, <2>2
<1>4. task' = [task EXCEPT ![n][t] = r]
  BY <1>0, <1>1, <1>2 DEF FetchFile, TypeOK
<1>5. /\ task' \in [Nodes -> [Tasks -> TaskRecord]]
      /\ task'[n][t] = r
      /\ \A u \in Tasks \ {t} : task'[n][u] = task[n][u]
      /\ \A m \in Nodes \ {n} : task'[m] = task[m]
  BY <1>0, <1>3, <1>4, Turn
<1>6. /\ task[n][t].at = "fetch" /\ Staged(task[n][t])
      /\ task[n][t].v \in Versions
  BY DEF FetchFile, IInv, TasksStaged, Staged
<1>a. PICK want : want = Manifest[task[n][t].v][f]
  OBVIOUS
<1>b. want \in {Manifest[w][f] : w \in Versions}
  BY <1>6, <1>a
<1>c. want \in Contents
  BY <1>6, <1>a DEF Contents
<1>7. /\ want = Manifest[task[n][t].v][f]
      /\ want \in {Manifest[w][f] : w \in Versions} /\ want \in Contents
      /\ file' = [file EXCEPT ![n][f] = want]
  BY <1>a, <1>b, <1>c DEF FetchFile
<1>8. /\ file' \in [Nodes -> [Files -> Contents]]
      /\ \A m \in Nodes \ {n} : file'[m] = file[m]
      /\ \A g \in Files : file'[n][g] = IF g = f THEN want ELSE file[n][g]
  BY <1>0, <1>7 DEF TypeOK
<1>9. \A m \in Nodes : \A g \in Files :
         file'[m][g] \in {Manifest[w][g] : w \in Versions}
  BY <1>0, <1>7, <1>8 DEF TypeOK
<1>10. UNCHANGED <<disk, unwritten, mem, pending, bad, pushes, pulls, serving, upsets>>
  BY DEF FetchFile
<1>11. TypeOK'
  BY <1>0, <1>5, <1>8, <1>9, <1>10, HistoryType DEF TypeOK
<1>12. \A m \in Nodes \ {n} : Untouched(m)
  BY <1>5, <1>8, <1>10 DEF Untouched
<1>13. \A u \in Tasks : /\ task'[n][u].v = task[n][u].v
                        /\ task'[n][u].at = task[n][u].at
                        /\ task'[n][u].inline = task[n][u].inline
  BY <1>3, <1>5
<1>14. \A u \in Tasks : task'[n][u].v <= disk[Owner] /\ Staged(task'[n][u])
  BY <1>0, <1>13 DEF IInv, TasksStaged, Staged, OwnerAhead
<1>15. ASSUME Sound(n), ~Tangling(n)
       PROVE  Sound(n)'
  <2>1. SameVersion(n)'
    BY <1>15 DEF Tangling, SameVersion
  <2>2. Working(n)' = Working(n)
    BY <1>13 DEF Working
  <2>3. t \in Working(n)
    BY <1>6 DEF Working
  <2>4. \A u \in Working(n) : task[n][u].v = task[n][t].v
    BY <1>15, <2>3 DEF Sound, SameVersion
  <2>5. FilesNeeded(n, task[n][t].v) = {} => FilesNeeded(n, task[n][t].v)' = {}
    <3>1. FilesNeeded(n, task[n][t].v)' =
             {g \in Files : file'[n][g] # Manifest[task[n][t].v][g]}
      BY <1>13 DEF FilesNeeded
    <3> QED
      BY <1>7, <1>8, <3>1 DEF FilesNeeded
  <2>6. ASSUME NEW u \in Tasks, task'[n][u].at = "land", task'[n][u].need = {}
        PROVE  FilesNeeded(n, task[n][u].v)' = {}
    <3>1. u # t
      BY <1>3, <1>5, <1>6, <2>6, Names
    <3>2. task[n][u].at = "land" /\ task[n][u].need = {} /\ u \in Working(n)
      BY <1>5, <2>6, <3>1 DEF Working
    <3>3. FilesNeeded(n, task[n][u].v) = {} /\ task[n][u].v = task[n][t].v
      BY <1>15, <2>4, <3>2 DEF Sound, LandTrue
    <3> QED
      BY <1>13, <2>5, <3>3 DEF FilesNeeded
  <2>7. ASSUME NEW u \in Tasks, Committed(task'[n][u])
        PROVE  /\ disk'[n] = task'[n][u].v /\ FilesNeeded(n, disk[n])' = {}
               /\ unwritten'[n] \in {0, disk'[n]}
    <3>1. Committed(task[n][u]) /\ u \in Working(n)
      BY <1>13, <2>7 DEF Working, Committed
    <3>2. /\ disk[n] = task[n][u].v /\ FilesNeeded(n, disk[n]) = {}
          /\ task[n][u].v = task[n][t].v /\ unwritten[n] \in {0, disk[n]}
      BY <1>15, <2>4, <3>1 DEF Sound, AdoptTrue
    <3> QED
      BY <1>10, <1>13, <2>5, <3>2 DEF FilesNeeded
  <2>8. LandTrue(n)' /\ AdoptTrue(n)'
    BY <2>6, <2>7 DEF LandTrue, AdoptTrue, Committed
  <2>9. RestTrue(n)' /\ MemTrue(n)'
    BY <1>10, <1>13, <1>15, <2>2, <2>3 DEF Sound, RestTrue, MemTrue
  <2> QED
    BY <2>1, <2>8, <2>9 DEF Sound
<1>16. /\ disk'[n] <= disk[Owner] /\ pending'[n] <= disk[Owner]
       /\ \A p \in pushes' : p.v <= disk[Owner]
       /\ \A q \in pulls' : q.at # Owner
  BY <1>0, <1>10 DEF OwnerAhead
<1> QED
  BY <1>11, <1>12, <1>14, <1>15, <1>16, NodeStep

\* finalize_root_update: content.json is committed over a complete set, or the
\* update is deferred.
LEMMA LandStep ==
    ASSUME IInv, NEW n \in Nodes \ {Owner}, NEW t \in Tasks, Land(n, t), History
    PROVE  IInv'
<1>0. TypeOK /\ OwnerAhead /\ task[n][t] \in TaskRecord
  BY DEF IInv, TypeOK
<1>1. task[n][t].at = "land" /\ task[n][t].v \in Versions
  BY DEF Land, IInv, TasksStaged, Staged
<1>2. UNCHANGED <<mem, file, pushes, pulls, serving>>
  BY DEF Land
<1>3. PICK v \in Versions : v = task[n][t].v
  BY <1>1
<1>4. v <= disk[Owner] /\ v # 0
  BY <1>0, <1>3, VersionRange DEF OwnerAhead
<1>5. /\ \A p \in pushes' : p.v <= disk[Owner]
      /\ \A q \in pulls' : q.at # Owner
  BY <1>0, <1>2 DEF OwnerAhead
<1>6. \A w : FilesNeeded(n, w)' = FilesNeeded(n, w)
  BY <1>2 DEF FilesNeeded
<1>7. CASE task[n][t].need = {} /\ CommitToDisk(n, t)
  <2>1. /\ disk' = [disk EXCEPT ![n] = v]
        /\ unwritten' = [unwritten EXCEPT ![n] = 0]
        /\ pending' = [pending EXCEPT ![n] = 0]
        /\ task' = [task EXCEPT ![n][t].at = "adopt"]
        /\ UNCHANGED <<bad, upsets>>
    BY <1>3, <1>7 DEF CommitToDisk
  <2>2. PICK r : r = [task[n][t] EXCEPT !.at = "adopt"]
    OBVIOUS
  <2>3. "adopt" \in Places
    BY Names
  <2>4. r \in TaskRecord /\ r.at = "adopt" /\ r.v = v
    BY <1>0, <1>3, <2>2, <2>3 DEF TaskRecord
  <2>5. task' = [task EXCEPT ![n][t] = r]
    BY <1>0, <2>1, <2>2 DEF TypeOK
  <2>6. /\ task' \in [Nodes -> [Tasks -> TaskRecord]]
        /\ task'[n][t] = r
        /\ \A u \in Tasks \ {t} : task'[n][u] = task[n][u]
        /\ \A m \in Nodes \ {n} : task'[m] = task[m]
    BY <1>0, <2>4, <2>5, Turn
  <2>7. /\ disk' \in [Nodes -> Versions] /\ disk'[n] = v
        /\ \A m \in Nodes \ {n} : disk'[m] = disk[m]
    BY <1>0, <2>1 DEF TypeOK
  <2>8. /\ pending' \in [Nodes -> 0 .. MaxVersion] /\ pending'[n] = 0
        /\ \A m \in Nodes \ {n} : pending'[m] = pending[m]
        /\ unwritten' \in [Nodes -> 0 .. MaxVersion] /\ unwritten'[n] = 0
        /\ \A m \in Nodes \ {n} : unwritten'[m] = unwritten[m]
    BY <1>0, <2>1, VersionRange DEF TypeOK
  <2>9. TypeOK'
    BY <1>0, <1>2, <2>1, <2>6, <2>7, <2>8, HistoryType DEF TypeOK
  <2>10. \A m \in Nodes \ {n} : Untouched(m)
    BY <1>2, <2>6, <2>7, <2>8 DEF Untouched
  <2>11. \A u \in Tasks : task'[n][u].v <= disk[Owner] /\ Staged(task'[n][u])
    BY <1>0, <1>4, <2>4, <2>6, Names DEF IInv, TasksStaged, Staged, OwnerAhead
  <2>12. disk'[n] <= disk[Owner] /\ pending'[n] <= disk[Owner]
    <3>1. disk[Owner] \in Nat
      BY <1>0, XiteAssumption, VersionRange DEF TypeOK
    <3> QED
      BY <1>4, <2>7, <2>8, <3>1
  <2>13. ASSUME Sound(n), ~Tangling(n)
         PROVE  Sound(n)'
    <3>1. SameVersion(n)'
      BY <2>13 DEF Tangling, SameVersion
    <3>2. FilesNeeded(n, v) = {}
      BY <1>1, <1>3, <1>7, <2>13 DEF Sound, LandTrue
    <3>3. LandTrue(n)'
      BY <1>6, <2>4, <2>6, <2>13, Names DEF Sound, LandTrue
    <3>4. t \in Working(n)
      BY <1>1 DEF Working
    <3>5. ASSUME NEW u \in Tasks, Committed(task'[n][u])
          PROVE  task'[n][u].v = v
      <4>1. CASE u = t
        BY <2>4, <2>6, <4>1
      <4>2. CASE u # t
        <5>1. task'[n][u] = task[n][u] /\ u \in Working(n)
          BY <2>6, <3>5, <4>2 DEF Working, Committed
        <5> QED
          BY <1>3, <2>13, <3>4, <5>1 DEF Sound, SameVersion
      <4> QED
        BY <4>1, <4>2
    <3>6. FilesNeeded(n, disk[n])' = {}
      BY <1>6, <2>7, <3>2 DEF FilesNeeded
    <3>a. FilesNeeded(n, Placed(n))' = {}
      BY <2>8, <3>6 DEF Placed, FilesNeeded
    <3>7. AdoptTrue(n)' /\ RestTrue(n)'
      BY <2>7, <2>8, <3>5, <3>6, <3>a DEF AdoptTrue, RestTrue, Committed
    <3>8. MemTrue(n)'
      BY <2>4, <2>6 DEF MemTrue
    <3> QED
      BY <3>1, <3>3, <3>7, <3>8 DEF Sound
  <2> QED
    BY <1>5, <2>9, <2>10, <2>11, <2>12, <2>13, NodeStep
<1>9. CASE task[n][t].need = {} /\ CommitFails(n, t)
  <2>1. PICK r : r = IF task[n][t].inline
                     THEN [task[n][t] EXCEPT !.at = "sync", !.inline = FALSE]
                     ELSE Idle
    OBVIOUS
  <2>2. /\ unwritten' = [unwritten EXCEPT ![n] = v]
        /\ upsets < MaxUpsets /\ upsets' = upsets + 1
        /\ task' = [task EXCEPT ![n][t] = r]
        /\ UNCHANGED <<disk, pending, bad>>
    BY <1>3, <1>9, <2>1 DEF CommitFails
  <2>3. "sync" \in Places
    BY Names
  <2>4. /\ r \in TaskRecord /\ r.at \in {"idle", "sync"}
        /\ r.inline = FALSE /\ (r.at = "sync" => r.v = v)
        /\ r.v \in {v, 0} /\ (r.at # "sync" => ~task[n][t].inline)
    <3>1. CASE task[n][t].inline
      BY <1>0, <1>3, <2>1, <2>3, <3>1 DEF TaskRecord
    <3>2. CASE ~task[n][t].inline
      BY <2>1, <3>2, IdleType, Names
    <3> QED
      BY <3>1, <3>2
  <2>5. /\ task' \in [Nodes -> [Tasks -> TaskRecord]]
        /\ task'[n][t] = r
        /\ \A u \in Tasks \ {t} : task'[n][u] = task[n][u]
        /\ \A m \in Nodes \ {n} : task'[m] = task[m]
    BY <1>0, <2>2, <2>4, Turn
  <2>6. /\ unwritten' \in [Nodes -> 0 .. MaxVersion] /\ unwritten'[n] = v
        /\ \A m \in Nodes \ {n} : unwritten'[m] = unwritten[m]
    BY <1>0, <2>2, VersionRange DEF TypeOK
  <2>7. upsets' \in 0 .. MaxUpsets
    BY <1>0, <2>2, XiteAssumption DEF TypeOK
  <2>8. TypeOK'
    BY <1>0, <1>2, <2>2, <2>5, <2>6, <2>7, HistoryType DEF TypeOK
  <2>9. \A m \in Nodes \ {n} : Untouched(m)
    BY <1>2, <2>2, <2>5, <2>6 DEF Untouched
  <2>10. ~Committed(r) /\ Staged(r) /\ r.v <= disk[Owner]
    <3>1. disk[Owner] \in Nat
      BY <1>0, XiteAssumption, VersionRange DEF TypeOK
    <3>2. r.v <= disk[Owner]
      BY <1>4, <2>4, <3>1
    <3>3. ~Committed(r) /\ Staged(r)
      BY <2>4, Names DEF Committed, Staged
    <3> QED
      BY <3>2, <3>3
  <2>11. \A u \in Tasks : task'[n][u].v <= disk[Owner] /\ Staged(task'[n][u])
    BY <1>0, <2>5, <2>10 DEF IInv, TasksStaged, OwnerAhead
  <2>12. disk'[n] <= disk[Owner] /\ pending'[n] <= disk[Owner]
    BY <1>0, <2>2 DEF OwnerAhead
  <2>13. ASSUME Sound(n), ~Tangling(n)
         PROVE  Sound(n)'
    <3>1. SameVersion(n)'
      BY <2>13 DEF Tangling, SameVersion
    <3>2. FilesNeeded(n, v) = {} /\ t \in Working(n)
      BY <1>1, <1>3, <1>9, <2>13 DEF Sound, LandTrue, Working
    <3>3. LandTrue(n)'
      BY <1>6, <2>4, <2>5, <2>13, Names DEF Sound, LandTrue
    <3>4. ASSUME NEW u \in Tasks, Committed(task'[n][u])
          PROVE  /\ disk[n] = task'[n][u].v /\ FilesNeeded(n, disk[n]) = {}
                 /\ disk[n] = v
      <4>1. u # t /\ task'[n][u] = task[n][u]
        BY <2>5, <2>10, <3>4
      <4>2. u \in Working(n)
        BY <3>4, <4>1 DEF Working, Committed
      <4>3. task[n][u].v = v
        BY <1>3, <2>13, <3>2, <4>2 DEF Sound, SameVersion
      <4> QED
        BY <2>13, <3>4, <4>1, <4>3 DEF Sound, AdoptTrue
    <3>5. FilesNeeded(n, disk[n])' = FilesNeeded(n, disk[n])
      BY <1>2, <2>2 DEF FilesNeeded
    <3>6. AdoptTrue(n)'
      BY <2>2, <2>6, <3>4, <3>5 DEF AdoptTrue, Committed
    <3>7. FilesNeeded(n, Placed(n))' = {}
      BY <1>2, <1>4, <2>6, <3>2 DEF Placed, FilesNeeded
    <3>8. MemTrue(n)'
      BY <1>1, <1>2, <2>2, <2>5, <2>13, Names DEF Sound, MemTrue
    <3> QED
      BY <3>1, <3>3, <3>6, <3>7, <3>8 DEF Sound, RestTrue
  <2> QED
    BY <1>5, <2>8, <2>9, <2>11, <2>12, <2>13, NodeStep
<1>8. CASE task[n][t].need # {}
  <2>1. PICK x : x = IF pending[n] <= v THEN v ELSE pending[n]
    OBVIOUS
  <2>2. pending[n] \in 0 .. MaxVersion /\ pending[n] \in Nat /\ v \in Nat
        /\ v \in 0 .. MaxVersion /\ pending[n] <= disk[Owner]
    BY <1>0, VersionRange DEF TypeOK, OwnerAhead
  <2>3. x \in 0 .. MaxVersion /\ x # 0 /\ x <= disk[Owner]
    BY <1>4, <2>1, <2>2
  <2>4. /\ bad' = [bad EXCEPT ![n] = @ \cup task[n][t].need]
        /\ pending' = [pending EXCEPT ![n] = x]
        /\ task' = [task EXCEPT ![n][t] = Idle]
        /\ UNCHANGED <<disk, unwritten, upsets>>
    BY <1>0, <1>3, <1>8, <2>1 DEF Land, Defer, TypeOK
  <2>5. bad' \in [Nodes -> SUBSET Files]
    BY <1>0, <2>4 DEF TypeOK, TaskRecord
  <2>6. /\ task' \in [Nodes -> [Tasks -> TaskRecord]]
        /\ task'[n][t] = Idle
        /\ \A u \in Tasks \ {t} : task'[n][u] = task[n][u]
        /\ \A m \in Nodes \ {n} : task'[m] = task[m]
    BY <1>0, <2>4, IdleType, Turn
  <2>7. /\ pending' \in [Nodes -> 0 .. MaxVersion] /\ pending'[n] = x
        /\ \A m \in Nodes \ {n} : pending'[m] = pending[m]
    BY <1>0, <2>3, <2>4 DEF TypeOK
  <2>8. TypeOK'
    BY <1>0, <1>2, <2>4, <2>5, <2>6, <2>7, HistoryType DEF TypeOK
  <2>9. \A m \in Nodes \ {n} : Untouched(m)
    BY <1>2, <2>4, <2>6, <2>7 DEF Untouched
  <2>10. \A u \in Tasks : task'[n][u].v <= disk[Owner] /\ Staged(task'[n][u])
    <3>1. disk[Owner] \in Nat
      BY <1>0, XiteAssumption, VersionRange DEF TypeOK
    <3>2. Idle.v <= disk[Owner] /\ Staged(Idle)
      BY <3>1, IdleType, Names DEF Staged
    <3> QED
      BY <1>0, <2>6, <3>2 DEF IInv, TasksStaged, OwnerAhead
  <2>11. disk'[n] <= disk[Owner] /\ pending'[n] <= disk[Owner]
    BY <1>0, <2>3, <2>4, <2>7 DEF OwnerAhead
  <2>12. ASSUME Sound(n), ~Tangling(n)
         PROVE  Sound(n)'
    <3>1. SameVersion(n)'
      BY <2>12 DEF Tangling, SameVersion
    <3>2. LandTrue(n)' /\ AdoptTrue(n)'
      <4>1. LandTrue(n)'
        BY <1>6, <2>4, <2>6, <2>12, IdleType, Names DEF Sound, LandTrue
      <4>2. AdoptTrue(n)'
        BY <1>6, <2>4, <2>6, <2>12, IdleType, Names
           DEF Sound, AdoptTrue, Committed
      <4> QED BY <4>1, <4>2
    <3>3. RestTrue(n)'
      BY <2>3, <2>7 DEF RestTrue
    <3>4. MemTrue(n)'
      BY <1>1, <1>2, <2>4, <2>6, <2>12, Names DEF Sound, MemTrue
    <3> QED
      BY <3>1, <3>2, <3>3, <3>4 DEF Sound
  <2> QED
    BY <1>5, <2>8, <2>9, <2>10, <2>11, <2>12, NodeStep
<1> QED
  BY <1>7, <1>8, <1>9 DEF Land

\* update_content: what was committed is adopted, and still what is on disk.
LEMMA AdoptStep ==
    ASSUME IInv, NEW n \in Nodes \ {Owner}, NEW t \in Tasks, Adopt(n, t), History
    PROVE  IInv'
<1>0. TypeOK /\ OwnerAhead /\ task[n][t] \in TaskRecord
  BY DEF IInv, TypeOK
<1>1. task[n][t].at = "adopt" /\ task[n][t].v \in Versions
  BY DEF Adopt, IInv, TasksStaged, Staged
<1>2. UNCHANGED <<disk, unwritten, file, pending, pushes, pulls, serving, upsets>>
  BY DEF Adopt
<1>3. PICK r : r = IF t \in Passes THEN Idle
                   ELSE IF task[n][t].inline
                   THEN [task[n][t] EXCEPT !.at = "sync"]
                   ELSE [task[n][t] EXCEPT !.at = "announce"]
  OBVIOUS
<1>4. "announce" \in Places /\ "sync" \in Places
  BY Names
<1>5. /\ r \in TaskRecord /\ r.at \in {"idle", "sync", "announce"}
      /\ r.at = "sync" => r.v = task[n][t].v
  <2>1. CASE t \in Passes
    BY <1>3, <2>1, IdleType, Names
  <2>2. CASE t \notin Passes
    BY <1>0, <1>3, <1>4, <2>2 DEF TaskRecord
  <2> QED
    BY <2>1, <2>2
<1>6. r.v = task[n][t].v \/ r.v = 0
  BY <1>0, <1>3, IdleType DEF TaskRecord
<1>7. task' = [task EXCEPT ![n][t] = r]
  BY <1>3 DEF Adopt
<1>8. /\ task' \in [Nodes -> [Tasks -> TaskRecord]]
      /\ task'[n][t] = r
      /\ \A u \in Tasks \ {t} : task'[n][u] = task[n][u]
      /\ \A m \in Nodes \ {n} : task'[m] = task[m]
  BY <1>0, <1>5, <1>7, Turn
<1>9. /\ mem' \in [Nodes -> Versions] /\ mem'[n] = task[n][t].v
      /\ \A m \in Nodes \ {n} : mem'[m] = mem[m]
  BY <1>0, <1>1 DEF TypeOK, Adopt
<1>10. bad' \in [Nodes -> SUBSET Files]
  BY <1>0 DEF TypeOK, Adopt
<1>11. TypeOK'
  BY <1>0, <1>2, <1>8, <1>9, <1>10, HistoryType DEF TypeOK
<1>12. \A m \in Nodes \ {n} : Untouched(m)
  BY <1>2, <1>8, <1>9 DEF Untouched
<1>13. \A u \in Tasks : task'[n][u].v <= disk[Owner] /\ Staged(task'[n][u])
  <2>1. disk[Owner] \in Nat
    BY <1>0, XiteAssumption, VersionRange DEF TypeOK
  <2>2. r.v <= disk[Owner]
    BY <1>0, <1>6, <2>1 DEF OwnerAhead
  <2>3. Staged(r)
    BY <1>1, <1>5, Names DEF Staged
  <2> QED
    BY <1>0, <1>8, <2>2, <2>3 DEF IInv, TasksStaged, OwnerAhead
<1>14. /\ disk'[n] <= disk[Owner] /\ pending'[n] <= disk[Owner]
       /\ \A p \in pushes' : p.v <= disk[Owner]
       /\ \A q \in pulls' : q.at # Owner
  BY <1>0, <1>2 DEF OwnerAhead
<1>15. \A w : FilesNeeded(n, w)' = FilesNeeded(n, w)
  BY <1>2 DEF FilesNeeded
<1>16. ASSUME Sound(n), ~Tangling(n)
       PROVE  Sound(n)'
  <2>1. SameVersion(n)'
    BY <1>16 DEF Tangling, SameVersion
  <2>2. r.at # "land" /\ r.at # "adopt"
    BY <1>5, Names
  <2>3. LandTrue(n)'
    BY <1>2, <1>8, <1>15, <1>16, <2>2 DEF Sound, LandTrue
  <2>a. Committed(task[n][t])
    BY <1>1 DEF Committed
  <2>4. /\ disk[n] = task[n][t].v /\ FilesNeeded(n, disk[n]) = {}
        /\ unwritten[n] \in {0, disk[n]}
    BY <1>16, <2>a DEF Sound, AdoptTrue
  <2>5. FilesNeeded(n, disk[n])' = {}
    BY <1>2, <2>4 DEF FilesNeeded
  <2>7. ASSUME NEW u \in Tasks, Committed(task'[n][u])
        PROVE  disk[n] = task'[n][u].v
    <3>1. CASE u = t
      BY <1>5, <1>8, <2>4, <2>7, <3>1, Names DEF Committed
    <3>2. CASE u # t
      BY <1>8, <1>16, <2>7, <3>2 DEF Sound, AdoptTrue
    <3> QED
      BY <3>1, <3>2
  <2>8. AdoptTrue(n)'
    BY <1>2, <2>4, <2>5, <2>7 DEF AdoptTrue, Committed
  <2>9. FilesNeeded(n, Placed(n))' = {}
    BY <1>2, <2>4, <2>5 DEF Placed, FilesNeeded
  <2>6. RestTrue(n)' /\ MemTrue(n)'
    BY <1>2, <1>9, <2>4, <2>9 DEF RestTrue, MemTrue
  <2> QED
    BY <2>1, <2>3, <2>6, <2>8 DEF Sound
<1> QED
  BY <1>11, <1>12, <1>13, <1>14, <1>16, NodeStep

\* A pass begins, or ends without a newer version.
LEMMA StartPassStep ==
    ASSUME IInv, NEW n \in Nodes \ {Owner}, NEW p \in Passes, StartPass(n, p), History
    PROVE  IInv'
<1>0. TypeOK /\ OwnerAhead
  BY DEF IInv
<1>1. disk[Owner] \in Nat /\ p \in Tasks
  BY <1>0, XiteAssumption, VersionRange DEF TypeOK
<1>2. PICK r : r = [Idle EXCEPT !.at = "probe", !.local = mem[n]]
  OBVIOUS
<1>a. mem[n] \in 0 .. MaxVersion /\ "probe" \in Places
  BY <1>0, VersionRange, Names DEF TypeOK
<1>b. r \in TaskRecord /\ r.at = "probe" /\ r.v = 0
  BY <1>2, <1>a, IdleType DEF TaskRecord
<1>3. r.v <= disk[Owner] /\ Staged(r) /\ r.at = "probe" /\ ~Committed(r)
  BY <1>1, <1>b, Names DEF Staged, Committed
<1>4. r \in TaskRecord /\ task' = [task EXCEPT ![n][p] = r]
  BY <1>2, <1>b DEF StartPass
<1>5. task' \in [Nodes -> [Tasks -> TaskRecord]]
  BY <1>0, <1>1, <1>4, Turn
<1>6. TypeOK'
  BY <1>0, <1>5, HistoryType DEF TypeOK, StartPass
<1>7. /\ \A x \in pushes' : x.v <= disk[Owner]
      /\ \A q \in pulls' : q.at # Owner
  BY <1>0 DEF OwnerAhead, StartPass
<1> QED
  BY <1>1, <1>3, <1>4, <1>6, <1>7, TurnStep, Names DEF StartPass

LEMMA EndPassStep ==
    ASSUME IInv, NEW n \in Nodes \ {Owner}, NEW p \in Passes, EndPass(n, p), History
    PROVE  IInv'
<1>0. TypeOK /\ OwnerAhead
  BY DEF IInv
<1>1. disk[Owner] \in Nat /\ p \in Tasks
  BY <1>0, XiteAssumption, VersionRange DEF TypeOK
<1>2. PICK r : r = Idle
  OBVIOUS
<1>3. r.v <= disk[Owner] /\ Staged(r) /\ r.at = "idle" /\ ~Committed(r)
  BY <1>1, <1>2, IdleType, Names DEF Staged
<1>4. r \in TaskRecord /\ task' = [task EXCEPT ![n][p] = r]
  BY <1>2, IdleType DEF EndPass
<1>5. task' \in [Nodes -> [Tasks -> TaskRecord]]
  BY <1>0, <1>1, <1>4, Turn
<1>6. TypeOK'
  BY <1>0, <1>5, HistoryType DEF TypeOK, EndPass
<1>7. /\ \A x \in pushes' : x.v <= disk[Owner]
      /\ \A q \in pulls' : q.at # Owner
  BY <1>0 DEF OwnerAhead, EndPass
<1> QED
  BY <1>1, <1>3, <1>4, <1>6, <1>7, TurnStep, Names DEF EndPass

\* A pushed version is passed on and its uri released.
LEMMA AnnounceStep ==
    ASSUME IInv, NEW n \in Nodes \ {Owner}, NEW v \in Versions, Announce(n, v), History
    PROVE  IInv'
<1>0. TypeOK /\ OwnerAhead
  BY DEF IInv
<1>1. disk[Owner] \in Nat /\ v \in Tasks
  BY <1>0, XiteAssumption, VersionRange DEF TypeOK
<1>2. PICK r : r = Idle
  OBVIOUS
<1>3. r.v <= disk[Owner] /\ Staged(r) /\ r.at = "idle" /\ ~Committed(r)
  BY <1>1, <1>2, IdleType, Names DEF Staged
<1>4. r \in TaskRecord /\ task' = [task EXCEPT ![n][v] = r]
  BY <1>2, IdleType DEF Announce
<1>5. task' \in [Nodes -> [Tasks -> TaskRecord]]
  BY <1>0, <1>1, <1>4, Turn
<1>a. PICK S \in SUBSET (Nodes \ {n}) :
        pushes' = pushes \cup {[to |-> m, from |-> n, v |-> disk[n]] : m \in S}
  BY DEF Announce, PublishTo
<1>b. /\ disk[n] \in Versions /\ disk'[Owner] = disk[Owner]
      /\ disk[n] <= disk'[Owner] /\ disk[Owner] \in Versions
  BY <1>0, XiteAssumption DEF TypeOK, OwnerAhead, Announce
<1>c. /\ pushes' \in SUBSET [to : Nodes, from : Nodes, v : Versions]
      /\ \A p \in pushes' : p.v <= disk'[Owner]
  BY <1>1, <1>a, <1>b, PublishType, SMTT(30)
<1>6. TypeOK'
  BY <1>0, <1>5, <1>c, HistoryType DEF TypeOK, Announce
<1>7. /\ \A x \in pushes' : x.v <= disk[Owner]
      /\ \A q \in pulls' : q.at # Owner
  BY <1>0, <1>b, <1>c DEF OwnerAhead, Announce
<1> QED
  BY <1>1, <1>3, <1>4, <1>6, <1>7, TurnStep, Names DEF Announce

\* A peer has a newer version, which the pass stages if it can.
LEMMA ProbeNewerStep ==
    ASSUME IInv, NEW n \in Nodes \ {Owner}, NEW p \in Passes, NEW m \in Nodes, ProbeNewer(n, p, m), History
    PROVE  IInv'
<1>0. TypeOK /\ OwnerAhead
  BY DEF IInv
<1>1. disk[Owner] \in Nat /\ p \in Tasks
  BY <1>0, XiteAssumption, VersionRange DEF TypeOK
<1>2. disk[m] \in Versions /\ disk[m] <= disk[Owner]
  BY <1>0 DEF TypeOK, OwnerAhead
<1>a. PICK need \in SUBSET Files : need = FilesNeeded(n, disk[m])
  BY NeededFiles
<1>b. PICK r0 : r0 = [Idle EXCEPT !.at = "fetch", !.v = disk[m], !.need = need]
  OBVIOUS
<1>c. "fetch" \in Places
  BY Names
<1>d. /\ r0 \in TaskRecord /\ r0.at = "fetch" /\ r0.v = disk[m]
      /\ r0.inline = FALSE
  BY <1>2, <1>b, <1>c, IdleType, VersionRange DEF TaskRecord
<1>e. PICK r : r = IF disk[m] \in limit[n] THEN r0 ELSE Idle
  OBVIOUS
<1>3. /\ r.v <= disk[Owner] /\ Staged(r) /\ r.at \in {"idle", "fetch"}
      /\ ~Committed(r)
  BY <1>1, <1>2, <1>d, <1>e, IdleType, Names DEF Staged, Committed
<1>4. r \in TaskRecord /\ task' = [task EXCEPT ![n][p] = r]
  BY <1>a, <1>b, <1>d, <1>e, IdleType DEF ProbeNewer
<1>5. task' \in [Nodes -> [Tasks -> TaskRecord]]
  BY <1>0, <1>1, <1>4, Turn
<1>6. TypeOK'
  BY <1>0, <1>5, HistoryType DEF TypeOK, ProbeNewer
<1>7. /\ \A x \in pushes' : x.v <= disk[Owner]
      /\ \A q \in pulls' : q.at # Owner
  BY <1>0 DEF OwnerAhead, ProbeNewer
<1> QED
  BY <1>1, <1>3, <1>4, <1>6, <1>7, TurnStep, Names DEF ProbeNewer

\* The loop takes up the deferred update again.
LEMMA RetryPendingStep ==
    ASSUME IInv, NEW n \in Nodes \ {Owner}, RetryPending(n), History
    PROVE  IInv'
<1>0. TypeOK /\ OwnerAhead
  BY DEF IInv
<1>1. disk[Owner] \in Nat /\ Loop \in Tasks
  BY <1>0, XiteAssumption, VersionRange DEF TypeOK
<1>2. pending[n] \in Versions /\ pending[n] <= disk[Owner]
  BY <1>0, VersionRange DEF TypeOK, OwnerAhead, RetryPending
<1>a. PICK need \in SUBSET Files : need = FilesNeeded(n, pending[n])
  BY NeededFiles
<1>b. PICK r : r = [Idle EXCEPT !.at = "fetch", !.v = pending[n], !.need = need]
  OBVIOUS
<1>c. "fetch" \in Places
  BY Names
<1>d. /\ r \in TaskRecord /\ r.at = "fetch" /\ r.v = pending[n]
      /\ r.inline = FALSE
  BY <1>2, <1>b, <1>c, IdleType, VersionRange DEF TaskRecord
<1>3. r.v <= disk[Owner] /\ Staged(r) /\ r.at = "fetch" /\ ~Committed(r)
  BY <1>2, <1>d, Names DEF Staged, Committed
<1>4. r \in TaskRecord /\ task' = [task EXCEPT ![n][Loop] = r]
  BY <1>a, <1>b, <1>d DEF RetryPending
<1>5. task' \in [Nodes -> [Tasks -> TaskRecord]]
  BY <1>0, <1>1, <1>4, Turn
<1>6. TypeOK'
  BY <1>0, <1>5, HistoryType DEF TypeOK, RetryPending
<1>7. /\ \A x \in pushes' : x.v <= disk[Owner]
      /\ \A q \in pulls' : q.at # Owner
  BY <1>0 DEF OwnerAhead, RetryPending
<1> QED
  BY <1>1, <1>3, <1>4, <1>6, <1>7, TurnStep, Names DEF RetryPending

\* The xite is paused or resumed.
LEMMA PauseStep ==
    ASSUME IInv, NEW n \in Nodes \ {Owner}, Pause(n) \/ Resume(n), History
    PROVE  IInv'
<1>0. TypeOK /\ OwnerAhead
  BY DEF IInv
<1>1. serving' \in [Nodes -> BOOLEAN]
  BY <1>0 DEF TypeOK, Pause, Resume
<1>2. upsets' \in 0 .. MaxUpsets
  BY <1>0, XiteAssumption DEF TypeOK, Pause, Resume
<1>3. UNCHANGED <<disk, unwritten, mem, file, pending, bad, task, pushes,
                  pulls>>
  BY DEF Pause, Resume
<1>4. TypeOK'
  BY <1>0, <1>1, <1>2, <1>3, HistoryType DEF TypeOK
<1>5. /\ \A p \in pushes' : p.v <= disk[Owner]
      /\ \A q \in pulls' : q.at # Owner
  BY <1>0, <1>3 DEF OwnerAhead
<1> QED
  BY <1>0, <1>3, <1>4, <1>5, HistoryType, AllStill

\* A restart: it leaves a node sound that had nothing under way.
LEMMA CrashStep ==
    ASSUME IInv, NEW n \in Nodes \ {Owner}, Crash(n), History
    PROVE  IInv'
<1>0. TypeOK /\ OwnerAhead /\ disk[Owner] \in Nat
  BY XiteAssumption, VersionRange DEF IInv, TypeOK
<1>1. upsets' \in 0 .. MaxUpsets
  BY <1>0, XiteAssumption DEF TypeOK, Crash
<1>2. UNCHANGED <<disk, unwritten, file, bad, pushes, serving>>
  BY DEF Crash
<1>3. /\ mem' \in [Nodes -> Versions] /\ mem'[n] = disk[n]
      /\ \A m \in Nodes \ {n} : mem'[m] = mem[m]
  BY <1>0 DEF TypeOK, Crash
<1>4. /\ pending' \in [Nodes -> 0 .. MaxVersion] /\ pending'[n] = 0
      /\ \A m \in Nodes \ {n} : pending'[m] = pending[m]
  BY <1>0, VersionRange DEF TypeOK, Crash
<1>5. /\ task' \in [Nodes -> [Tasks -> TaskRecord]]
      /\ \A t \in Tasks : task'[n][t] = Idle
      /\ \A m \in Nodes \ {n} : task'[m] = task[m]
  BY <1>0, IdleType DEF TypeOK, Crash
<1>6. pulls' \in SUBSET pulls
  BY DEF Crash
<1>7. TypeOK'
  BY <1>0, <1>1, <1>2, <1>3, <1>4, <1>5, <1>6, HistoryType DEF TypeOK
<1>8. \A m \in Nodes \ {n} : Untouched(m)
  BY <1>2, <1>3, <1>4, <1>5 DEF Untouched
<1>9. \A t \in Tasks : task'[n][t].v <= disk[Owner] /\ Staged(task'[n][t])
  BY <1>0, <1>5, IdleType, Names DEF Staged
<1>10. /\ disk'[n] <= disk[Owner] /\ pending'[n] <= disk[Owner]
       /\ \A p \in pushes' : p.v <= disk[Owner]
       /\ \A q \in pulls' : q.at # Owner
  BY <1>0, <1>2, <1>4, <1>6 DEF OwnerAhead
<1>11. ASSUME Sound(n), ~Tangling(n)
       PROVE  Sound(n)'
  <2>1. Working(n) = {} /\ pending[n] = 0
    BY <1>11 DEF Tangling
  <2>2. FilesNeeded(n, Placed(n)) = {}
    BY <1>11, <2>1 DEF Sound, RestTrue
  <2>3. FilesNeeded(n, Placed(n))' = {}
    BY <1>2, <2>2 DEF FilesNeeded, Placed
  <2>4. Working(n)' = {}
    BY <1>5, IdleType DEF Working
  <2>5. \A t \in Tasks : task'[n][t].at = "idle" /\ ~Committed(task'[n][t])
    BY <1>5, IdleType
  <2>6. AdoptTrue(n)'
    BY <2>5 DEF AdoptTrue, Committed
  <2> QED
    BY <1>2, <1>3, <2>3, <2>4, <2>5, <2>6, Names
       DEF Sound, SameVersion, LandTrue, RestTrue, MemTrue
<1> QED
  BY <1>7, <1>8, <1>9, <1>10, <1>11, NodeStep

-----------------------------------------------------------------------------
(***************************************************************************)
(* The theorems.                                                           *)
(***************************************************************************)

\* At the start every node serves version 1.
LEMMA InitSound == Init => IInv
<1> SUFFICES ASSUME Init
             PROVE  IInv
  OBVIOUS
<1>1. Owner \in Nodes /\ 1 \in Versions /\ 0 <= 1 /\ 1 <= 1
  BY XiteAssumption, VersionRange
<1>2. /\ Manifest[1] \in [Files -> Contents]
      /\ \A f \in Files : Manifest[1][f] \in {Manifest[w][f] : w \in Versions}
  BY <1>1, XiteAssumption DEF Contents
<1>3. file \in [Nodes -> [Files -> Contents]]
  BY <1>2 DEF Init
<1>4. \A n \in Nodes : file[n] = Manifest[1]
  BY DEF Init
<1>5. \A n \in Nodes : \A f \in Files :
         file[n][f] \in {Manifest[w][f] : w \in Versions}
  BY <1>2, <1>4
<1>6. /\ task \in [Nodes -> [Tasks -> TaskRecord]]
      /\ \A n \in Nodes : \A t \in Tasks : task[n][t] = Idle
  BY IdleType DEF Init
<1>7. /\ disk \in [Nodes -> Versions] /\ mem \in [Nodes -> Versions]
      /\ pending \in [Nodes -> 0 .. MaxVersion]
      /\ unwritten \in [Nodes -> 0 .. MaxVersion]
      /\ \A n \in Nodes : /\ disk[n] = 1 /\ mem[n] = 1 /\ pending[n] = 0
                          /\ unwritten[n] = 0
  BY <1>1, VersionRange DEF Init
<1>8. TypeOK
  BY <1>3, <1>5, <1>6, <1>7, VersionRange DEF Init, TypeOK
<1>9. OwnerAhead
  BY <1>1, <1>4, <1>6, <1>7, IdleType DEF Init, OwnerAhead
<1>10. TasksStaged
  BY <1>6, IdleType, Names DEF TasksStaged, Staged
<1>11. ASSUME NEW n \in Nodes
       PROVE  Sound(n)
  <2>1. \A t \in Tasks : task[n][t].at = "idle" /\ ~Committed(task[n][t])
    BY <1>6, IdleType
  <2>2. Working(n) = {}
    BY <2>1 DEF Working
  <2>3. FilesNeeded(n, Placed(n)) = {}
    BY <1>4, <1>7 DEF FilesNeeded, Placed
  <2> QED
    BY <1>7, <2>1, <2>2, <2>3, Names
       DEF Sound, SameVersion, LandTrue, AdoptTrue, RestTrue, MemTrue
<1>12. Settled
  BY <1>11 DEF Settled
<1> QED
  BY <1>8, <1>9, <1>10, <1>12 DEF IInv

\* Every step of a node that is not the owner keeps the invariant.
LEMMA FollowerStep ==
    ASSUME IInv, NEW n \in Nodes \ {Owner}, History,
           \/ \E t \in Tasks : TaskStep(n, t)
           \/ \E v \in Versions : PushStep(n, v)
           \/ \E p \in Passes : PassStep(n, p)
           \/ RetryPending(n)
           \/ Pause(n) \/ Resume(n)
           \/ Crash(n)
    PROVE  IInv'
<1>1. CASE \E t \in Tasks : TaskStep(n, t)
  <2>1. PICK t \in Tasks : TaskStep(n, t)
    BY <1>1
  <2>2. CASE Check(n, t)
    BY <2>2, CheckStep
  <2>3. CASE Land(n, t)
    BY <2>3, LandStep
  <2>4. CASE Adopt(n, t)
    BY <2>4, AdoptStep
  <2>5. CASE \E f \in Files : FetchFile(n, t, f) \/ MissFile(n, t, f)
    BY <2>5, FetchFileStep, MissFileStep
  <2> QED
    BY <2>1, <2>2, <2>3, <2>4, <2>5 DEF TaskStep
<1>2. CASE \E v \in Versions : PushStep(n, v)
  BY <1>2, StageStep, StageFailsStep, SyncStep, AnnounceStep DEF PushStep
<1>3. CASE \E p \in Passes : PassStep(n, p)
  <2>1. PICK p \in Passes : PassStep(n, p)
    BY <1>3
  <2>2. CASE StartPass(n, p)
    BY <2>2, StartPassStep
  <2>3. CASE \E m \in Nodes \ {n} : ProbeNewer(n, p, m)
    BY <2>3, ProbeNewerStep
  <2>4. CASE EndPass(n, p)
    BY <2>4, EndPassStep
  <2> QED
    BY <2>1, <2>2, <2>3, <2>4 DEF PassStep
<1>4. CASE RetryPending(n)
  BY <1>4, RetryPendingStep
<1>5. CASE Pause(n) \/ Resume(n)
  BY <1>5, PauseStep
<1>6. CASE Crash(n)
  BY <1>6, CrashStep
<1> QED
  BY <1>1, <1>2, <1>3, <1>4, <1>5, <1>6

\* The invariant holds from the start and every step keeps it.
THEOREM Invariance == Spec => []IInv
<1>1. IInv /\ [Next]_vars => IInv'
  <2> SUFFICES ASSUME IInv, [Next]_vars
               PROVE  IInv'
    OBVIOUS
  <2>1. CASE Next
    <3>1. Step /\ History
      BY <2>1 DEF Next, History
    <3>2. CASE SignAndPublish
      BY <3>1, <3>2, SignStep
    <3>3. CASE \E p \in pushes : Deliver(p) \/ LosePush(p)
      BY <3>1, <3>3, DeliverStep, LosePushStep
    <3>4. CASE \E q \in pulls : PullBody(q) \/ PullFails(q)
      BY <3>1, <3>4, PullBodyStep, PullFailsStep
    <3>5. CASE \E n \in Nodes \ {Owner} :
                  \/ \E t \in Tasks : TaskStep(n, t)
                  \/ \E v \in Versions : PushStep(n, v)
                  \/ \E p \in Passes : PassStep(n, p)
                  \/ RetryPending(n)
                  \/ Pause(n) \/ Resume(n)
                  \/ Crash(n)
      BY <3>1, <3>5, FollowerStep
    <3> QED
      BY <3>1, <3>2, <3>3, <3>4, <3>5 DEF Step
  <2>2. CASE UNCHANGED vars
    <3>1. TypeOK'
      BY <2>2 DEF IInv, TypeOK, vars, code
    <3>2. /\ \A p \in pushes' : p.v <= disk[Owner]
          /\ \A q \in pulls' : q.at # Owner
      BY <2>2 DEF IInv, OwnerAhead, vars, code
    <3> QED
      BY <2>2, <3>1, <3>2, AllStill DEF vars, code
  <2> QED
    BY <2>1, <2>2
<1> QED
  BY <1>1, InitSound, PTL DEF Spec

\* The types of the state.
THEOREM TypeCorrect == Spec => []TypeOK
<1>1. IInv => TypeOK
  BY DEF IInv
<1> QED
  BY <1>1, Invariance, PTL

\* No node stores, defers or works on a version before its owner signed it,
\* and no update is ever applied to the owner.
THEOREM OwnerLeads == Spec => []OwnerAhead
<1>1. IInv => OwnerAhead
  BY DEF IInv
<1> QED
  BY <1>1, Invariance, PTL

\* commit_root_update and its callers: a node at rest on which updates came
\* one at a time has adopted what is on its disk, and holds the files that its
\* content.json declares, or those of the update whose write failed.
THEOREM AtRestConsistent == Spec => []UntangledConsistent
<1>1. IInv => UntangledConsistent
  <2>1. ASSUME IInv, NEW n \in Nodes, AtRest(n), pending[n] = 0, ~tangled[n]
        PROVE  FilesNeeded(n, Placed(n)) = {} /\ mem[n] = disk[n]
    <3>1. Sound(n)
      BY <2>1 DEF IInv, Settled
    <3>2. Working(n) = {}
      BY <2>1 DEF AtRest
    <3>3. \A t \in Tasks : task[n][t].at # "adopt"
      BY <3>2 DEF Working
    <3> QED
      BY <2>1, <3>1, <3>2, <3>3 DEF Sound, RestTrue, MemTrue
  <2> QED
    BY <2>1 DEF UntangledConsistent
<1> QED
  BY <1>1, Invariance, PTL

-----------------------------------------------------------------------------
(***************************************************************************)
(* The user's directory (UserContent).  What is on the disks is declared   *)
(* by UserDirectory, its tasks and pushes by XiteUpdate under the same     *)
(* names; the rest of its parameters and of its state is declared here.    *)
(***************************************************************************)
CONSTANTS Devices, Records, MaxUser, MaxUsers, Banned, SweepUnion, RetryRounds,
          MaxTasks, MaxPushes, Pushed
VARIABLES written, clock, chain, batch

User == INSTANCE UserContent

Numbers == 0 .. MaxUser + MaxUsers

\* Every content.json that is stored, carried or on its way is a version of its
\* own path, and the one above the user's is always there.
Stored ==
    /\ ver \in [Nodes -> [User!Paths -> Numbers]]
    /\ \A n \in Nodes : /\ ver[n]["users"] \in User!UsersV
                        /\ ver[n]["user"] \in {0} \cup User!UserV
InTransit == \A p \in pushes : p.v \in User!VersionsOf(p.path)

\* A task carries a version of its path, and of the strays only the node's own.
UserTaskOk(n, k) ==
    /\ k \in User!TaskRecord
    /\ k.at \in {"add", "padd", "retry"} => k.v \in User!VersionsOf(k.path)
    /\ \A r \in k.got \cap Strays : Writer[r] = n
UserTasksOk == \A n \in Nodes : \A t \in User!Tasks : UserTaskOk(n, task[n][t])

\* The add_content calls c of a node with d on its disk.  While no two have
\* crossed (x), a call that stores or has stored a "users" content is the only
\* one, the parent that a user's content was verified against is still there,
\* and so is the copy a new parent is compared with and, in its scan, itself.
InScan(c) == \E t \in User!Tasks : c[t].at \in {"scan", "remove"}
CallOk(k) ==
    /\ k.at # "none" => k.v \in User!VersionsOf(k.path)
    /\ k.at \in {"scan", "remove"} => k.path = "users"
Apart(c) ==
    \A t, u \in User!Tasks :
        t # u /\ c[t].at # "none" /\ c[u].at # "none" => c[t].path = "user"
Fresh(d, k) ==
    /\ k.at = "write" /\ k.path = "user" => Modified[k.v] > Archived[d["users"]]
    /\ k.at = "write" /\ k.path = "users" => k.old = d["users"]
    /\ k.at \in {"scan", "remove"} => k.v = d["users"]
Gone(d) == d["user"] # 0 => Modified[d["user"]] >= Archived[d["users"]]
CallsOk(d, c, x) ==
    /\ \A t \in User!Tasks : CallOk(c[t])
    /\ x \/ (/\ Apart(c)
             /\ \A t \in User!Tasks : Fresh(d, c[t])
             /\ InScan(c) \/ Gone(d))
CallsTyped ==
    /\ adds \in [Nodes -> [User!Tasks -> User!AddRecord]]
    /\ crossed \in [Nodes -> BOOLEAN]
NodesOk == \A n \in Nodes : CallsOk(ver[n], adds[n], crossed[n])

UserInv ==
    /\ User!TypeOK
    /\ Stored
    /\ InTransit
    /\ UserTasksOk
    /\ NodesOk
    /\ User!StraysStay

\* Versions are numbers above 0, and 0 stands for no content.json.
LEMMA UserNumbers ==
    ASSUME User!UserContentAssumption
    PROVE  /\ MaxUser \in Nat \ {0} /\ MaxUsers \in Nat \ {0}
           /\ User!UserV \subseteq Nat \ {0} /\ User!UsersV \subseteq Nat \ {0}
           /\ User!UserV \subseteq Numbers /\ User!UsersV \subseteq Numbers
           /\ 0 \in Numbers /\ 1 \in User!UserV /\ 1 \in User!UsersV
           /\ \A path : User!VersionsOf(path) \subseteq User!UserV \cup User!UsersV
           /\ \A path : User!VersionsOf(path) \subseteq Numbers
           /\ \A path : 0 \notin User!VersionsOf(path)
BY DEF User!UserContentAssumption, User!UserV, User!UsersV, User!VersionsOf, Numbers

\* The tasks a node runs: a pass, a sweep, its signing and one per pushed version.
LEMMA UserTaskNames ==
    /\ User!Pass \in User!Tasks /\ User!Sweep \in User!Tasks
    /\ User!Sign \in User!Tasks
    /\ \A path \in User!Paths : \A v \in User!UserV \cup User!UsersV :
          <<path, v>> \in User!Tasks
BY DEF User!Tasks, User!Pushes

\* An idle task carries nothing.
LEMMA UserIdle ==
    ASSUME User!UserContentAssumption, NEW n
    PROVE  UserTaskOk(n, User!Idle) /\ User!Idle.at = "idle" /\ User!Idle.got = {}
<1>1. User!Idle \in User!TaskRecord
  <2>1. 0 \in Numbers /\ 0 \in 0 .. RetryRounds /\ Owner \in Nodes
    BY UserNumbers DEF User!UserContentAssumption
  <2> QED
    BY <2>1 DEF User!Idle, User!TaskRecord, User!Places, User!Paths, Numbers
<1> QED
  BY <1>1 DEF UserTaskOk, User!Idle

\* The parts of the state an action leaves alone, or changes in one place.
DiskOk == Stored /\ CallsTyped /\ NodesOk
PostsOk == posts \in [Nodes -> SUBSET Records] /\ User!StraysStay
TaskOk == task \in [Nodes -> [User!Tasks -> User!TaskRecord]] /\ UserTasksOk
PushOk == pushes \subseteq User!PushRecord /\ InTransit
RestOk ==
    /\ written \subseteq Records /\ clock \in User!UserV /\ chain \in BOOLEAN
    /\ upsets \in 0 .. MaxUpsets /\ batch \in 0 .. MaxTasks

\* No call is in order whatever is on the disk.
LEMMA NoAddFacts ==
    ASSUME User!UserContentAssumption
    PROVE  /\ User!NoAdd \in User!AddRecord /\ User!NoAdd.at = "none"
           /\ CallOk(User!NoAdd) /\ \A d : Fresh(d, User!NoAdd)
<1>1. 0 \in 0 .. MaxUser + MaxUsers
  BY UserNumbers DEF Numbers
<1>2. User!NoAdd \in User!AddRecord
  BY <1>1 DEF User!NoAdd, User!AddRecord, User!Paths
<1>3. User!NoAdd.at = "none"
  BY DEF User!NoAdd
<1> QED
  BY <1>2, <1>3 DEF CallOk, Fresh

\* One call changes and the others stay.
LEMMA CallPut ==
    ASSUME NEW c \in [User!Tasks -> User!AddRecord], NEW t \in User!Tasks,
           NEW k \in User!AddRecord, NEW c2, c2 = [c EXCEPT ![t] = k]
    PROVE  /\ c2 \in [User!Tasks -> User!AddRecord] /\ c2[t] = k
           /\ \A u \in User!Tasks : u # t => c2[u] = c[u]
OBVIOUS

\* A call that goes on, or ends, leaves the calls apart.
LEMMA ApartKept ==
    ASSUME NEW c \in [User!Tasks -> User!AddRecord], NEW t \in User!Tasks, Apart(c),
           NEW k \in User!AddRecord, NEW c2, c2 = [c EXCEPT ![t] = k],
           c[t].at # "none", k.at = "none" \/ k.path = c[t].path
    PROVE  Apart(c2)
<1>1. c2[t] = k /\ \A u \in User!Tasks : u # t => c2[u] = c[u]
  BY CallPut
<1>2. ASSUME NEW a \in User!Tasks, NEW b \in User!Tasks, a # b,
             c2[a].at # "none", c2[b].at # "none"
      PROVE  c2[a].path = "user"
  <2>1. c[a].at # "none" /\ c[b].at # "none"
    BY <1>1, <1>2
  <2>2. c[a].path = "user"
    BY <1>2, <2>1 DEF Apart
  <2> QED
    BY <1>1, <1>2, <2>2
<1> QED
  BY <1>2 DEF Apart

\* The calls of one node after a step of one of them.
LEMMA NodePut ==
    ASSUME Stored, CallsTyped, NodesOk, NEW n \in Nodes, NEW d, NEW c, NEW x \in BOOLEAN,
           d \in [User!Paths -> Numbers], d["users"] \in User!UsersV,
           d["user"] \in {0} \cup User!UserV, c \in [User!Tasks -> User!AddRecord],
           CallsOk(d, c, x), ver' = [ver EXCEPT ![n] = d],
           adds' = [adds EXCEPT ![n] = c], crossed' = [crossed EXCEPT ![n] = x]
    PROVE  DiskOk'
<1>1. /\ ver \in [Nodes -> [User!Paths -> Numbers]]
      /\ \A m \in Nodes : /\ ver[m]["users"] \in User!UsersV
                          /\ ver[m]["user"] \in {0} \cup User!UserV
  BY DEF Stored
<1>2. /\ ver' \in [Nodes -> [User!Paths -> Numbers]] /\ ver'[n] = d
      /\ \A m \in Nodes : m # n => ver'[m] = ver[m]
  BY <1>1
<1>3. Stored'
  BY <1>1, <1>2 DEF Stored, User!Paths, User!UsersV, User!UserV, Numbers
<1>4. adds \in [Nodes -> [User!Tasks -> User!AddRecord]] /\ crossed \in [Nodes -> BOOLEAN]
  BY DEF CallsTyped
<1>5. /\ adds' \in [Nodes -> [User!Tasks -> User!AddRecord]] /\ adds'[n] = c
      /\ \A m \in Nodes : m # n => adds'[m] = adds[m]
  BY <1>4
<1>6. /\ crossed' \in [Nodes -> BOOLEAN] /\ crossed'[n] = x
      /\ \A m \in Nodes : m # n => crossed'[m] = crossed[m]
  BY <1>4
<1>7. CallsTyped'
  BY <1>5, <1>6 DEF CallsTyped
<1>8. ASSUME NEW m \in Nodes
      PROVE  CallsOk(ver'[m], adds'[m], crossed'[m])
  <2>1. CASE m = n
    BY <1>2, <1>5, <1>6, <2>1
  <2>2. CASE m # n
    <3>1. ver'[m] = ver[m] /\ adds'[m] = adds[m] /\ crossed'[m] = crossed[m]
      BY <1>2, <1>5, <1>6, <2>2
    <3>2. CallsOk(ver[m], adds[m], crossed[m])
      BY DEF NodesOk
    <3> QED
      BY <3>1, <3>2
  <2> QED
    BY <2>1, <2>2
<1>9. NodesOk'
  BY <1>8 DEF NodesOk
<1> QED
  BY <1>3, <1>7, <1>9 DEF DiskOk

\* What the call lemmas below start from.
LEMMA NodeFacts ==
    ASSUME Stored, CallsTyped, NodesOk, NEW n \in Nodes
    PROVE  /\ ver[n] \in [User!Paths -> Numbers] /\ ver[n]["users"] \in User!UsersV
           /\ ver[n]["user"] \in {0} \cup User!UserV
           /\ adds[n] \in [User!Tasks -> User!AddRecord] /\ crossed[n] \in BOOLEAN
           /\ CallsOk(ver[n], adds[n], crossed[n])
           /\ ver \in [Nodes -> [User!Paths -> Numbers]]
           /\ adds \in [Nodes -> [User!Tasks -> User!AddRecord]]
           /\ crossed \in [Nodes -> BOOLEAN]
BY DEF Stored, CallsTyped, NodesOk

\* A call begins: what it stores was verified against the parent on the disk.
LEMMA AddContentFacts ==
    ASSUME User!UserContentAssumption, DiskOk,
           NEW n \in Nodes, NEW t \in User!Tasks, NEW path \in User!Paths,
           NEW v \in User!VersionsOf(path), path = "user" => ~User!IsArchived(n, v),
           User!AddContent(n, t, path, v), ver' = ver
    PROVE  DiskOk'
<1>1. Stored /\ CallsTyped /\ NodesOk
  BY DEF DiskOk
<1>2. PICK d, c, x : d = ver[n] /\ c = adds[n] /\ x = crossed[n]
  OBVIOUS
<1>3. /\ d \in [User!Paths -> Numbers] /\ d["users"] \in User!UsersV
      /\ d["user"] \in {0} \cup User!UserV
      /\ c \in [User!Tasks -> User!AddRecord] /\ x \in BOOLEAN /\ CallsOk(d, c, x)
  BY <1>1, <1>2, NodeFacts
<1>4. PICK k : k = [at |-> "write", path |-> path, v |-> v,
                    old |-> IF path = "users" THEN d["users"] ELSE 0]
  OBVIOUS
<1>5. v \in Numbers /\ 0 \in Numbers /\ d["users"] \in Numbers
  BY <1>3, UserNumbers
<1>6. /\ k \in User!AddRecord /\ k.at = "write" /\ k.path = path /\ k.v = v
      /\ path = "users" => k.old = d["users"]
  BY <1>4, <1>5 DEF User!AddRecord, Numbers
<1>7. PICK c2 : c2 = [c EXCEPT ![t] = k]
  OBVIOUS
<1>8. /\ c2 \in [User!Tasks -> User!AddRecord] /\ c2[t] = k
      /\ \A u \in User!Tasks : u # t => c2[u] = c[u]
  BY <1>3, <1>6, <1>7, CallPut
<1>9. PICK x2 \in BOOLEAN : x2 = (x \/ \E u \in User!Tasks \ {t} :
             /\ c[u].at # "none"
             /\ "users" \in {path, c[u].path})
  BY <1>3
<1>10. /\ c[t].at = "none"
       /\ adds' = [adds EXCEPT ![n] = c2] /\ crossed' = [crossed EXCEPT ![n] = x2]
  <2>1. c[t].at = "none" /\ adds' = [adds EXCEPT ![n][t] = k]
    BY <1>2, <1>4 DEF User!AddContent
  <2>2. adds' = [adds EXCEPT ![n] = c2]
    BY <1>1, <1>2, <1>7, <2>1 DEF CallsTyped
  <2>3. crossed' = [crossed EXCEPT ![n] = x2]
    BY <1>1, <1>2, <1>9 DEF User!AddContent, CallsTyped
  <2> QED
    BY <2>1, <2>2, <2>3
<1>11. CallsOk(d, c2, x2)
  <2>1. \A u \in User!Tasks : CallOk(c2[u])
    <3>1. CallOk(k)
      BY <1>6 DEF CallOk
    <3> QED
      BY <1>3, <1>8, <3>1 DEF CallsOk
  <2>2. ASSUME ~x2
        PROVE  Apart(c2) /\ (\A u \in User!Tasks : Fresh(d, c2[u])) /\ (InScan(c2) \/ Gone(d))
    <3>1. /\ ~x
          /\ \A u \in User!Tasks \ {t} : c[u].at # "none" => "users" \notin {path, c[u].path}
      BY <1>9, <2>2
    <3>2. Apart(c) /\ (\A u \in User!Tasks : Fresh(d, c[u])) /\ (InScan(c) \/ Gone(d))
      BY <1>3, <3>1 DEF CallsOk
    <3>3. path \in {"users", "user"} /\ \A u \in User!Tasks : c[u].path \in {"users", "user"}
      BY <1>3 DEF User!AddRecord, User!Paths
    <3>4. Apart(c2)
      <4>1. ASSUME NEW a \in User!Tasks, NEW b \in User!Tasks, a # b,
                   c2[a].at # "none", c2[b].at # "none"
            PROVE  c2[a].path = "user"
        <5>1. CASE a = t
          BY <1>6, <1>8, <3>1, <3>3, <4>1, <5>1
        <5>2. CASE a # t
          BY <1>8, <3>1, <3>3, <4>1, <5>2
        <5> QED
          BY <5>1, <5>2
      <4> QED
        BY <4>1 DEF Apart
    <3>5. Fresh(d, k)
      <4>1. path = "user" => Modified[v] > Archived[d["users"]]
        <5>1. ASSUME path = "user"
              PROVE  Modified[v] > Archived[d["users"]]
          <6>1. v \in User!UserV
            BY <5>1 DEF User!VersionsOf
          <6>2. Modified[v] \in Nat /\ Archived[d["users"]] \in Nat
            BY <1>3, <6>1 DEF User!UserContentAssumption
          <6>3. ~(Modified[v] <= Archived[d["users"]])
            BY <1>2, <5>1 DEF User!IsArchived
          <6> QED
            BY <6>2, <6>3
        <5> QED
          BY <5>1
      <4> QED
        BY <1>6, <4>1 DEF Fresh
    <3>6. \A u \in User!Tasks : Fresh(d, c2[u])
      BY <1>8, <3>2, <3>5
    <3>7. InScan(c2) \/ Gone(d)
      <4>1. InScan(c) => InScan(c2)
        BY <1>8, <1>10 DEF InScan
      <4> QED
        BY <3>2, <4>1
    <3> QED
      BY <3>4, <3>6, <3>7
  <2> QED
    BY <2>1, <2>2 DEF CallsOk
<1>12. ver' = [ver EXCEPT ![n] = d]
  BY <1>1, <1>2 DEF Stored
<1> QED
  BY <1>1, <1>3, <1>8, <1>9, <1>10, <1>11, <1>12, NodePut

\* The invariant is the conjunction of its parts, in a state and in the next.
LEMMA UserParts ==
    UserInv <=> DiskOk /\ PostsOk /\ TaskOk /\ PushOk /\ RestOk
<1>1. Stored => \A n \in Nodes : \A p \in User!Paths :
                    ver[n][p] \in {0} \cup User!VersionsOf(p)
  BY DEF Stored, User!Paths, User!VersionsOf
<1> QED
  BY <1>1 DEF UserInv, User!TypeOK, DiskOk, CallsTyped, PostsOk, TaskOk, PushOk, RestOk

LEMMA UserPartsNext ==
    ASSUME DiskOk', PostsOk', TaskOk', PushOk', RestOk'
    PROVE  UserInv'
<1>1. \A n \in Nodes : \A p \in User!Paths :
         ver'[n][p] \in {0} \cup User!VersionsOf(p)
  BY DEF DiskOk, Stored, User!Paths, User!VersionsOf, User!UsersV, User!UserV
<1>2. User!TypeOK'
  BY <1>1 DEF User!TypeOK, DiskOk, CallsTyped, PostsOk, TaskOk, PushOk, RestOk,
     User!VersionsOf, User!Paths, User!UsersV, User!UserV
<1> QED
  BY <1>2 DEF UserInv, DiskOk, PostsOk, TaskOk, PushOk

LEMMA DiskKept ==
    ASSUME DiskOk, ver' = ver, adds' = adds, crossed' = crossed
    PROVE  DiskOk'
<1>1. Stored'
  BY DEF DiskOk, Stored, User!Paths, Numbers, User!UsersV, User!UserV
<1>2. CallsTyped' /\ NodesOk'
  BY DEF DiskOk, CallsTyped, NodesOk
<1> QED
  BY <1>1, <1>2 DEF DiskOk

LEMMA PostsKept ==
    ASSUME PostsOk, posts' = posts
    PROVE  PostsOk'
BY DEF PostsOk, User!StraysStay

LEMMA TaskKept ==
    ASSUME TaskOk, task' = task
    PROVE  TaskOk'
<1>1. UserTasksOk'
  BY DEF TaskOk, UserTasksOk
<1> QED
  BY <1>1 DEF TaskOk, UserTasksOk

LEMMA PushKept ==
    ASSUME PushOk, pushes' \subseteq pushes
    PROVE  PushOk'
<1>1. InTransit'
  BY DEF PushOk, InTransit, User!VersionsOf
<1>2. pushes' \subseteq User!PushRecord
  BY DEF PushOk
<1> QED
  BY <1>1, <1>2 DEF PushOk, User!PushRecord

\* One task moves to a record that is in order, and the others stay.
LEMMA TaskPut ==
    ASSUME TaskOk, NEW n \in Nodes, NEW t \in User!Tasks, NEW k, UserTaskOk(n, k),
           task' = [task EXCEPT ![n][t] = k]
    PROVE  TaskOk'
<1>1. task \in [Nodes -> [User!Tasks -> User!TaskRecord]] /\ k \in User!TaskRecord
  BY DEF TaskOk, UserTaskOk
<1>2. task' \in [Nodes -> [User!Tasks -> User!TaskRecord]]
  BY <1>1
<1>3. ASSUME NEW m \in Nodes, NEW s \in User!Tasks
      PROVE  UserTaskOk(m, task'[m][s])
  <2>1. CASE m = n /\ s = t
    BY <1>1, <2>1
  <2>2. CASE ~(m = n /\ s = t)
    <3>1. task'[m][s] = task[m][s]
      BY <1>1, <2>2
    <3> QED
      BY <3>1 DEF TaskOk, UserTasksOk
  <2> QED
    BY <2>1, <2>2
<1>4. UserTasksOk'
  BY <1>3 DEF UserTasksOk
<1> QED
  BY <1>2, <1>4 DEF TaskOk

\* What publish_to sends is a version of its path.
LEMMA PublishFacts ==
    ASSUME User!UserContentAssumption, PushOk, NEW n \in Nodes, NEW path \in User!Paths,
           NEW v \in User!VersionsOf(path), User!Publish(n, path, v)
    PROVE  PushOk'
<1>1. PICK S \in SUBSET (Nodes \ {n}) :
         pushes' = pushes \cup {[to |-> m, from |-> n, path |-> path, v |-> v] : m \in S}
  BY DEF User!Publish
<1>2. v \in User!UserV \cup User!UsersV
  BY UserNumbers
<1>3. ASSUME NEW q \in pushes'
      PROVE  q \in User!PushRecord /\ q.v \in User!VersionsOf(q.path)
  <2>1. CASE q \in pushes
    BY <2>1 DEF PushOk, InTransit
  <2>2. CASE q \notin pushes
    <3>1. PICK m \in Nodes : q = [to |-> m, from |-> n, path |-> path, v |-> v]
      BY <1>1, <2>2
    <3> QED
      BY <1>2, <3>1 DEF User!PushRecord
  <2> QED
    BY <2>1, <2>2
<1>4. InTransit'
  BY <1>3 DEF InTransit, User!VersionsOf
<1>5. pushes' \subseteq User!PushRecord
  BY <1>3
<1> QED
  BY <1>4, <1>5 DEF PushOk, User!PushRecord

LEMMA UpsetFacts ==
    ASSUME User!UserContentAssumption, RestOk, User!Upset \/ upsets' = upsets
    PROVE  upsets' \in 0 .. MaxUpsets
<1>1. MaxUpsets \in Nat /\ upsets \in 0 .. MaxUpsets
  BY DEF User!UserContentAssumption, RestOk
<1> QED
  BY <1>1 DEF User!Upset

LEMMA StartFacts ==
    ASSUME User!UserContentAssumption, RestOk, User!Room, User!Start
    PROVE  batch' \in 0 .. MaxTasks
<1>1. MaxTasks \in Nat \ {0} /\ batch \in 0 .. MaxTasks
  BY DEF User!UserContentAssumption, RestOk
<1> QED
  BY <1>1 DEF User!Room, User!Start

LEMMA RestPut ==
    ASSUME RestOk, written' \subseteq Records, clock' \in User!UserV, chain' \in BOOLEAN,
           upsets' \in 0 .. MaxUpsets, batch' \in 0 .. MaxTasks
    PROVE  RestOk'
BY DEF RestOk, User!UserV

\* The place a task goes on to is one of its places.
LEMMA NextAtFacts ==
    ASSUME User!UserContentAssumption, NEW n, NEW k, UserTaskOk(n, k)
    PROVE  UserTaskOk(n, User!NextAt(k))
<1>1. /\ k.path \in {"users", "user"} /\ k.from \in Nodes /\ k.arrived \in BOOLEAN
      /\ k.list \in [User!Paths -> Numbers] /\ k.list["user"] \in Numbers
  BY DEF UserTaskOk, User!TaskRecord, User!Paths, Numbers
<1>2. PICK i \in User!TaskRecord : i = User!Idle /\ i.got = {} /\ i.at = "idle"
  BY UserIdle DEF UserTaskOk
<1>3. i.list \in [User!Paths -> Numbers]
  BY DEF User!TaskRecord, Numbers
<1>4. CASE k.path = "users"
  <2>1. PICK l : l = [i.list EXCEPT !["user"] = k.list["user"]]
    OBVIOUS
  <2>2. l \in [User!Paths -> Numbers]
    BY <1>1, <1>3, <2>1
  <2>3. PICK x : x = User!NextAt(k)
    OBVIOUS
  <2>4. x = [i EXCEPT !.at = "level", !.path = "user", !.from = k.from, !.list = l]
    BY <1>2, <1>4, <2>1, <2>3 DEF User!NextAt, User!TaskRecord
  <2>5. x \in User!TaskRecord /\ x.at = "level" /\ x.got = {}
    BY <1>1, <1>2, <2>2, <2>4 DEF User!TaskRecord, User!Paths, User!Places, Numbers
  <2> QED
    BY <2>3, <2>5 DEF UserTaskOk
<1>5. CASE k.path = "user"
  <2>1. PICK x : x = User!NextAt(k)
    OBVIOUS
  <2>2. PICK a \in {"open", "files"} : x = [[i EXCEPT !.path = "user"] EXCEPT !.at = a]
    BY <1>1, <1>2, <1>5, <2>1 DEF User!NextAt
  <2>3. PICK y : y = [i EXCEPT !.path = "user"]
    OBVIOUS
  <2>4. y \in User!TaskRecord /\ y.got = {}
    BY <1>2, <2>3 DEF User!TaskRecord, User!Paths
  <2>5. x = [y EXCEPT !.at = a]
    BY <2>2, <2>3
  <2>6. x \in User!TaskRecord /\ x.at = a /\ x.got = {}
    BY <2>4, <2>5 DEF User!TaskRecord, User!Places
  <2> QED
    BY <2>1, <2>6 DEF UserTaskOk
<1> QED
  BY <1>1, <1>4, <1>5

-----------------------------------------------------------------------------
(* Its steps.                                                              *)

\* The fields of a task the steps look at.
LEMMA UserTaskFields ==
    ASSUME TaskOk, NEW n \in Nodes, NEW t \in User!Tasks, NEW k, k = task[n][t]
    PROVE  /\ UserTaskOk(n, k) /\ k \in User!TaskRecord
           /\ k.path \in User!Paths /\ k.from \in Nodes
           /\ k.got \subseteq Records /\ k.keys \in BOOLEAN /\ k.asked \subseteq Nodes
           /\ k.round \in 0 .. RetryRounds /\ k.fetched \in BOOLEAN
           /\ k.list \in [User!Paths -> Numbers]
<1>1. UserTaskOk(n, k) /\ k \in User!TaskRecord
  BY DEF TaskOk, UserTasksOk, UserTaskOk
<1> QED
  BY <1>1 DEF User!TaskRecord, Numbers

\* One lemma per action follows: each keeps the invariant.
LEMMA WriteRecordStep ==
    ASSUME User!UserContentAssumption, UserInv, NEW r \in Records, User!WriteRecord(r)
    PROVE  UserInv'
<1>1. DiskOk /\ PostsOk /\ TaskOk /\ PushOk /\ RestOk
  BY UserParts
<1>2. PICK n \in Nodes : n = Writer[r]
  BY DEF User!UserContentAssumption
<1>3. /\ posts' = [posts EXCEPT ![n] = @ \cup {r}]
      /\ written' = written \cup {r}
      /\ User!Upset \/ upsets' = upsets
      /\ UNCHANGED <<ver, adds, crossed, clock, task, pushes, chain, batch>>
  BY <1>2 DEF User!WriteRecord, User!calls
<1>4. posts \in [Nodes -> SUBSET Records] /\ User!StraysStay
  BY <1>1 DEF PostsOk
<1>5. posts' \in [Nodes -> SUBSET Records]
  BY <1>3, <1>4
<1>6. ASSUME NEW m \in Nodes, NEW x \in posts'[m] \cap Strays
      PROVE  Writer[x] = m
  BY <1>2, <1>3, <1>4, <1>6 DEF User!StraysStay
<1>7. PostsOk'
  BY <1>5, <1>6 DEF PostsOk, User!StraysStay
<1>8. RestOk'
  BY <1>1, <1>3, UpsetFacts DEF RestOk
<1>9. DiskOk' /\ TaskOk' /\ PushOk'
  BY <1>1, <1>3, DiskKept, TaskKept, PushKept
<1> QED
  BY <1>7, <1>8, <1>9, UserPartsNext

\* What was signed is stored by a call of the signing task.
LEMMA SigningFacts ==
    ASSUME User!UserContentAssumption, UserInv, NEW n \in Nodes, NEW path \in User!Paths,
           NEW v \in User!VersionsOf(path), path = "user" => ~User!IsArchived(n, v),
           User!Signing(n, path, v), UNCHANGED <<ver, posts, written, pushes, chain>>,
           clock' \in User!UserV, upsets' \in 0 .. MaxUpsets
    PROVE  UserInv'
<1>1. DiskOk /\ PostsOk /\ TaskOk /\ PushOk /\ RestOk
  BY UserParts
<1>2. PICK t \in User!Tasks : t = User!Sign
  BY UserTaskNames
<1>3. PICK x : x = [User!Idle EXCEPT !.at = "files", !.path = path]
  OBVIOUS
<1>4. UserTaskOk(n, x)
  <2>1. PICK i \in User!TaskRecord : i = User!Idle /\ i.got = {}
    BY UserIdle DEF UserTaskOk
  <2>2. x \in User!TaskRecord /\ x.at = "files" /\ x.got = {}
    BY <1>3, <2>1 DEF User!TaskRecord, User!Places
  <2> QED
    BY <2>2 DEF UserTaskOk
<1>5. /\ task' = [task EXCEPT ![n][t] = x] /\ User!AddContent(n, t, path, v)
      /\ User!Room /\ User!Start
  BY <1>2, <1>3 DEF User!Signing
<1>6. DiskOk'
  BY <1>1, <1>5, AddContentFacts
<1>7. TaskOk'
  BY <1>1, <1>4, <1>5, TaskPut
<1>8. PostsOk' /\ PushOk'
  BY <1>1, PostsKept, PushKept
<1>9. RestOk'
  BY <1>1, <1>5, StartFacts, RestPut DEF RestOk
<1> QED
  BY <1>6, <1>7, <1>8, <1>9, UserPartsNext

LEMMA SignUserStep ==
    ASSUME User!UserContentAssumption, UserInv, NEW n \in Nodes, User!SignUser(n)
    PROVE  UserInv'
<1>1. RestOk
  BY UserParts
<1>2. PICK v : v = clock + 1
  OBVIOUS
<1>3. /\ clock < MaxUser /\ clock' = v /\ User!Signing(n, "user", v)
      /\ ~User!IsArchived(n, v) /\ UNCHANGED <<ver, posts, written, pushes, User!link>>
  BY <1>2 DEF User!SignUser, User!Verifies
<1>4. v \in User!UserV /\ "user" \in User!Paths
  BY <1>1, <1>2, <1>3, UserNumbers, SMTT(30) DEF RestOk, User!UserV, User!Paths
<1>5. v \in User!VersionsOf("user")
  BY <1>4 DEF User!VersionsOf
<1>6. upsets' \in 0 .. MaxUpsets
  BY <1>1, <1>3 DEF User!link, RestOk
<1> QED
  BY <1>3, <1>4, <1>5, <1>6, SigningFacts DEF User!link

LEMMA SignUsersStep ==
    ASSUME User!UserContentAssumption, UserInv, User!SignUsers
    PROVE  UserInv'
<1>1. RestOk
  BY UserParts
<1>2. PICK path \in User!Paths : path = "users"
  BY DEF User!Paths
<1>3. PICK v \in User!VersionsOf(path) :
         /\ User!Upset /\ User!Signing(Owner, path, v)
         /\ UNCHANGED <<ver, posts, written, clock, pushes, chain>>
  BY <1>2 DEF User!SignUsers, User!VersionsOf
<1>4. Owner \in Nodes
  BY DEF User!UserContentAssumption
<1>5. upsets' \in 0 .. MaxUpsets /\ clock' \in User!UserV
  BY <1>1, <1>3, UpsetFacts DEF RestOk
<1> QED
  BY <1>2, <1>3, <1>4, <1>5, SigningFacts

LEMMA UserLosePushStep ==
    ASSUME UserInv, NEW p \in pushes, User!LosePush(p)
    PROVE  UserInv'
<1>1. DiskOk /\ PostsOk /\ TaskOk /\ PushOk /\ RestOk
  BY UserParts
<1>2. DiskOk' /\ PostsOk' /\ TaskOk' /\ PushOk'
  BY <1>1, DiskKept, PostsKept, TaskKept, PushKept DEF User!LosePush, User!disks
<1>3. RestOk'
  BY <1>1, RestPut DEF User!LosePush, User!net, RestOk
<1> QED
  BY <1>2, <1>3, UserPartsNext

LEMMA UserDeliverStep ==
    ASSUME User!UserContentAssumption, UserInv, NEW p \in pushes, User!Deliver(p)
    PROVE  UserInv'
<1>1. DiskOk /\ PostsOk /\ TaskOk /\ PushOk /\ RestOk
  BY UserParts
<1>2. p \in User!PushRecord /\ p.v \in User!VersionsOf(p.path)
  BY <1>1 DEF PushOk, InTransit
<1>3. /\ p.to \in Nodes /\ p.from \in Nodes /\ p.path \in User!Paths
      /\ p.v \in User!UserV \cup User!UsersV
  BY <1>2 DEF User!PushRecord
<1>4. PICK t \in User!Tasks : t = <<p.path, p.v>>
  BY <1>3, UserTaskNames
<1>5. PICK k : k = [User!Idle EXCEPT !.at = "add", !.path = p.path, !.v = p.v,
                                     !.from = p.from]
  OBVIOUS
<1>6. UserTaskOk(p.to, k)
  <2>1. PICK i \in User!TaskRecord : i = User!Idle /\ i.got = {}
    BY UserIdle DEF UserTaskOk
  <2>2. p.v \in Numbers
    BY <1>2, UserNumbers
  <2>3. /\ k \in User!TaskRecord /\ k.got = {} /\ k.v = p.v /\ k.path = p.path
    BY <1>3, <1>5, <2>1, <2>2 DEF User!TaskRecord, User!Places, Numbers
  <2> QED
    BY <1>2, <2>3 DEF UserTaskOk
<1>7. /\ task' = [task EXCEPT ![p.to][t] = k] \/ task' = task
      /\ User!Room /\ User!Start /\ pushes' = pushes \ {p}
      /\ UNCHANGED <<User!disks, written, clock, User!link>>
  BY <1>4, <1>5 DEF User!Deliver
<1>8. TaskOk'
  BY <1>1, <1>3, <1>6, <1>7, TaskPut, TaskKept
<1>9. DiskOk' /\ PostsOk' /\ PushOk'
  BY <1>1, <1>7, DiskKept, PostsKept, PushKept DEF User!disks
<1>10. RestOk'
  BY <1>1, <1>7, StartFacts, RestPut DEF RestOk, User!link
<1> QED
  BY <1>8, <1>9, <1>10, UserPartsNext

\* A task moves on and nothing else does.
LEMMA TaskMoves ==
    ASSUME UserInv, NEW n \in Nodes, NEW t \in User!Tasks, NEW k, UserTaskOk(n, k),
           task' = [task EXCEPT ![n][t] = k],
           UNCHANGED <<ver, posts, adds, crossed, written, clock, pushes, chain>>,
           upsets' \in 0 .. MaxUpsets, batch' \in 0 .. MaxTasks
    PROVE  UserInv'
<1>1. DiskOk /\ PostsOk /\ TaskOk /\ PushOk /\ RestOk
  BY UserParts
<1>2. TaskOk'
  BY <1>1, TaskPut
<1>3. DiskOk' /\ PostsOk' /\ PushOk'
  BY <1>1, DiskKept, PostsKept, PushKept
<1>4. RestOk'
  BY <1>1, RestPut DEF RestOk
<1> QED
  BY <1>2, <1>3, <1>4, UserPartsNext

\* A task verifies the content.json it carries and goes on to store it, or does not.
LEMMA TaskStores ==
    ASSUME User!UserContentAssumption, UserInv, NEW n \in Nodes, NEW t \in User!Tasks,
           NEW k, k = task[n][t], k.at \in {"add", "padd", "retry"},
           NEW x, UserTaskOk(n, x), task' = [task EXCEPT ![n][t] = x],
           \/ UNCHANGED User!calls
           \/ \E keys : /\ User!Verifies(n, k.path, k.v, keys)
                        /\ User!AddContent(n, t, k.path, k.v),
           UNCHANGED <<ver, posts, written, clock, pushes, User!net>>
    PROVE  UserInv'
<1>1. DiskOk /\ PostsOk /\ TaskOk /\ PushOk /\ RestOk
  BY UserParts
<1>2. PICK path \in User!Paths : path = k.path
  BY <1>1, UserTaskFields
<1>3. PICK v \in User!VersionsOf(path) : v = k.v
  BY <1>1, <1>2, UserTaskFields DEF UserTaskOk
<1>4. DiskOk'
  <2>1. CASE UNCHANGED User!calls
    BY <1>1, <2>1, DiskKept DEF User!calls
  <2>2. CASE ~UNCHANGED User!calls
    <3>1. User!AddContent(n, t, path, v) /\ (path = "user" => ~User!IsArchived(n, v))
      BY <1>2, <1>3, <2>2 DEF User!Verifies
    <3> QED
      BY <1>1, <3>1, AddContentFacts
  <2> QED
    BY <2>1, <2>2
<1>5. TaskOk'
  BY <1>1, TaskPut
<1>6. PostsOk' /\ PushOk'
  BY <1>1, PostsKept, PushKept
<1>7. RestOk'
  BY <1>1, RestPut DEF RestOk, User!net
<1> QED
  BY <1>4, <1>5, <1>6, <1>7, UserPartsNext

LEMMA AddPushedStep ==
    ASSUME User!UserContentAssumption, UserInv, NEW n \in Nodes, NEW t \in User!Tasks,
           User!AddPushed(n, t)
    PROVE  UserInv'
<1>1. TaskOk
  BY UserParts
<1>2. PICK k : k = task[n][t]
  OBVIOUS
<1>3. /\ UserTaskOk(n, k) /\ k \in User!TaskRecord /\ k.at = "add"
      /\ UNCHANGED <<ver, posts, written, clock, pushes, User!net>>
  BY <1>1, <1>2, UserTaskFields DEF User!AddPushed
<1>4. PICK keys \in User!Resolves :
          IF User!Verifies(n, k.path, k.v, keys)
          THEN /\ User!AddContent(n, t, k.path, k.v)
               /\ task' = [task EXCEPT ![n][t] =
                      [k EXCEPT !.at = IF k.path = "user" THEN "open" ELSE "files",
                                !.keys = keys]]
          ELSE /\ task' = [task EXCEPT ![n][t] = User!Idle]
               /\ UNCHANGED User!calls
  BY <1>2 DEF User!AddPushed
<1>5. CASE User!Verifies(n, k.path, k.v, keys)
  <2>1. PICK a \in {"open", "files"} : a = IF k.path = "user" THEN "open" ELSE "files"
    OBVIOUS
  <2>2. keys \in BOOLEAN
    BY DEF User!Resolves
  <2>3. PICK x : x = [k EXCEPT !.at = a, !.keys = keys]
    OBVIOUS
  <2>4. x \in User!TaskRecord /\ x.at = a /\ x.got = k.got
    BY <1>3, <2>2, <2>3 DEF User!TaskRecord, User!Places
  <2>5. UserTaskOk(n, x)
    BY <1>3, <2>4 DEF UserTaskOk
  <2>6. task' = [task EXCEPT ![n][t] = x]
    BY <1>4, <1>5, <2>1, <2>3
  <2> QED
    BY <1>2, <1>3, <1>4, <1>5, <2>5, <2>6, TaskStores
<1>6. CASE ~User!Verifies(n, k.path, k.v, keys)
  BY <1>2, <1>3, <1>4, <1>6, UserIdle, TaskStores
<1> QED
  BY <1>5, <1>6

\* A call goes on: its record and the disk change, the rest stays.
LEMMA CallMoves ==
    ASSUME UserInv, DiskOk',
           UNCHANGED <<posts, written, clock, task, pushes, chain, upsets, batch>>
    PROVE  UserInv'
<1>1. PostsOk /\ TaskOk /\ PushOk /\ RestOk
  BY UserParts
<1>2. PostsOk' /\ TaskOk' /\ PushOk'
  BY <1>1, PostsKept, TaskKept, PushKept
<1>3. RestOk'
  BY <1>1, RestPut DEF RestOk
<1> QED
  BY <1>2, <1>3, UserPartsNext

\* The calls of a node stay in order when one of them takes a step to d2 and k.
LEMMA CallStep ==
    ASSUME User!UserContentAssumption, DiskOk, NEW n \in Nodes, NEW t \in User!Tasks,
           NEW d2 \in [User!Paths -> Numbers], d2["users"] \in User!UsersV,
           d2["user"] \in {0} \cup User!UserV, NEW k \in User!AddRecord,
           adds[n][t].at # "none", k.at = "none" \/ k.path = adds[n][t].path, CallOk(k),
           ~crossed[n] =>
               /\ Fresh(d2, k)
               /\ d2["users"] = ver[n]["users"] \/ adds[n][t].path = "users"
               /\ k.at \in {"scan", "remove"} \/ Gone(d2),
           ver' = [ver EXCEPT ![n] = d2], adds' = [adds EXCEPT ![n][t] = k],
           crossed' = crossed
    PROVE  DiskOk'
<1>1. Stored /\ CallsTyped /\ NodesOk
  BY DEF DiskOk
<1>2. PICK d, c, x : d = ver[n] /\ c = adds[n] /\ x = crossed[n]
  OBVIOUS
<1>3. /\ d \in [User!Paths -> Numbers] /\ d["users"] \in User!UsersV
      /\ c \in [User!Tasks -> User!AddRecord] /\ x \in BOOLEAN /\ CallsOk(d, c, x)
  BY <1>1, <1>2, NodeFacts
<1>4. PICK c2 : c2 = [c EXCEPT ![t] = k]
  OBVIOUS
<1>5. /\ c2 \in [User!Tasks -> User!AddRecord] /\ c2[t] = k
      /\ \A u \in User!Tasks : u # t => c2[u] = c[u]
  BY <1>3, <1>4, CallPut
<1>6. CallsOk(d2, c2, x)
  <2>1. \A u \in User!Tasks : CallOk(c2[u])
    BY <1>3, <1>5 DEF CallsOk
  <2>2. ASSUME ~x
        PROVE  /\ Apart(c2) /\ (\A u \in User!Tasks : Fresh(d2, c2[u]))
               /\ InScan(c2) \/ Gone(d2)
    <3>1. Apart(c) /\ \A u \in User!Tasks : Fresh(d, c[u])
      BY <1>3, <2>2 DEF CallsOk
    <3>2. Apart(c2)
      BY <1>2, <1>3, <1>4, <3>1, ApartKept
    <3>3. ASSUME NEW u \in User!Tasks
          PROVE  Fresh(d2, c2[u])
      <4>1. CASE u = t
        BY <1>2, <1>5, <2>2, <4>1
      <4>2. CASE u # t /\ c[t].path = "users"
        <5>1. c[u].at = "none"
          BY <1>2, <3>1, <4>2 DEF Apart
        <5> QED
          BY <1>5, <4>2, <5>1 DEF Fresh
      <4>3. CASE u # t /\ c[t].path # "users"
        <5>1. d2["users"] = d["users"] /\ c2[u] = c[u] /\ Fresh(d, c[u])
          BY <1>2, <1>5, <2>2, <3>1, <4>3
        <5> QED
          BY <5>1 DEF Fresh
      <4> QED
        BY <4>1, <4>2, <4>3
    <3>4. InScan(c2) \/ Gone(d2)
      BY <1>2, <1>5, <2>2 DEF InScan
    <3> QED
      BY <3>2, <3>3, <3>4
  <2> QED
    BY <2>1, <2>2 DEF CallsOk
<1>7. adds' = [adds EXCEPT ![n] = c2]
  BY <1>1, <1>2, <1>4 DEF CallsTyped
<1>8. crossed' = [crossed EXCEPT ![n] = x]
  BY <1>1, <1>2 DEF CallsTyped
<1>9. ASSUME NEW y \in BOOLEAN, y = x
      PROVE  DiskOk'
  <2>1. CallsOk(d2, c2, y) /\ crossed' = [crossed EXCEPT ![n] = y]
    BY <1>6, <1>8, <1>9
  <2>2. /\ n \in Nodes /\ y \in BOOLEAN /\ d2 \in [User!Paths -> Numbers]
        /\ d2["users"] \in User!UsersV /\ d2["user"] \in {0} \cup User!UserV
        /\ c2 \in [User!Tasks -> User!AddRecord] /\ ver' = [ver EXCEPT ![n] = d2]
    BY <1>5, <1>9
  <2> QED
    BY ONLY <1>1, <1>7, <2>1, <2>2, NodePut, ZenonT(60)
<1> QED
  BY <1>3, <1>9

\* What a step of a call reads: its record, and the two versions on the disk.
LEMMA CallFields ==
    ASSUME User!UserContentAssumption, UserInv, NEW n \in Nodes, NEW t \in User!Tasks,
           NEW d, d = ver[n], NEW k, k = adds[n][t], k.at # "none"
    PROVE  /\ DiskOk /\ d \in [User!Paths -> Numbers] /\ d["users"] \in User!UsersV
           /\ d["user"] \in {0} \cup User!UserV /\ k \in User!AddRecord
           /\ k.v \in User!VersionsOf(k.path) /\ CallOk(k)
           /\ ~crossed[n] =>
                 /\ Fresh(d, k)
                 /\ k.at = "write" /\ k.path = "users" => Gone(d)
<1>1. DiskOk
  BY UserParts
<1>2. Stored /\ CallsTyped /\ NodesOk
  BY <1>1 DEF DiskOk
<1>3. PICK c, x : c = adds[n] /\ x = crossed[n]
  OBVIOUS
<1>4. /\ d \in [User!Paths -> Numbers] /\ d["users"] \in User!UsersV
      /\ d["user"] \in {0} \cup User!UserV
      /\ c \in [User!Tasks -> User!AddRecord] /\ x \in BOOLEAN /\ CallsOk(d, c, x)
  BY <1>2, <1>3, NodeFacts
<1>5. k \in User!AddRecord /\ CallOk(k) /\ k = c[t]
  BY <1>3, <1>4 DEF CallsOk
<1>6. k.v \in User!VersionsOf(k.path)
  BY <1>5 DEF CallOk
<1>7. ASSUME ~x
      PROVE  Fresh(d, k) /\ (k.at = "write" /\ k.path = "users" => Gone(d))
  <2>1. Apart(c) /\ (\A u \in User!Tasks : Fresh(d, c[u])) /\ (InScan(c) \/ Gone(d))
    BY <1>4, <1>7 DEF CallsOk
  <2>2. ASSUME k.at = "write", k.path = "users"
        PROVE  ~InScan(c)
    <3>1. \A u \in User!Tasks : u # t => c[u].at = "none"
      BY <1>5, <2>1, <2>2 DEF Apart
    <3> QED
      BY <1>5, <2>2, <3>1 DEF InScan
  <2> QED
    BY <1>5, <2>1, <2>2
<1> QED
  BY <1>1, <1>3, <1>4, <1>5, <1>6, <1>7

LEMMA WriteContentStep ==
    ASSUME User!UserContentAssumption, UserInv, NEW n \in Nodes, NEW t \in User!Tasks,
           User!WriteContent(n, t)
    PROVE  UserInv'
<1>1. PICK d, k : d = ver[n] /\ k = adds[n][t]
  OBVIOUS
<1>2. /\ k.at = "write" /\ ver' = [ver EXCEPT ![n][k.path] = k.v]
      /\ adds' = [adds EXCEPT ![n][t] =
                     IF User!NewCutoff(k) THEN [k EXCEPT !.at = "scan"] ELSE User!NoAdd]
      /\ UNCHANGED <<posts, crossed, written, clock, task, pushes, chain, upsets, batch>>
  BY <1>1 DEF User!WriteContent
<1>3. /\ DiskOk /\ d \in [User!Paths -> Numbers] /\ d["users"] \in User!UsersV
      /\ d["user"] \in {0} \cup User!UserV /\ k \in User!AddRecord
      /\ k.v \in User!VersionsOf(k.path)
      /\ ~crossed[n] => Fresh(d, k) /\ (k.path = "users" => Gone(d))
  BY <1>1, <1>2, CallFields
<1>4. k.path \in {"users", "user"} /\ k.v \in Numbers /\ k.path \in User!Paths
  BY <1>3, UserNumbers DEF User!AddRecord, User!Paths
<1>5. PICK d2 : d2 = [d EXCEPT ![k.path] = k.v]
  OBVIOUS
<1>6. /\ d2 \in [User!Paths -> Numbers]
      /\ d2["users"] = IF k.path = "users" THEN k.v ELSE d["users"]
      /\ d2["user"] = IF k.path = "user" THEN k.v ELSE d["user"]
  BY <1>3, <1>4, <1>5 DEF User!Paths
<1>7. d2["users"] \in User!UsersV /\ d2["user"] \in {0} \cup User!UserV
  BY <1>3, <1>4, <1>6 DEF User!VersionsOf
<1>8. PICK j : j = IF User!NewCutoff(k) THEN [k EXCEPT !.at = "scan"] ELSE User!NoAdd
  OBVIOUS
<1>9. /\ j \in User!AddRecord /\ j.at \in {"none", "scan"}
      /\ User!NewCutoff(k) => j.at = "scan" /\ j.path = k.path /\ j.v = k.v
      /\ ~User!NewCutoff(k) => j = User!NoAdd
  BY <1>3, <1>8, NoAddFacts DEF User!AddRecord
<1>10. j.at # "none" => j.path = k.path /\ k.path = "users" /\ j.v = k.v
  BY <1>9, NoAddFacts DEF User!NewCutoff
<1>11. CallOk(j)
  BY <1>3, <1>9, <1>10 DEF CallOk
<1>12. Fresh(d2, j)
  BY <1>6, <1>9, <1>10 DEF Fresh
<1>13. ASSUME ~crossed[n], j.at \notin {"scan", "remove"}
       PROVE  Gone(d2)
  <2>1. /\ \A w \in User!UserV : Modified[w] \in Nat
        /\ \A w \in User!UsersV : Archived[w] \in Nat
    BY DEF User!UserContentAssumption
  <2>2. CASE k.path = "user"
    <3>1. /\ Modified[k.v] > Archived[d["users"]] /\ k.v \in User!UserV
          /\ d2["users"] = d["users"] /\ d2["user"] = k.v
      BY <1>2, <1>3, <1>6, <1>13, <2>2 DEF Fresh, User!VersionsOf
    <3> QED
      BY <1>3, <2>1, <3>1 DEF Gone
  <2>3. CASE k.path = "users"
    <3>1. k.old = d["users"] /\ Gone(d) /\ ~User!NewCutoff(k)
      BY <1>2, <1>3, <1>9, <1>13, <2>3 DEF Fresh
    <3>2. Archived[k.v] = Archived[d["users"]] /\ d2["users"] = k.v /\ d2["user"] = d["user"]
      BY <1>6, <2>3, <3>1 DEF User!NewCutoff
    <3> QED
      BY <3>1, <3>2 DEF Gone
  <2> QED
    BY <1>4, <2>2, <2>3
<1>14. ver' = [ver EXCEPT ![n] = d2] /\ adds' = [adds EXCEPT ![n][t] = j]
  BY <1>1, <1>2, <1>3, <1>5, <1>8 DEF DiskOk, Stored
<1>15. d2["users"] = ver[n]["users"] \/ k.path = "users"
  BY <1>1, <1>6
<1>16. /\ adds[n][t].at # "none" /\ (j.at = "none" \/ j.path = adds[n][t].path)
       /\ crossed' = crossed
       /\ ~crossed[n] =>
             /\ Fresh(d2, j)
             /\ d2["users"] = ver[n]["users"] \/ adds[n][t].path = "users"
             /\ j.at \in {"scan", "remove"} \/ Gone(d2)
  BY <1>1, <1>2, <1>10, <1>12, <1>13, <1>15
<1>17. DiskOk'
  BY <1>3, <1>6, <1>7, <1>9, <1>11, <1>14, <1>16, CallStep, ZenonT(60)
<1> QED
  BY <1>2, <1>17, CallMoves

LEMMA ScanArchivedStep ==
    ASSUME User!UserContentAssumption, UserInv, NEW n \in Nodes, NEW t \in User!Tasks,
           User!ScanArchived(n, t)
    PROVE  UserInv'
<1>1. PICK d, k : d = ver[n] /\ k = adds[n][t]
  OBVIOUS
<1>2. /\ k.at = "scan"
      /\ adds' = [adds EXCEPT ![n][t] =
                     IF User!ArchivesUser(n, k.v) THEN [k EXCEPT !.at = "remove"]
                     ELSE User!NoAdd]
      /\ UNCHANGED <<ver, posts, crossed, written, clock, task, pushes, chain, upsets, batch>>
  BY <1>1 DEF User!ScanArchived
<1>3. /\ DiskOk /\ d \in [User!Paths -> Numbers] /\ d["users"] \in User!UsersV
      /\ d["user"] \in {0} \cup User!UserV /\ k \in User!AddRecord
      /\ k.v \in User!VersionsOf(k.path) /\ CallOk(k)
      /\ ~crossed[n] => Fresh(d, k)
  BY <1>1, <1>2, CallFields
<1>4. PICK j : j = IF User!ArchivesUser(n, k.v) THEN [k EXCEPT !.at = "remove"] ELSE User!NoAdd
  OBVIOUS
<1>5. /\ j \in User!AddRecord /\ j.at \in {"none", "remove"}
      /\ User!ArchivesUser(n, k.v) => j.at = "remove" /\ j.path = k.path /\ j.v = k.v
      /\ ~User!ArchivesUser(n, k.v) => j = User!NoAdd
  BY <1>3, <1>4, NoAddFacts DEF User!AddRecord
<1>6. k.path = "users"
  BY <1>2, <1>3 DEF CallOk
<1>7. j.at # "none" => j.path = k.path /\ j.v = k.v
  BY <1>5, NoAddFacts
<1>8. CallOk(j)
  BY <1>3, <1>5, <1>6, <1>7 DEF CallOk
<1>9. ASSUME ~crossed[n]
      PROVE  Fresh(d, j) /\ (j.at \in {"scan", "remove"} \/ Gone(d))
  <2>1. k.v = d["users"]
    BY <1>2, <1>3, <1>9 DEF Fresh
  <2>2. Fresh(d, j)
    BY <1>5, <1>7, <2>1 DEF Fresh
  <2>3. ASSUME ~User!ArchivesUser(n, k.v)
        PROVE  Gone(d)
    <3>1. ASSUME d["user"] # 0
          PROVE  Modified[d["user"]] >= Archived[d["users"]]
      <4>1. d["user"] \in User!UserV
        BY <1>3, <3>1
      <4>2. Modified[d["user"]] \in Nat /\ Archived[d["users"]] \in Nat
        BY <1>3, <4>1 DEF User!UserContentAssumption
      <4>3. ~(Modified[d["user"]] < Archived[d["users"]])
        BY <1>1, <2>1, <2>3, <3>1 DEF User!ArchivesUser
      <4> QED
        BY <4>2, <4>3
    <3> QED
      BY <3>1 DEF Gone
  <2> QED
    BY <1>5, <2>2, <2>3
<1>10. ver' = [ver EXCEPT ![n] = d] /\ adds' = [adds EXCEPT ![n][t] = j]
  BY <1>1, <1>2, <1>3, <1>4 DEF DiskOk, Stored
<1>11. /\ adds[n][t].at # "none" /\ (j.at = "none" \/ j.path = adds[n][t].path)
       /\ crossed' = crossed
       /\ ~crossed[n] =>
             /\ Fresh(d, j)
             /\ d["users"] = ver[n]["users"] \/ adds[n][t].path = "users"
             /\ j.at \in {"scan", "remove"} \/ Gone(d)
  BY <1>1, <1>2, <1>7, <1>9
<1>12. DiskOk'
  BY <1>3, <1>5, <1>8, <1>10, <1>11, CallStep, ZenonT(60)
<1> QED
  BY <1>2, <1>12, CallMoves

LEMMA RemoveChildStep ==
    ASSUME User!UserContentAssumption, UserInv, NEW n \in Nodes, NEW t \in User!Tasks,
           User!RemoveChild(n, t)
    PROVE  UserInv'
<1>1. PICK d, k : d = ver[n] /\ k = adds[n][t]
  OBVIOUS
<1>2. /\ k.at = "remove" /\ ver' = [ver EXCEPT ![n]["user"] = 0]
      /\ adds' = [adds EXCEPT ![n][t] = User!NoAdd]
      /\ UNCHANGED <<posts, crossed, written, clock, task, pushes, chain, upsets, batch>>
  BY <1>1 DEF User!RemoveChild
<1>3. /\ DiskOk /\ d \in [User!Paths -> Numbers] /\ d["users"] \in User!UsersV
      /\ k \in User!AddRecord
  BY <1>1, <1>2, CallFields
<1>4. PICK d2 : d2 = [d EXCEPT !["user"] = 0]
  OBVIOUS
<1>5. /\ d2 \in [User!Paths -> Numbers] /\ d2["users"] = d["users"] /\ d2["user"] = 0
  BY <1>3, <1>4, UserNumbers DEF User!Paths
<1>6. Gone(d2) /\ Fresh(d2, User!NoAdd)
  BY <1>5, NoAddFacts DEF Gone
<1>7. ver' = [ver EXCEPT ![n] = d2]
  BY <1>1, <1>2, <1>3, <1>4 DEF DiskOk, Stored
<1>8. DiskOk'
  BY <1>1, <1>2, <1>3, <1>5, <1>6, <1>7, NoAddFacts, CallStep
<1> QED
  BY <1>2, <1>8, CallMoves

LEMMA UserStartPassStep ==
    ASSUME User!UserContentAssumption, UserInv, NEW n \in Nodes, NEW m \in Nodes,
           User!StartPass(n, m)
    PROVE  UserInv'
<1>1. DiskOk /\ RestOk
  BY UserParts
<1>2. PICK i \in User!TaskRecord : i = User!Idle /\ i.got = {}
  BY UserIdle DEF UserTaskOk
<1>3. PICK x : x = [i EXCEPT !.at = "level", !.from = m, !.list = ver[m]]
  OBVIOUS
<1>4. ver[m] \in [User!Paths -> Numbers]
  BY <1>1 DEF DiskOk, Stored
<1>5. x \in User!TaskRecord /\ x.at = "level" /\ x.got = {}
  BY <1>2, <1>3, <1>4 DEF User!TaskRecord, User!Places, Numbers
<1>6. UserTaskOk(n, x)
  BY <1>5 DEF UserTaskOk
<1>7. /\ task' = [task EXCEPT ![n][User!Pass] = x] /\ User!Room /\ User!Start
      /\ UNCHANGED <<User!disks, written, clock, pushes, User!link>>
  BY <1>2, <1>3 DEF User!StartPass
<1>8. batch' \in 0 .. MaxTasks /\ upsets' \in 0 .. MaxUpsets
  BY <1>1, <1>7, StartFacts DEF RestOk, User!link
<1> QED
  BY <1>6, <1>7, <1>8, UserTaskNames, TaskMoves DEF User!disks, User!link

\* The version a level is taken on with: fetched from a peer, or the disk's own.
LEMMA CarriedFacts ==
    ASSUME User!UserContentAssumption, DiskOk, NEW n \in Nodes, NEW m \in Nodes,
           NEW k, UserTaskOk(n, k), ver[m][k.path] # 0, NEW f \in BOOLEAN, NEW x,
           x = [k EXCEPT !.at = "padd", !.v = ver[m][k.path], !.fetched = f,
                         !.list[k.path] = 0]
    PROVE  UserTaskOk(n, x)
<1>1. k \in User!TaskRecord /\ k.path \in {"users", "user"} /\ k.list \in [User!Paths -> Numbers]
      /\ k.path \in User!Paths
  BY DEF UserTaskOk, User!TaskRecord, User!Paths, Numbers
<1>2. PICK v : v = ver[m][k.path]
  OBVIOUS
<1>3. v \in User!VersionsOf(k.path)
  BY <1>1, <1>2 DEF DiskOk, Stored, User!VersionsOf
<1>4. v \in Numbers /\ 0 \in Numbers
  BY <1>3, UserNumbers
<1>5. PICK l : l = [k.list EXCEPT ![k.path] = 0]
  OBVIOUS
<1>6. l \in [User!Paths -> Numbers]
  BY <1>1, <1>4, <1>5
<1>7. x = [k EXCEPT !.at = "padd", !.v = v, !.fetched = f, !.list = l]
  BY <1>1, <1>2, <1>5 DEF User!TaskRecord
<1>8. x \in User!TaskRecord /\ x.got = k.got /\ x.v = v /\ x.path = k.path
  BY <1>1, <1>4, <1>6, <1>7 DEF User!TaskRecord, User!Places, Numbers
<1> QED
  BY <1>3, <1>8 DEF UserTaskOk

LEMMA ServeStep ==
    ASSUME User!UserContentAssumption, UserInv, NEW n \in Nodes, User!Serve(n)
    PROVE  UserInv'
<1>1. DiskOk /\ TaskOk /\ RestOk
  BY UserParts
<1>2. PICK t \in User!Tasks : t = User!Pass
  BY UserTaskNames
<1>3. PICK k : k = task[n][t]
  OBVIOUS
<1>4. UserTaskOk(n, k) /\ k.from \in Nodes
  BY <1>1, <1>3, UserTaskFields
<1>5. PICK x : x = [k EXCEPT !.at = "padd", !.v = ver[k.from][k.path], !.fetched = TRUE,
                             !.list[k.path] = 0]
  OBVIOUS
<1>6. /\ ver[k.from][k.path] # 0 /\ task' = [task EXCEPT ![n][t] = x]
      /\ UNCHANGED <<User!disks, written, clock, pushes, User!net>>
  BY <1>2, <1>3, <1>5 DEF User!Serve
<1>7. UserTaskOk(n, x)
  BY <1>1, <1>4, <1>5, <1>6, CarriedFacts
<1> QED
  BY <1>1, <1>6, <1>7, TaskMoves DEF User!disks, User!net, RestOk

LEMMA KeepDiskStep ==
    ASSUME User!UserContentAssumption, UserInv, NEW n \in Nodes, User!KeepDisk(n)
    PROVE  UserInv'
<1>1. DiskOk /\ TaskOk /\ RestOk
  BY UserParts
<1>2. PICK t \in User!Tasks : t = User!Pass
  BY UserTaskNames
<1>3. PICK k : k = task[n][t]
  OBVIOUS
<1>4. UserTaskOk(n, k) /\ k.fetched \in BOOLEAN /\ k \in User!TaskRecord
  BY <1>1, <1>3, UserTaskFields
<1>5. PICK x : x = IF ver[n][k.path] = 0 THEN User!NextAt(k)
                   ELSE [k EXCEPT !.at = "padd", !.v = ver[n][k.path], !.list[k.path] = 0]
  OBVIOUS
<1>6. /\ task' = [task EXCEPT ![n][t] = x] /\ (User!Upset \/ upsets' = upsets)
      /\ UNCHANGED <<User!disks, written, clock, pushes, chain, batch>>
  BY <1>2, <1>3, <1>5 DEF User!KeepDisk
<1>7. UserTaskOk(n, x)
  <2>1. CASE ver[n][k.path] = 0
    BY <1>4, <1>5, <2>1, NextAtFacts
  <2>2. CASE ver[n][k.path] # 0
    <3>1. x = [k EXCEPT !.at = "padd", !.v = ver[n][k.path], !.fetched = k.fetched,
                        !.list[k.path] = 0]
      BY <1>4, <1>5, <2>2 DEF User!TaskRecord
    <3> QED
      BY <1>1, <1>4, <2>2, <3>1, CarriedFacts
  <2> QED
    BY <2>1, <2>2
<1>8. upsets' \in 0 .. MaxUpsets
  BY <1>1, <1>6, UpsetFacts
<1> QED
  BY <1>1, <1>6, <1>7, <1>8, TaskMoves DEF User!disks, RestOk

LEMMA ArrivedFacts ==
    ASSUME User!UserContentAssumption, NEW n, NEW k, UserTaskOk(n, k), NEW b \in BOOLEAN
    PROVE  UserTaskOk(n, User!NextAt([k EXCEPT !.arrived = b]))
<1>1. PICK x : x = [k EXCEPT !.arrived = b]
  OBVIOUS
<1>2. k \in User!TaskRecord
  BY DEF UserTaskOk
<1>3. /\ x \in User!TaskRecord /\ x.got = k.got /\ x.at = k.at /\ x.v = k.v
      /\ x.path = k.path
  BY <1>1, <1>2 DEF User!TaskRecord
<1>4. UserTaskOk(n, x)
  BY <1>3 DEF UserTaskOk
<1> QED
  BY <1>1, <1>4, NextAtFacts

LEMMA AddListedStep ==
    ASSUME User!UserContentAssumption, UserInv, NEW n \in Nodes, User!AddListed(n)
    PROVE  UserInv'
<1>1. TaskOk
  BY UserParts
<1>2. PICK t \in User!Tasks : t = User!Pass
  BY UserTaskNames
<1>3. PICK k : k = task[n][t]
  OBVIOUS
<1>4. /\ UserTaskOk(n, k) /\ k.fetched \in BOOLEAN /\ k \in User!TaskRecord
      /\ k.at = "padd" /\ UNCHANGED <<ver, posts, written, clock, pushes, User!net>>
  BY <1>1, <1>2, <1>3, UserTaskFields DEF User!AddListed
<1>5. PICK keys \in User!Resolves :
          IF User!Verifies(n, k.path, k.v, keys)
          THEN /\ User!AddContent(n, t, k.path, k.v)
               /\ task' = [task EXCEPT ![n][t] =
                              User!NextAt([k EXCEPT !.arrived = k.fetched])]
          ELSE /\ task' = [task EXCEPT ![n][t] =
                              IF k.fetched THEN [k EXCEPT !.at = "retry"]
                                           ELSE User!NextAt(k)]
               /\ UNCHANGED User!calls
  BY <1>2, <1>3 DEF User!AddListed
<1>6. CASE User!Verifies(n, k.path, k.v, keys)
  BY <1>3, <1>4, <1>5, <1>6, ArrivedFacts, TaskStores
<1>7. CASE ~User!Verifies(n, k.path, k.v, keys)
  <2>1. PICK x : x = [k EXCEPT !.at = "retry"]
    OBVIOUS
  <2>2. x \in User!TaskRecord /\ x.got = k.got /\ x.v = k.v /\ x.path = k.path
    BY <1>4, <2>1 DEF User!TaskRecord, User!Places
  <2>3. UserTaskOk(n, x)
    BY <1>4, <2>2 DEF UserTaskOk
  <2>4. PICK y : y = IF k.fetched THEN x ELSE User!NextAt(k)
    OBVIOUS
  <2>5. UserTaskOk(n, y)
    BY <1>4, <2>3, <2>4, NextAtFacts
  <2>6. task' = [task EXCEPT ![n][t] = y] /\ UNCHANGED User!calls
    BY <1>5, <1>7, <2>1, <2>4
  <2> QED
    BY <1>3, <1>4, <2>5, <2>6, TaskStores
<1> QED
  BY <1>6, <1>7

LEMMA RetryStep ==
    ASSUME User!UserContentAssumption, UserInv, NEW n \in Nodes, User!Retry(n)
    PROVE  UserInv'
<1>1. TaskOk
  BY UserParts
<1>2. PICK t \in User!Tasks : t = User!Pass
  BY UserTaskNames
<1>3. PICK k : k = task[n][t]
  OBVIOUS
<1>4. /\ UserTaskOk(n, k) /\ k.round \in 0 .. RetryRounds /\ k \in User!TaskRecord
      /\ k.at = "retry" /\ UNCHANGED <<ver, posts, written, clock, pushes, User!net>>
  BY <1>1, <1>2, <1>3, UserTaskFields DEF User!Retry
<1>5. PICK keys \in User!Resolves :
          IF User!Verifies(n, k.path, k.v, keys) /\ k.round < RetryRounds
          THEN /\ User!AddContent(n, t, k.path, k.v)
               /\ task' = [task EXCEPT ![n][t] =
                              User!NextAt([k EXCEPT !.arrived = TRUE])]
          ELSE /\ task' = [task EXCEPT ![n][t] =
                              IF k.round < RetryRounds
                              THEN [k EXCEPT !.round = @ + 1]
                              ELSE User!NextAt(k)]
               /\ UNCHANGED User!calls
  BY <1>2, <1>3 DEF User!Retry
<1>6. CASE User!Verifies(n, k.path, k.v, keys) /\ k.round < RetryRounds
  BY <1>3, <1>4, <1>5, <1>6, ArrivedFacts, TaskStores
<1>7. CASE ~(User!Verifies(n, k.path, k.v, keys) /\ k.round < RetryRounds)
  <2>1. PICK x : x = IF k.round < RetryRounds THEN [k EXCEPT !.round = k.round + 1]
                     ELSE User!NextAt(k)
    OBVIOUS
  <2>2. UserTaskOk(n, x)
    <3>1. CASE k.round < RetryRounds
      <4>1. PICK r \in 0 .. RetryRounds : r = k.round + 1
        BY <1>4, <3>1 DEF User!UserContentAssumption
      <4>2. x = [k EXCEPT !.round = r]
        BY <2>1, <3>1, <4>1
      <4>3. /\ x \in User!TaskRecord /\ x.got = k.got /\ x.v = k.v /\ x.path = k.path
            /\ x.at = k.at
        BY <1>4, <4>2 DEF User!TaskRecord
      <4> QED
        BY <1>4, <4>3 DEF UserTaskOk
    <3>2. CASE ~(k.round < RetryRounds)
      BY <1>4, <2>1, <3>2, NextAtFacts
    <3> QED
      BY <3>1, <3>2
  <2>3. task' = [task EXCEPT ![n][t] = x] /\ UNCHANGED User!calls
    BY <1>5, <1>7, <2>1
  <2> QED
    BY <1>3, <1>4, <2>2, <2>3, TaskStores
<1> QED
  BY <1>6, <1>7

LEMMA OpenMergeStep ==
    ASSUME User!UserContentAssumption, UserInv, NEW n \in Nodes, NEW t \in User!Tasks,
           User!OpenMerge(n, t)
    PROVE  UserInv'
<1>1. PostsOk /\ TaskOk /\ RestOk
  BY UserParts
<1>2. PICK k : k = task[n][t]
  OBVIOUS
<1>3. k \in User!TaskRecord /\ k.keys \in BOOLEAN
  BY <1>1, <1>2, UserTaskFields
<1>4. PICK keys \in BOOLEAN :
         task' = [task EXCEPT ![n][t] =
                      [k EXCEPT !.at = "copy", !.base = posts[n], !.got = posts[n],
                                !.keys = User!SignersKnown(n,
                                    IF t \in User!Pushes THEN k.keys ELSE keys)]]
  BY <1>2, <1>3 DEF User!OpenMerge, User!Resolves, User!TaskRecord
<1>5. PICK b \in BOOLEAN : b = User!SignersKnown(n,
                                    IF t \in User!Pushes THEN k.keys ELSE keys)
  BY <1>3 DEF User!SignersKnown
<1>6. PICK x : x = [k EXCEPT !.at = "copy", !.base = posts[n], !.got = posts[n], !.keys = b]
  OBVIOUS
<1>7. posts[n] \subseteq Records
  BY <1>1 DEF PostsOk
<1>8. x \in User!TaskRecord /\ x.got = posts[n] /\ x.at = "copy"
  BY <1>3, <1>6, <1>7 DEF User!TaskRecord, User!Places
<1>9. UserTaskOk(n, x)
  BY <1>1, <1>8 DEF UserTaskOk, PostsOk, User!StraysStay
<1>10. task' = [task EXCEPT ![n][t] = x]
  BY <1>4, <1>5, <1>6
<1>11. /\ batch' = batch \/ (User!Room /\ User!Start)
       /\ UNCHANGED <<User!disks, written, clock, pushes, User!link>>
  BY DEF User!OpenMerge
<1>12. batch' \in 0 .. MaxTasks /\ upsets' \in 0 .. MaxUpsets
  BY <1>1, <1>11, StartFacts DEF RestOk, User!link
<1> QED
  BY <1>9, <1>10, <1>11, <1>12, TaskMoves DEF User!disks, User!link

LEMMA CopyStep ==
    ASSUME User!UserContentAssumption, UserInv, NEW n \in Nodes, NEW t \in User!Tasks,
           NEW m \in Nodes, User!Copy(n, t, m)
    PROVE  UserInv'
<1>1. PostsOk /\ TaskOk /\ RestOk
  BY UserParts
<1>2. PICK k : k = task[n][t]
  OBVIOUS
<1>3. /\ UserTaskOk(n, k) /\ k \in User!TaskRecord /\ k.got \subseteq Records
      /\ k.asked \subseteq Nodes /\ k.at = "copy"
  BY <1>1, <1>2, UserTaskFields DEF User!Copy
<1>4. PICK G : G = User!MergeOrset(k.keys, k.got, posts[m])
  OBVIOUS
<1>5. G \subseteq Records /\ G \cap Strays = {}
  BY <1>1, <1>3, <1>4 DEF User!MergeOrset, User!RecordOk, PostsOk
<1>6. PICK A : A = k.asked \cup {m}
  OBVIOUS
<1>7. PICK x : x = [k EXCEPT !.got = G, !.asked = A]
  OBVIOUS
<1>8. x \in User!TaskRecord /\ x.got = G /\ x.at = "copy"
  BY <1>3, <1>5, <1>6, <1>7 DEF User!TaskRecord
<1>9. UserTaskOk(n, x)
  BY <1>5, <1>8 DEF UserTaskOk
<1>10. /\ task' = [task EXCEPT ![n][t] = x]
       /\ UNCHANGED <<User!disks, written, clock, pushes, User!net>>
  BY <1>2, <1>3, <1>4, <1>6, <1>7 DEF User!Copy, User!TaskRecord
<1> QED
  BY <1>1, <1>9, <1>10, TaskMoves DEF User!disks, User!net, RestOk

LEMMA WriteMergeStep ==
    ASSUME User!UserContentAssumption, UserInv, NEW n \in Nodes, NEW t \in User!Tasks,
           User!WriteMerge(n, t)
    PROVE  UserInv'
<1>1. DiskOk /\ PostsOk /\ TaskOk /\ PushOk /\ RestOk
  BY UserParts
<1>2. PICK k : k = task[n][t]
  OBVIOUS
<1>3. UserTaskOk(n, k) /\ k \in User!TaskRecord /\ k.got \subseteq Records
  BY <1>1, <1>2, UserTaskFields
<1>4. PICK G \in {k.got, posts[n]} : posts' = [posts EXCEPT ![n] = G]
  BY <1>2 DEF User!WriteMerge
<1>5. posts \in [Nodes -> SUBSET Records] /\ User!StraysStay
  BY <1>1 DEF PostsOk
<1>6. G \subseteq Records /\ \A r \in G \cap Strays : Writer[r] = n
  BY <1>3, <1>4, <1>5 DEF UserTaskOk, User!StraysStay
<1>7. PostsOk'
  BY <1>4, <1>5, <1>6 DEF PostsOk, User!StraysStay
<1>8. PICK x : x = [k EXCEPT !.at = "files", !.base = {}, !.got = {}, !.asked = {},
                             !.keys = FALSE]
  OBVIOUS
<1>9. x \in User!TaskRecord /\ x.got = {} /\ x.at = "files"
  BY <1>3, <1>8 DEF User!TaskRecord, User!Places
<1>10. UserTaskOk(n, x) /\ UserTaskOk(n, User!Idle)
  BY <1>9, UserIdle DEF UserTaskOk
<1>11. /\ task' = [task EXCEPT ![n][t] = User!Idle] \/ task' = [task EXCEPT ![n][t] = x]
       /\ User!Upset \/ upsets' = upsets
       /\ UNCHANGED <<ver, adds, crossed, written, clock, pushes, chain, batch>>
  BY <1>2, <1>8 DEF User!WriteMerge, User!calls
<1>12. TaskOk'
  BY <1>1, <1>10, <1>11, TaskPut
<1>13. DiskOk' /\ PushOk'
  BY <1>1, <1>11, DiskKept, PushKept
<1>14. RestOk'
  BY <1>1, <1>11, UpsetFacts, RestPut DEF RestOk
<1> QED
  BY <1>7, <1>12, <1>13, <1>14, UserPartsNext

LEMMA FetchFilesStep ==
    ASSUME User!UserContentAssumption, UserInv, NEW n \in Nodes, NEW t \in User!Tasks,
           User!FetchFiles(n, t)
    PROVE  UserInv'
<1>1. DiskOk /\ PostsOk /\ TaskOk /\ PushOk /\ RestOk
  BY UserParts
<1>2. PICK k : k = task[n][t]
  OBVIOUS
<1>3. PICK path \in User!Paths : path = k.path
  BY <1>1, <1>2, UserTaskFields
<1>4. /\ task' = [task EXCEPT ![n][t] = User!Idle]
      /\ pushes' = pushes \/ (ver[n][path] # 0 /\ User!Publish(n, path, ver[n][path]))
      /\ UNCHANGED <<User!disks, written, clock, User!net>>
  BY <1>2, <1>3 DEF User!FetchFiles
<1>5. ver[n][path] # 0 => ver[n][path] \in User!VersionsOf(path)
  BY <1>1 DEF DiskOk, Stored, User!VersionsOf, User!Paths
<1>6. PushOk'
  <2>1. CASE pushes' = pushes
    BY <1>1, <2>1, PushKept
  <2>2. CASE ver[n][path] # 0 /\ User!Publish(n, path, ver[n][path])
    <3>1. PICK v \in User!VersionsOf(path) : v = ver[n][path]
      BY <1>5, <2>2
    <3> QED
      BY <1>1, <2>2, <3>1, PublishFacts
  <2> QED
    BY <1>4, <2>1, <2>2
<1>7. TaskOk'
  BY <1>1, <1>4, UserIdle, TaskPut
<1>8. DiskOk' /\ PostsOk'
  BY <1>1, <1>4, DiskKept, PostsKept DEF User!disks
<1>9. RestOk'
  BY <1>1, <1>4, RestPut DEF RestOk, User!net
<1> QED
  BY <1>6, <1>7, <1>8, <1>9, UserPartsNext

LEMMA ChainStep ==
    ASSUME User!UserContentAssumption, UserInv, User!ChainDown \/ User!ChainUp
    PROVE  UserInv'
<1>1. DiskOk /\ PostsOk /\ TaskOk /\ PushOk /\ RestOk
  BY UserParts
<1>2. DiskOk' /\ PostsOk' /\ TaskOk' /\ PushOk'
  BY <1>1, DiskKept, PostsKept, TaskKept, PushKept DEF User!ChainDown, User!ChainUp, User!disks
<1>3. upsets' \in 0 .. MaxUpsets
  BY <1>1, UpsetFacts DEF User!ChainDown, User!ChainUp
<1>4. RestOk'
  BY <1>1, <1>3, RestPut DEF User!ChainDown, User!ChainUp, RestOk
<1> QED
  BY <1>2, <1>4, UserPartsNext

\* The initial state and every step.
LEMMA UserInit ==
    ASSUME User!UserContentAssumption, User!Init
    PROVE  UserInv
<1>1. Stored
  BY UserNumbers DEF User!Init, Stored, User!Paths
<1>2. CallsTyped /\ NodesOk
  <2>1. Modified[1] \in Nat /\ Archived[1] \in Nat /\ Archived[1] <= Modified[1]
    BY UserNumbers DEF User!UserContentAssumption
  <2>2. \A n \in Nodes : ver[n]["user"] = 1 /\ ver[n]["users"] = 1
    BY DEF User!Init, User!Paths
  <2>3. \A n \in Nodes : Gone(ver[n])
    BY <2>1, <2>2 DEF Gone
  <2>4. CallsTyped
    BY NoAddFacts DEF User!Init, CallsTyped
  <2>5. \A n \in Nodes : \A t \in User!Tasks : adds[n][t] = User!NoAdd
    BY DEF User!Init
  <2>6. ASSUME NEW n \in Nodes
        PROVE  CallsOk(ver[n], adds[n], crossed[n])
    <3>1. Apart(adds[n])
      BY <2>5, NoAddFacts DEF Apart
    <3> QED
      BY <2>3, <2>5, <3>1, NoAddFacts DEF CallsOk
  <2> QED
    BY <2>4, <2>6 DEF NodesOk
<1>3. PostsOk
  BY DEF User!Init, PostsOk, User!StraysStay
<1>4. TaskOk
  BY UserIdle DEF User!Init, TaskOk, UserTasksOk, UserTaskOk
<1>5. PushOk
  BY DEF User!Init, PushOk, InTransit
<1>6. RestOk
  BY UserNumbers DEF User!Init, RestOk, User!UserContentAssumption
<1> QED
  BY <1>1, <1>2, <1>3, <1>4, <1>5, <1>6, UserParts DEF DiskOk

LEMMA UserNext ==
    ASSUME User!UserContentAssumption, UserInv, [User!Next]_User!vars
    PROVE  UserInv'
<1>1. ASSUME NEW n \in Nodes, NEW t \in User!Tasks, User!Advance(n, t)
      PROVE  UserInv'
  BY <1>1, WriteContentStep, ScanArchivedStep, RemoveChildStep, AddPushedStep, KeepDiskStep, ServeStep, AddListedStep, RetryStep,
     OpenMergeStep, CopyStep, WriteMergeStep, FetchFilesStep DEF User!Advance
<1>2. CASE User!Next
  BY <1>1, <1>2, WriteRecordStep, SignUserStep, SignUsersStep, UserLosePushStep,
     UserDeliverStep, UserStartPassStep, OpenMergeStep, ChainStep, UserTaskNames DEF User!Next
<1>3. CASE UNCHANGED User!vars
  <2>1. DiskOk /\ PostsOk /\ TaskOk /\ PushOk /\ RestOk
    BY UserParts
  <2>2. DiskOk' /\ PostsOk' /\ TaskOk' /\ PushOk'
    BY <1>3, <2>1, DiskKept, PostsKept, TaskKept, PushKept DEF User!vars
  <2>3. RestOk'
    BY <1>3, <2>1, RestPut DEF User!vars, RestOk
  <2> QED
    BY <2>2, <2>3, UserPartsNext
<1> QED
  BY <1>2, <1>3

\* The inductive invariant of UserContent holds in every state, whatever order
\* apply_inbound_update, sync_included_content, resync_merge_files and the two
\* ways of signing (sign_user_content, sign_child) take their steps in.
THEOREM UserInvariance ==
    ASSUME User!UserContentAssumption
    PROVE  User!Spec => []UserInv
<1>1. User!Init => UserInv
  BY UserInit
<1>2. UserInv /\ [User!Next]_User!vars => UserInv'
  BY UserNext
<1> QED
  BY <1>1, <1>2, PTL DEF User!Spec

\* UserContent: every content.json version that a node stores, carries or pushes
\* is one of its path's, and every task and push is well formed.
THEOREM UserTypeCorrect ==
    ASSUME User!UserContentAssumption
    PROVE  User!Spec => []User!TypeOK
<1>1. UserInv => User!TypeOK
  BY DEF UserInv
<1> QED
  BY <1>1, UserInvariance, PTL

\* apply_archived removes and is_archived refuses: on a node whose add_content
\* calls came one at a time, whichever task stored the parent or the user's content
\* last, no archived content.json of the user is left once the scan is over.
THEOREM ArchivedStaysGone ==
    ASSUME User!UserContentAssumption
    PROVE  User!Spec => []ArchivedGone
<1>1. ASSUME UserInv, NEW n \in Nodes, ~crossed[n],
             \A t \in DOMAIN adds[n] : adds[n][t].at \notin {"scan", "remove"},
             ver[n]["user"] # 0
      PROVE  Modified[ver[n]["user"]] >= Archived[ver[n]["users"]]
  <2>1. DOMAIN adds[n] = User!Tasks
    BY <1>1 DEF UserInv, User!TypeOK
  <2>2. ~InScan(adds[n])
    BY <1>1, <2>1 DEF InScan
  <2>3. CallsOk(ver[n], adds[n], crossed[n])
    BY <1>1 DEF UserInv, NodesOk
  <2> QED
    BY <1>1, <2>2, <2>3 DEF CallsOk, Gone
<1>2. UserInv => ArchivedGone
  BY <1>1 DEF ArchivedGone
<1> QED
  BY <1>2, UserInvariance, PTL

\* merge_orset: a record no signer of the directory made never leaves the node
\* whose user wrote it, however merges, sweeps and pushes overlap.
THEOREM StraysContained ==
    ASSUME User!UserContentAssumption
    PROVE  User!Spec => []StraysStay
<1>1. UserInv => StraysStay
  BY DEF UserInv, User!StraysStay, StraysStay
<1> QED
  BY <1>1, UserInvariance, PTL

=============================================================================
