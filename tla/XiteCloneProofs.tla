-------------------------- MODULE XiteCloneProofs ---------------------------
(***************************************************************************)
(* A proof that XiteClone keeps the content.json on disk in agreement with *)
(* the files on disk (StoredWhole), for every number of visitors, seeders, *)
(* files, versions and attempts.                                           *)
(*                                                                         *)
(* The argument.  in_flight admits one clone at a time (OneClone).  That   *)
(* clone reads the version it works for off the directory, or stages one   *)
(* it won from a peer because the directory had none; unless another       *)
(* writer comes in between (mixed), the directory still has that version,  *)
(* or still has none, when the clone writes in it (Placed).  So a fetched  *)
(* file is either the one content.json declares, or no content.json is     *)
(* there to contradict it; and content.json itself is only written over a  *)
(* complete set of files.                                                  *)
(***************************************************************************)
EXTENDS XiteClone, FiniteSetTheorems, TLAPS

-----------------------------------------------------------------------------
(***************************************************************************)
(* The inductive invariant.                                                *)
(***************************************************************************)

\* The phases of the caller that holds in_flight, those in which it may have
\* a staged content.json, those in which it works for a version, and those in
\* which it works in the directory (Landing).
Holding == {"tor", "open", "race", "core", "pass", "commit", "fail", "settle",
            "release"}

Staging == {"core", "pass", "commit", "fail", "settle", "release"}

Loading == {"core", "pass", "commit"}

Placing == {"race", "core", "pass", "commit"}

\* in_flight admits one caller at a time.
OneClone ==
    \A c \in Callers : caller[c].at \in Holding =>
        /\ inflight
        /\ \A d \in Callers : caller[d].at \in Holding => d = c

\* A caller has a staged content.json only once it won the race, and then
\* works for a version that was signed.
Proper(r) ==
    /\ r.staged => r.at \in Staging
    /\ r.at \in Loading => r.v \in Versions

CallersProper == \A c \in Callers : Proper(caller[c])

\* What the clone assumes of the directory: no content.json while it races
\* for one or has one staged, else the one it resumes.
Placed(r) ==
    r.at \in Placing => IF r.staged \/ r.at = "race" THEN disk = 0
                                                     ELSE r.v = disk

CallersPlaced == ~mixed => \A c \in Callers : Placed(caller[c])

\* An update pass works for a version that was signed.
UpdateServed == update.at # "idle" => update.v \in Versions

IInv ==
    /\ TypeOK
    /\ OneClone
    /\ CallersProper
    /\ CallersPlaced
    /\ UpdateServed
    /\ StoredWhole

\* Nobody but c moves.
Others(c) == \A d \in Callers \ {c} : caller'[d] = caller[d]

-----------------------------------------------------------------------------
(***************************************************************************)
(* Facts about phases, versions and files.                                 *)
(***************************************************************************)

\* Which of the phases of ensure_xite and the clone belong to which set.
LEMMA Names ==
    /\ {"idle", "ensure", "admit", "wait"} \cap (Holding \cup Staging) = {}
    /\ {"idle", "ensure", "admit", "wait"} \cap (Loading \cup Placing) = {}
    /\ {"idle", "ensure", "admit", "wait"} \subseteq Phases
    /\ Holding \subseteq Phases
    /\ Staging \subseteq Holding /\ Placing \subseteq Holding
    /\ Loading \subseteq Staging /\ Loading \subseteq Placing
    /\ {"tor", "open", "race"} \subseteq Holding
    /\ {"tor", "open", "race"} \cap Staging = {}
    /\ {"tor", "open", "race"} \cap Loading = {}
    /\ {"core", "pass", "commit"} = Loading
    /\ {"fail", "settle", "release"} \subseteq Staging
    /\ {"tor", "open", "fail", "settle", "release"} \cap Placing = {}
    /\ {"fail", "settle", "release"} \cap Loading = {}
    /\ "race" \in Placing
BY DEF Holding, Staging, Loading, Placing, Phases

\* 0 (no content.json) and every signed version are version numbers.
LEMMA VersionRange ==
    /\ 0 \in 0 .. MaxVersion
    /\ \A v \in Versions : v \in 0 .. MaxVersion
    /\ \A v \in 0 .. MaxVersion : v # 0 => v \in Versions
    /\ 1 \in Versions
BY CloneAssumption DEF Versions

\* files_needed returns some of the declared files, finitely many.
LEMMA NeededFinite ==
    ASSUME NEW v
    PROVE  /\ FilesNeeded(v) \in SUBSET Files
           /\ Cardinality(FilesNeeded(v)) \in Nat
<1>1. FilesNeeded(v) \in SUBSET Files
  BY DEF FilesNeeded
<1>2. IsFiniteSet(FilesNeeded(v))
  BY <1>1, CloneAssumption, FS_Subset
<1> QED
  BY <1>1, <1>2, FS_CardinalityType

\* A released caller is an idle one.
LEMMA IdleType ==
    /\ Idle \in CallerRecord
    /\ Idle.at = "idle" /\ Idle.v = 0 /\ Idle.staged = FALSE
<1>1. "idle" \in Phases
  BY Names
<1>2. 0 \in 0 .. MaxVersion
  BY VersionRange
<1> QED
  BY <1>1, <1>2 DEF Idle, CallerRecord

LEMMA NoUpdateType ==
    /\ NoUpdate \in [at : {"idle", "fetch", "adopt"}, v : 0 .. MaxVersion,
                     need : SUBSET Files]
    /\ NoUpdate.at = "idle"
<1>1. 0 \in 0 .. MaxVersion
  BY VersionRange
<1> QED
  BY <1>1 DEF NoUpdate

\* Placing a file of a signed version keeps the directory well formed.
LEMMA FilePut ==
    ASSUME TypeOK, NEW v \in Versions, NEW f \in Files,
           file' = [file EXCEPT ![f] = Manifest[v][f]]
    PROVE  /\ file' \in [Files -> Nat]
           /\ \A g \in Files :
                 file'[g] \in {0} \cup {Manifest[w][g] : w \in Versions}
<1>1. Manifest[v][f] \in Nat
  BY CloneAssumption
<1>2. file' \in [Files -> Nat]
  BY <1>1 DEF TypeOK
<1>3. \A g \in Files : file'[g] = IF g = f THEN Manifest[v][f] ELSE file[g]
  BY DEF TypeOK
<1>4. \A g \in Files :
         file'[g] \in {0} \cup {Manifest[w][g] : w \in Versions}
  BY <1>3 DEF TypeOK
<1> QED
  BY <1>2, <1>4

-----------------------------------------------------------------------------
(***************************************************************************)
(* What each step of a caller does to its record.                          *)
(***************************************************************************)

\* A step that replaces the record of one caller.
LEMMA Replace ==
    ASSUME NEW c \in Callers, TypeOK, NEW r \in CallerRecord,
           caller' = [caller EXCEPT ![c] = r]
    PROVE  /\ caller' \in [Callers -> CallerRecord] /\ Others(c)
           /\ caller'[c] = r
BY DEF TypeOK, Others

LEMMA GotoShape ==
    ASSUME NEW c \in Callers, NEW p \in Phases, TypeOK, Goto(c, p)
    PROVE  /\ caller' \in [Callers -> CallerRecord] /\ Others(c)
           /\ caller'[c].at = p
           /\ caller'[c].v = caller[c].v
           /\ caller'[c].staged = caller[c].staged
BY DEF TypeOK, Goto, CallerRecord, Others

LEMMA OpenShape ==
    ASSUME NEW c \in Callers, TypeOK, Open(c)
    PROVE  /\ caller' \in [Callers -> CallerRecord] /\ Others(c)
           /\ \/ caller'[c].at = "settle"
              \/ caller'[c].at = "core" /\ disk # 0 /\ caller'[c].v = disk
              \/ caller'[c].at = "race" /\ disk = 0
           /\ caller'[c].staged = caller[c].staged
<1>1. "core" \in Phases /\ "race" \in Phases /\ "settle" \in Phases
  BY Names
<1> QED
  BY <1>1 DEF TypeOK, Open, CallerRecord, Others

LEMMA DiscoverShape ==
    ASSUME NEW c \in Callers, NEW s \in Seeders, TypeOK, Discover(c, s)
    PROVE  /\ caller' \in [Callers -> CallerRecord] /\ Others(c)
           /\ caller'[c].at = caller[c].at
           /\ caller'[c].v = caller[c].v
           /\ caller'[c].staged = caller[c].staged
<1> DEFINE X == IF caller[c].at = "race" THEN caller[c].found \cup {s}
                                         ELSE caller[c].found
<1>1. X \in SUBSET Seeders
  BY DEF TypeOK, CallerRecord
<1>2. caller' = [caller EXCEPT ![c].found = X]
  BY DEF Discover, TypeOK, CallerRecord
<1> HIDE DEF X
<1> QED
  BY <1>1, <1>2 DEF TypeOK, CallerRecord, Others

LEMMA AskShape ==
    ASSUME NEW c \in Callers, NEW s \in Seeders, TypeOK, Ask(c, s) \/ Lose(c, s)
    PROVE  /\ caller' \in [Callers -> CallerRecord] /\ Others(c)
           /\ caller'[c].at = caller[c].at
           /\ caller'[c].v = caller[c].v
           /\ caller'[c].staged = caller[c].staged
<1>1. CASE Ask(c, s)
  BY <1>1 DEF TypeOK, Ask, CallerRecord, Others
<1>2. CASE Lose(c, s)
  <2>1. PICK r : r = [caller[c] EXCEPT !.racing = @ \ {s}, !.lost = @ \cup {s}]
    OBVIOUS
  <2>2. r \in CallerRecord /\ r.at = caller[c].at /\ r.v = caller[c].v /\ r.staged = caller[c].staged
    BY <2>1 DEF TypeOK, CallerRecord
  <2>3. caller' = [caller EXCEPT ![c] = r]
    BY <1>2, <2>1 DEF TypeOK, Lose
  <2> QED
    BY <2>2, <2>3, Replace
<1> QED
  BY <1>1, <1>2

LEMMA WinShape ==
    ASSUME NEW c \in Callers, NEW s \in Seeders, TypeOK, Win(c, s)
    PROVE  /\ caller' \in [Callers -> CallerRecord] /\ Others(c)
           /\ caller'[c].at = "core"
           /\ caller'[c].v = seed[s] /\ seed[s] \in Versions
           /\ caller'[c].staged = TRUE
<1>1. "core" \in Phases
  BY Names
<1>2. seed[s] \in Versions /\ seed[s] \in 0 .. MaxVersion
  BY VersionRange DEF TypeOK
<1> QED
  BY <1>1, <1>2 DEF TypeOK, Win, CallerRecord, Others

LEMMA RaceFailsShape ==
    ASSUME NEW c \in Callers, TypeOK, RaceFails(c)
    PROVE  /\ caller' \in [Callers -> CallerRecord] /\ Others(c)
           /\ caller'[c].at = "fail"
           /\ caller'[c].staged = caller[c].staged
<1>1. "fail" \in Phases
  BY Names
<1>2. PICK r : r = [caller[c] EXCEPT !.at = "fail", !.found = {}, !.lost = {}]
  OBVIOUS
<1>3. r \in CallerRecord /\ r.at = "fail" /\ r.staged = caller[c].staged
  BY <1>1, <1>2 DEF TypeOK, CallerRecord
<1>4. caller' = [caller EXCEPT ![c] = r]
  BY <1>2 DEF TypeOK, RaceFails
<1> QED
  BY <1>3, <1>4, Replace

LEMMA StartPassShape ==
    ASSUME NEW c \in Callers, TypeOK, StartPass(c)
    PROVE  /\ caller' \in [Callers -> CallerRecord] /\ Others(c)
           /\ caller'[c].at \in {"pass", "commit"}
           /\ caller'[c].v = caller[c].v
           /\ caller'[c].staged = caller[c].staged
<1>1. "pass" \in Phases /\ "commit" \in Phases
  BY Names
<1>2. CASE Goto(c, "commit")
  BY <1>1, <1>2, GotoShape
<1>3. CASE ~Goto(c, "commit")
  <2>1. PICK need, k :
           /\ need \in SUBSET Files /\ k \in Nat
           /\ caller' = [caller EXCEPT ![c].at = "pass", ![c].need = need,
                                       ![c].before = k]
    BY <1>3, NeededFinite DEF StartPass
  <2>2. PICK r : r = [caller[c] EXCEPT !.at = "pass", !.need = need, !.before = k]
    OBVIOUS
  <2>3. r \in CallerRecord /\ r.at = "pass" /\ r.v = caller[c].v /\ r.staged = caller[c].staged
    BY <1>1, <2>1, <2>2 DEF TypeOK, CallerRecord
  <2>4. caller' = [caller EXCEPT ![c] = r]
    BY <2>1, <2>2 DEF TypeOK
  <2> QED
    BY <2>3, <2>4, Replace
<1> QED
  BY <1>2, <1>3

LEMMA FetchCoreShape ==
    ASSUME NEW c \in Callers, NEW f \in Files, TypeOK, FetchCore(c, f)
    PROVE  /\ caller' \in [Callers -> CallerRecord] /\ Others(c)
           /\ caller'[c].at = caller[c].at
           /\ caller'[c].v = caller[c].v
           /\ caller'[c].staged = caller[c].staged
BY DEF TypeOK, FetchCore, CallerRecord, Others

LEMMA EndPassShape ==
    ASSUME NEW c \in Callers, TypeOK, EndPass(c)
    PROVE  /\ caller' \in [Callers -> CallerRecord] /\ Others(c)
           /\ caller'[c].at \in {"core", "commit"}
           /\ caller'[c].v = caller[c].v
           /\ caller'[c].staged = caller[c].staged
<1> DEFINE after == FilesNeeded(caller[c].v)
           dry == IF Cardinality(after) < caller[c].before THEN 0
                  ELSE caller[c].dry + 1
           p == IF after = {} \/ dry >= DryPasses THEN "commit" ELSE "core"
           k == IF after = {} \/ dry >= DryPasses THEN 0 ELSE dry
<1>1. caller[c].dry \in Nat
  BY DEF TypeOK, CallerRecord
<1>2. dry \in Nat
  BY <1>1
<1>3. p \in {"core", "commit"} /\ k \in Nat
  BY <1>2
<1>4. p \in Phases
  BY <1>3, Names
<1>5. caller' = [caller EXCEPT ![c].at = p, ![c].need = {}, ![c].before = 0,
                               ![c].dry = k]
  BY DEF EndPass
<1> HIDE DEF p, k
<1>6. PICK r : r = [caller[c] EXCEPT !.at = p, !.need = {}, !.before = 0,
                                     !.dry = k]
  OBVIOUS
<1>7. r \in CallerRecord /\ r.at = p /\ r.v = caller[c].v /\ r.staged = caller[c].staged
  BY <1>3, <1>4, <1>6 DEF TypeOK, CallerRecord
<1>8. caller' = [caller EXCEPT ![c] = r]
  BY <1>5, <1>6 DEF TypeOK
<1> QED
  BY <1>3, <1>7, <1>8, Replace

LEMMA FailShape ==
    ASSUME NEW c \in Callers, TypeOK, Fail(c)
    PROVE  /\ caller' \in [Callers -> CallerRecord] /\ Others(c)
           /\ \/ caller'[c].at = "open" /\ ~caller'[c].staged
              \/ caller'[c].at = "release"
<1>1. "open" \in Phases /\ "release" \in Phases
  BY Names
<1>2. CASE Goto(c, "release")
  BY <1>1, <1>2, GotoShape
<1>3. CASE ~Goto(c, "release")
  <2>1. caller[c].tries + 1 \in Nat
    BY DEF TypeOK, CallerRecord
  <2>2. PICK k \in Nat :
           caller' = [caller EXCEPT ![c] = [Idle EXCEPT !.at = "open",
                                                        !.tries = k]]
    BY <1>3, <2>1 DEF Fail
  <2>3. PICK r : r = [Idle EXCEPT !.at = "open", !.tries = k]
    OBVIOUS
  <2>4. r \in CallerRecord /\ r.at = "open" /\ ~r.staged
    BY <1>1, <2>3, IdleType DEF CallerRecord
  <2> QED
    BY <2>2, <2>3, <2>4 DEF TypeOK, Others
<1> QED
  BY <1>2, <1>3

LEMMA ReleaseShape ==
    ASSUME NEW c \in Callers, TypeOK, Release(c)
    PROVE  /\ caller' \in [Callers -> CallerRecord] /\ Others(c)
           /\ caller'[c].at = "idle" /\ ~caller'[c].staged
BY IdleType DEF TypeOK, Release, Others

-----------------------------------------------------------------------------
(***************************************************************************)
(* Steps of a caller.                                                      *)
(***************************************************************************)

\* A caller that moves alone keeps in_flight exclusive unless it enters.
LEMMA HoldKept ==
    ASSUME NEW c \in Callers, OneClone, Others(c), inflight' = inflight,
           caller'[c].at \in Holding => caller[c].at \in Holding
    PROVE  OneClone'
BY DEF OneClone, Others

\* The records stay proper when the one that moves does.
LEMMA ProperKept ==
    ASSUME NEW c \in Callers, CallersProper, Others(c), Proper(caller'[c])
    PROVE  CallersProper'
BY DEF CallersProper, Others, Proper

\* The directory and the history stand still and only c moves.
LEMMA PlacedKept ==
    ASSUME NEW c \in Callers, CallersPlaced, Others(c),
           UNCHANGED <<disk, mixed>>, ~mixed => Placed(caller'[c])
    PROVE  CallersPlaced'
BY DEF CallersPlaced, Others, Placed

LEMMA WholeKept ==
    ASSUME StoredWhole, UNCHANGED <<disk, file, mixed, update>>
    PROVE  StoredWhole' /\ (UpdateServed => UpdateServed')
BY DEF StoredWhole, FilesNeeded, UpdateServed

\* Together: a step of c that leaves the directory, the update, in_flight and
\* the history alone.
LEMMA QuietMove ==
    ASSUME NEW c \in Callers, IInv, TypeOK', Others(c),
           UNCHANGED <<disk, file, mixed, update, inflight>>,
           caller'[c].at \in Holding => caller[c].at \in Holding,
           Proper(caller'[c]), ~mixed => Placed(caller'[c])
    PROVE  IInv'
<1>1. OneClone'
  BY HoldKept DEF IInv
<1>2. CallersProper'
  BY ProperKept DEF IInv
<1>3. CallersPlaced'
  BY PlacedKept DEF IInv
<1>4. StoredWhole' /\ UpdateServed'
  BY WholeKept DEF IInv
<1> QED
  BY <1>1, <1>2, <1>3, <1>4 DEF IInv

\* A caller that goes from one of the phases before in_flight to another.
LEMMA Outside ==
    ASSUME NEW c \in Callers, IInv, TypeOK',
           NEW p \in {"idle", "ensure", "admit", "wait"}, Goto(c, p),
           caller[c].at \in {"idle", "ensure", "admit", "wait"},
           UNCHANGED <<disk, file, mixed, update, inflight>>
    PROVE  IInv'
<1>1. p \in Phases /\ p \notin Holding /\ p \notin Loading /\ p \notin Placing
  BY Names
<1>2. Others(c) /\ caller'[c].at = p /\ caller'[c].staged = caller[c].staged
  BY <1>1, GotoShape DEF IInv
<1>3. ~caller[c].staged
  BY Names DEF IInv, CallersProper, Proper
<1>4. Proper(caller'[c]) /\ Placed(caller'[c])
  BY <1>1, <1>2, <1>3 DEF Proper, Placed
<1> QED
  BY <1>1, <1>2, <1>4, QuietMove

\* A caller that holds in_flight goes to one of the phases in which it neither
\* races nor loads.
LEMMA Ending ==
    ASSUME NEW c \in Callers, IInv, TypeOK', Others(c),
           caller[c].at \in Holding,
           caller'[c].at \in {"fail", "settle", "release"},
           UNCHANGED <<disk, file, mixed, update, inflight>>
    PROVE  IInv'
<1>1. caller'[c].at \notin Loading /\ caller'[c].at \notin Placing
      /\ caller'[c].at \in Staging
  BY Names
<1>2. Proper(caller'[c]) /\ Placed(caller'[c])
  BY <1>1 DEF Proper, Placed
<1> QED
  BY <1>2, QuietMove

\* A caller that holds in_flight and has nothing staged waits for Tor or opens
\* the directory.
LEMMA Starting ==
    ASSUME NEW c \in Callers, IInv, TypeOK', Others(c),
           caller[c].at \in Holding,
           caller'[c].at \in {"tor", "open"}, ~caller'[c].staged,
           UNCHANGED <<disk, file, mixed, update, inflight>>
    PROVE  IInv'
<1>1. caller'[c].at \notin Loading /\ caller'[c].at \notin Placing
  BY Names
<1>2. Proper(caller'[c]) /\ Placed(caller'[c])
  BY <1>1 DEF Proper, Placed
<1> QED
  BY <1>2, QuietMove

\* A caller that works in the directory and stays with its version there.
LEMMA Staying ==
    ASSUME NEW c \in Callers, IInv, TypeOK', Others(c),
           \/ /\ caller[c].at \in Loading /\ caller'[c].at \in Loading
           \/ /\ caller[c].at = "race" /\ caller'[c].at = "race",
           caller'[c].v = caller[c].v,
           caller'[c].staged = caller[c].staged,
           UNCHANGED <<disk, file, mixed, update, inflight>>
    PROVE  IInv'
<1>1. caller[c].at \in Holding
  BY Names
<1>2. Proper(caller[c]) /\ (~mixed => Placed(caller[c]))
  BY DEF IInv, CallersProper, CallersPlaced
<1>3. CASE caller[c].at \in Loading /\ caller'[c].at \in Loading
  <2>1. /\ caller'[c].at \in Staging /\ caller'[c].at \in Placing
        /\ caller[c].at \in Placing
        /\ caller[c].at # "race" /\ caller'[c].at # "race"
    BY <1>3, Names
  <2> QED
    BY <1>1, <1>2, <1>3, <2>1, QuietMove DEF Proper, Placed
<1>4. CASE caller[c].at = "race" /\ caller'[c].at = "race"
  BY <1>1, <1>2, <1>4, QuietMove DEF Proper, Placed
<1> QED
  BY <1>3, <1>4

\* A visit begins.
LEMMA VisitStep ==
    ASSUME NEW c \in Callers, IInv, Visit(c)
    PROVE  IInv'
<1>0. TypeOK
  BY DEF IInv
<1>1. "ensure" \in Phases /\ Goto(c, "ensure")
  BY Names DEF Visit
<1>2. caller' \in [Callers -> CallerRecord]
  BY <1>0, <1>1, GotoShape
<1>3. TypeOK'
  BY <1>0, <1>2 DEF TypeOK, Visit, entry, tree, flags, world
<1> QED
  BY <1>1, <1>3, Outside DEF Visit, entry, tree, flags, world


\* A caller that waited for another goes on.
LEMMA WaitStep ==
    ASSUME NEW c \in Callers, IInv, Wait(c)
    PROVE  IInv'
<1>0. TypeOK
  BY DEF IInv
<1>1. "idle" \in Phases /\ Goto(c, "idle")
  BY Names DEF Wait
<1>2. caller' \in [Callers -> CallerRecord]
  BY <1>0, <1>1, GotoShape
<1>3. TypeOK'
  BY <1>0, <1>2 DEF TypeOK, Wait, entry, tree, flags, world
<1> QED
  BY <1>1, <1>3, Outside DEF Wait, entry, tree, flags, world


\* A caller gives up waiting.
LEMMA WaitGivesUpStep ==
    ASSUME NEW c \in Callers, IInv, WaitGivesUp(c)
    PROVE  IInv'
<1>0. TypeOK
  BY DEF IInv
<1>1. "idle" \in Phases /\ Goto(c, "idle")
  BY Names DEF WaitGivesUp
<1>2. caller' \in [Callers -> CallerRecord]
  BY <1>0, <1>1, GotoShape
<1>3. TypeOK'
  BY <1>0, <1>2 DEF TypeOK, WaitGivesUp, entry, tree, flags, world
<1> QED
  BY <1>1, <1>3, Outside DEF WaitGivesUp, entry, tree, flags, world


\* The retry loop opens a xite without its core.
LEMMA RetryTickStep ==
    ASSUME IInv, RetryTick
    PROVE  IInv'
<1>0. TypeOK
  BY DEF IInv
<1>1. "ensure" \in Phases /\ Retry \in Callers /\ Goto(Retry, "ensure")
  BY Names DEF RetryTick, Callers
<1>2. caller' \in [Callers -> CallerRecord]
  BY <1>0, <1>1, GotoShape
<1>3. TypeOK'
  BY <1>0, <1>2 DEF TypeOK, RetryTick, entry, tree, flags, world
<1> QED
  BY <1>1, <1>3, Outside DEF RetryTick, entry, tree, flags, world


\* ensure_xite_inner finds the xite complete, or asks to be admitted.
LEMMA EnsureStep ==
    ASSUME NEW c \in Callers, IInv, Ensure(c)
    PROVE  IInv'
<1>0. TypeOK
  BY DEF IInv
<1>1. PICK p \in {"idle", "admit"} : Goto(c, p)
  BY DEF Ensure
<1>2. p \in Phases
  BY Names
<1>3. caller' \in [Callers -> CallerRecord]
  BY <1>0, <1>1, <1>2, GotoShape
<1>4. mem' \in 0 .. MaxVersion
  BY <1>0 DEF TypeOK, Ensure
<1>5. TypeOK'
  BY <1>0, <1>3, <1>4 DEF TypeOK, Ensure, tree, flags, world
<1> QED
  BY <1>1, <1>5, Outside DEF Ensure, tree, flags, world


\* Tor is ready and the clone begins.
LEMMA TorReadyStep ==
    ASSUME NEW c \in Callers, IInv, TorReady(c)
    PROVE  IInv'
<1>0. TypeOK
  BY DEF IInv
<1>1. "open" \in Phases /\ "tor" \in Holding
  BY Names
<1>2. /\ caller' \in [Callers -> CallerRecord] /\ Others(c)
      /\ caller'[c].at = "open" /\ caller'[c].staged = caller[c].staged
  BY <1>0, <1>1, GotoShape DEF TorReady
<1>3. ~caller[c].staged
  BY Names DEF IInv, CallersProper, Proper, TorReady
<1>4. TypeOK'
  BY <1>0, <1>2 DEF TypeOK, TorReady, entry, tree, world
<1> QED
  BY <1>1, <1>2, <1>3, <1>4, Starting DEF TorReady, tree


\* The clone is refused for want of Tor.
LEMMA TorRefusedStep ==
    ASSUME NEW c \in Callers, IInv, TorRefused(c)
    PROVE  IInv'
<1>0. TypeOK
  BY DEF IInv
<1>1. "release" \in Phases /\ "tor" \in Holding
  BY Names
<1>2. /\ caller' \in [Callers -> CallerRecord] /\ Others(c)
      /\ caller'[c].at = "release"
  BY <1>0, <1>1, GotoShape DEF TorRefused
<1>3. faults' \in 0 .. MaxFaults
  BY <1>0, CloneAssumption DEF TypeOK, TorRefused
<1>4. TypeOK'
  BY <1>0, <1>2, <1>3 DEF TypeOK, TorRefused, entry, tree, flags, world
<1> QED
  BY <1>1, <1>2, <1>4, Ending DEF TorRefused, tree, flags


\* The clone opens the directory: what it finds there is what it works for.
LEMMA OpenStep ==
    ASSUME NEW c \in Callers, IInv, Open(c)
    PROVE  IInv'
<1>0. TypeOK
  BY DEF IInv
<1>1. /\ caller' \in [Callers -> CallerRecord] /\ Others(c)
      /\ \/ caller'[c].at = "settle"
         \/ caller'[c].at = "core" /\ disk # 0 /\ caller'[c].v = disk
         \/ caller'[c].at = "race" /\ disk = 0
      /\ caller'[c].staged = caller[c].staged
  BY <1>0, OpenShape
<1>2. caller[c].at \in Holding /\ ~caller[c].staged
  BY Names DEF IInv, CallersProper, Proper, Open
<1>3. TypeOK'
  BY <1>0, <1>1 DEF TypeOK, Open, entry, tree, flags, world
<1>4. CASE caller'[c].at = "settle"
  BY <1>1, <1>2, <1>3, <1>4, Ending DEF Open, tree, flags
<1>5. CASE caller'[c].at = "core" /\ disk # 0 /\ caller'[c].v = disk
  <2>1. disk \in Versions /\ "core" # "race"
    BY <1>0, <1>5, VersionRange DEF TypeOK
  <2>2. Proper(caller'[c]) /\ Placed(caller'[c])
    BY <1>1, <1>2, <1>5, <2>1 DEF Proper, Placed
  <2> QED
    BY <1>1, <1>2, <1>3, <2>2, QuietMove DEF Open, tree, flags
<1>6. CASE caller'[c].at = "race" /\ disk = 0
  <2>1. "race" \notin Loading
    BY Names
  <2>2. Proper(caller'[c]) /\ Placed(caller'[c])
    BY <1>1, <1>2, <1>6, <2>1 DEF Proper, Placed
  <2> QED
    BY <1>1, <1>2, <1>3, <2>2, QuietMove DEF Open, tree, flags
<1> QED
  BY <1>1, <1>4, <1>5, <1>6


\* A peer is found.
LEMMA DiscoverStep ==
    ASSUME NEW c \in Callers, NEW s \in Seeders, IInv, Discover(c, s)
    PROVE  IInv'
<1>0. TypeOK
  BY DEF IInv
<1>1. /\ caller' \in [Callers -> CallerRecord] /\ Others(c)
      /\ caller'[c].at = caller[c].at
      /\ caller'[c].v = caller[c].v
      /\ caller'[c].staged = caller[c].staged
  BY <1>0, DiscoverShape
<1>2. peers' \in SUBSET Seeders
  BY <1>0 DEF TypeOK, Discover
<1>3. TypeOK'
  BY <1>0, <1>1, <1>2 DEF TypeOK, Discover, tree, flags, world
<1>4. caller[c].at \in Loading \/ caller[c].at = "race"
  BY Names DEF Discover
<1> QED
  BY <1>1, <1>3, <1>4, Staying DEF Discover, tree, flags


\* A peer is asked.
LEMMA AskStep ==
    ASSUME NEW c \in Callers, NEW s \in Seeders, IInv, Ask(c, s)
    PROVE  IInv'
<1>0. TypeOK
  BY DEF IInv
<1>1. /\ caller' \in [Callers -> CallerRecord] /\ Others(c)
      /\ caller'[c].at = caller[c].at
      /\ caller'[c].v = caller[c].v
      /\ caller'[c].staged = caller[c].staged
  BY <1>0, AskShape
<1>2. TypeOK'
  BY <1>0, <1>1 DEF TypeOK, Ask, entry, tree, flags, world
<1>3. caller[c].at = "race"
  BY DEF Ask
<1> QED
  BY <1>1, <1>2, <1>3, Staying DEF Ask, tree, flags


\* A peer does not answer.
LEMMA LoseStep ==
    ASSUME NEW c \in Callers, NEW s \in Seeders, IInv, Lose(c, s)
    PROVE  IInv'
<1>0. TypeOK
  BY DEF IInv
<1>1. /\ caller' \in [Callers -> CallerRecord] /\ Others(c)
      /\ caller'[c].at = caller[c].at
      /\ caller'[c].v = caller[c].v
      /\ caller'[c].staged = caller[c].staged
  BY <1>0, AskShape
<1>2. TypeOK'
  BY <1>0, <1>1 DEF TypeOK, Lose, entry, tree, flags, world
<1>3. caller[c].at = "race"
  BY DEF Lose
<1> QED
  BY <1>1, <1>2, <1>3, Staying DEF Lose, tree, flags


\* A peer wins the race: the content.json is staged over an empty directory.
LEMMA WinStep ==
    ASSUME NEW c \in Callers, NEW s \in Seeders, IInv, Win(c, s)
    PROVE  IInv'
<1>0. TypeOK
  BY DEF IInv
<1>1. /\ caller' \in [Callers -> CallerRecord] /\ Others(c)
      /\ caller'[c].at = "core"
      /\ caller'[c].v = seed[s] /\ seed[s] \in Versions
      /\ caller'[c].staged = TRUE
  BY <1>0, WinShape
<1>2. mem' \in 0 .. MaxVersion
  BY <1>0, <1>1, VersionRange DEF TypeOK, Win
<1>3. TypeOK'
  BY <1>0, <1>1, <1>2 DEF TypeOK, Win, tree, flags, world
<1>4. caller[c].at = "race" /\ "race" \in Placing /\ "race" \in Holding
  BY Names DEF Win
<1>5. ~mixed => disk = 0
  BY <1>4 DEF IInv, CallersPlaced, Placed
<1>6. Proper(caller'[c]) /\ (~mixed => Placed(caller'[c]))
  BY <1>1, <1>5, Names DEF Proper, Placed
<1> QED
  BY <1>1, <1>3, <1>4, <1>6, QuietMove DEF Win, tree, flags


\* Nobody answers the race.
LEMMA RaceFailsStep ==
    ASSUME NEW c \in Callers, IInv, RaceFails(c)
    PROVE  IInv'
<1>0. TypeOK
  BY DEF IInv
<1>1. /\ caller' \in [Callers -> CallerRecord] /\ Others(c)
      /\ caller'[c].at = "fail"
  BY <1>0, RaceFailsShape
<1>2. TypeOK'
  BY <1>0, <1>1 DEF TypeOK, RaceFails, entry, tree, flags, world
<1>3. caller[c].at \in Holding
  BY Names DEF RaceFails
<1> QED
  BY <1>1, <1>2, <1>3, Ending DEF RaceFails, tree, flags


\* A pass over the core set begins.
LEMMA StartPassStep ==
    ASSUME NEW c \in Callers, IInv, StartPass(c)
    PROVE  IInv'
<1>0. TypeOK
  BY DEF IInv
<1>1. /\ caller' \in [Callers -> CallerRecord] /\ Others(c)
      /\ caller'[c].at \in {"pass", "commit"}
      /\ caller'[c].v = caller[c].v
      /\ caller'[c].staged = caller[c].staged
  BY <1>0, StartPassShape
<1>2. caller[c].at \in Loading /\ caller'[c].at \in Loading
  BY <1>1, Names DEF StartPass
<1>4. TypeOK'
  BY <1>0, <1>1 DEF TypeOK, StartPass, entry, tree, flags, world
<1> QED
  BY <1>1, <1>2, <1>4, Staying DEF StartPass, tree, flags


\* A pass over the core set ends.
LEMMA EndPassStep ==
    ASSUME NEW c \in Callers, IInv, EndPass(c)
    PROVE  IInv'
<1>0. TypeOK
  BY DEF IInv
<1>1. /\ caller' \in [Callers -> CallerRecord] /\ Others(c)
      /\ caller'[c].at \in {"core", "commit"}
      /\ caller'[c].v = caller[c].v
      /\ caller'[c].staged = caller[c].staged
  BY <1>0, EndPassShape
<1>a. PICK stalled :
        /\ caller[c].at = "pass"
        /\ stalled => faults < MaxFaults
        /\ faults' = IF stalled THEN faults + 1 ELSE faults
  BY DEF EndPass
<1>2. caller[c].at \in Loading /\ caller'[c].at \in Loading
  BY <1>1, <1>a, Names
<1>3. faults' \in 0 .. MaxFaults
  BY <1>0, <1>a, CloneAssumption DEF TypeOK
<1>4. TypeOK'
  BY <1>0, <1>1, <1>3 DEF TypeOK, EndPass, entry, tree, flags, world
<1> QED
  BY <1>1, <1>2, <1>4, Staying DEF EndPass, tree, flags


\* A failed attempt is followed by another, or by none.
LEMMA FailStep ==
    ASSUME NEW c \in Callers, IInv, Fail(c)
    PROVE  IInv'
<1>0. TypeOK
  BY DEF IInv
<1>1. /\ caller' \in [Callers -> CallerRecord] /\ Others(c)
      /\ \/ caller'[c].at = "open" /\ ~caller'[c].staged
         \/ caller'[c].at = "release"
  BY <1>0, FailShape
<1>2. cloning' \in BOOLEAN
  BY <1>0 DEF TypeOK, Fail
<1>3. TypeOK'
  BY <1>0, <1>1, <1>2 DEF TypeOK, Fail, entry, tree, world
<1>4. caller[c].at \in Holding
  BY Names DEF Fail
<1>5. CASE caller'[c].at = "open" /\ ~caller'[c].staged
  BY <1>1, <1>3, <1>4, <1>5, Starting DEF Fail, tree
<1>6. CASE caller'[c].at = "release"
  BY <1>1, <1>3, <1>4, <1>6, Ending DEF Fail, tree
<1> QED
  BY <1>1, <1>5, <1>6


\* The clone settles.
LEMMA SettleStep ==
    ASSUME NEW c \in Callers, IInv, Settle(c)
    PROVE  IInv'
<1>0. TypeOK
  BY DEF IInv
<1>1. "release" \in Phases /\ caller[c].at \in Holding
  BY Names DEF Settle
<1>2. /\ caller' \in [Callers -> CallerRecord] /\ Others(c)
      /\ caller'[c].at = "release"
  BY <1>0, <1>1, GotoShape DEF Settle
<1>3. caller[c].v \in 0 .. MaxVersion
  BY <1>0 DEF TypeOK, CallerRecord
<1>4. mem' \in 0 .. MaxVersion
  BY <1>0, <1>3 DEF TypeOK, Settle
<1>5. TypeOK'
  BY <1>0, <1>2, <1>4 DEF TypeOK, Settle, tree, world
<1> QED
  BY <1>1, <1>2, <1>5, Ending DEF Settle, tree


\* A caller is admitted when in_flight is free, and then holds it alone.
LEMMA AdmitStep ==
    ASSUME NEW c \in Callers, IInv, Admit(c)
    PROVE  IInv'
<1>0. TypeOK
  BY DEF IInv
<1>1. caller[c].at = "admit" /\ ~caller[c].staged
  BY Names DEF IInv, CallersProper, Proper, Admit
<1>2. PICK p \in {"wait", "tor", "release"} : Goto(c, p)
  BY DEF Admit
<1>3. p \in Phases
  BY Names
<1>4. /\ caller' \in [Callers -> CallerRecord] /\ Others(c)
      /\ caller'[c].at = p /\ caller'[c].staged = caller[c].staged
  BY <1>0, <1>2, <1>3, GotoShape
<1>5. /\ reg' \in BOOLEAN /\ saved' \in BOOLEAN /\ inflight' \in BOOLEAN
      /\ mem' \in 0 .. MaxVersion /\ peers' \in SUBSET Seeders
  BY <1>0, VersionRange DEF TypeOK, Admit, entry
<1>6. TypeOK'
  BY <1>0, <1>4, <1>5 DEF TypeOK, Admit, tree, world
<1>7. UNCHANGED <<disk, file, mixed, update>>
  BY DEF Admit, tree
<1>8. CASE inflight
  <2>1. Goto(c, "wait") /\ inflight' = inflight
    BY <1>8 DEF Admit
  <2> QED
    BY <1>1, <1>6, <1>7, <2>1, Outside
<1>9. CASE ~inflight
  <2>1. inflight'
    BY <1>9 DEF Admit
  <2>2. \A d \in Callers : caller[d].at \notin Holding
    BY <1>9 DEF IInv, OneClone
  <2>3. OneClone'
    BY <1>4, <2>1, <2>2 DEF OneClone, Others
  <2>4. p \notin Loading /\ p \notin Placing
    BY Names
  <2>5. Proper(caller'[c]) /\ Placed(caller'[c])
    BY <1>1, <1>4, <2>4 DEF Proper, Placed
  <2>6. CallersProper'
    BY <1>4, <2>5, ProperKept DEF IInv
  <2>7. CallersPlaced'
    BY <1>4, <1>7, <2>5, PlacedKept DEF IInv
  <2>8. StoredWhole' /\ UpdateServed'
    BY <1>7, WholeKept DEF IInv
  <2> QED
    BY <1>6, <2>3, <2>6, <2>7, <2>8 DEF IInv
<1> QED
  BY <1>8, <1>9

\* The clone lets go of in_flight, which nobody else held.
LEMMA ReleaseStep ==
    ASSUME NEW c \in Callers, IInv, Release(c)
    PROVE  IInv'
<1>0. TypeOK
  BY DEF IInv
<1>1. /\ caller' \in [Callers -> CallerRecord] /\ Others(c)
      /\ caller'[c].at = "idle" /\ ~caller'[c].staged
  BY <1>0, ReleaseShape
<1>2. TypeOK'
  BY <1>0, <1>1 DEF TypeOK, Release, entry, tree, world
<1>3. "idle" \notin Holding /\ "idle" \notin Loading /\ "idle" \notin Placing
  BY Names
<1>4. caller[c].at \in Holding
  BY Names DEF Release
<1>5. \A d \in Callers : caller'[d].at \notin Holding
  BY <1>1, <1>3, <1>4 DEF IInv, OneClone, Others
<1>6. OneClone'
  BY <1>5 DEF OneClone
<1>7. Proper(caller'[c]) /\ Placed(caller'[c])
  BY <1>1, <1>3 DEF Proper, Placed
<1>8. CallersProper'
  BY <1>1, <1>7, ProperKept DEF IInv
<1>9. CallersPlaced'
  BY <1>1, <1>7, PlacedKept DEF IInv, Release, tree
<1>10. StoredWhole' /\ UpdateServed'
  BY WholeKept DEF IInv, Release, tree
<1> QED
  BY <1>2, <1>6, <1>8, <1>9, <1>10 DEF IInv

\* content.json is written over a complete core set, by the one clone there is.
LEMMA CommitStep ==
    ASSUME NEW c \in Callers, IInv, Commit(c)
    PROVE  IInv'
<1>0. TypeOK
  BY DEF IInv
<1>1. PICK p \in {"fail", "settle"} : Goto(c, p)
  BY DEF Commit
<1>2. p \in Phases
  BY Names
<1>3. caller' \in [Callers -> CallerRecord] /\ Others(c) /\ caller'[c].at = p
  BY <1>0, <1>1, <1>2, GotoShape
<1>4. caller[c].at \in Holding
  BY Names DEF Commit
<1>5. caller[c].v \in 0 .. MaxVersion
  BY <1>0 DEF TypeOK, CallerRecord
<1>6. TypeOK'
  BY <1>0, <1>3, <1>5 DEF TypeOK, Commit, entry, flags, world
<1>7. UNCHANGED <<file, mixed, update, inflight>>
  BY DEF Commit, flags
<1>8. CASE disk' = disk
  BY <1>3, <1>4, <1>6, <1>7, <1>8, Ending
<1>9. CASE disk' # disk
  <2>1. FilesNeeded(caller[c].v) = {} /\ disk' = caller[c].v
    BY <1>9 DEF Commit
  <2>2. StoredWhole'
    BY <1>7, <2>1 DEF StoredWhole, FilesNeeded
  <2>3. p \in Staging /\ p \notin Placing /\ p \notin Loading
    BY Names
  <2>4. OneClone'
    BY <1>3, <1>4, <1>7, HoldKept DEF IInv
  <2>5. Placing \subseteq Holding
    BY Names
  <2>6. \A d \in Callers : caller'[d].at \notin Placing
    BY <1>3, <1>4, <2>3, <2>5 DEF IInv, OneClone, Others
  <2>7. CallersPlaced'
    BY <2>6 DEF CallersPlaced, Placed
  <2>8. CallersProper'
    BY <1>3, <2>3, ProperKept DEF IInv, Proper
  <2>9. UpdateServed'
    BY <1>7 DEF IInv, UpdateServed
  <2> QED
    BY <1>6, <2>2, <2>4, <2>7, <2>8, <2>9 DEF IInv
<1> QED
  BY <1>8, <1>9

\* A core file is placed: it is the one content.json declares, or there is no
\* content.json.
LEMMA FetchCoreStep ==
    ASSUME NEW c \in Callers, NEW f \in Files, IInv, FetchCore(c, f)
    PROVE  IInv'
<1>0. TypeOK
  BY DEF IInv
<1>1. /\ caller' \in [Callers -> CallerRecord] /\ Others(c)
      /\ caller'[c].at = caller[c].at
      /\ caller'[c].v = caller[c].v
      /\ caller'[c].staged = caller[c].staged
  BY <1>0, FetchCoreShape
<1>2. caller[c].at = "pass" /\ "pass" \in Loading /\ "pass" \in Placing
      /\ "pass" # "race"
  BY Names DEF FetchCore
<1>3. caller[c].v \in Versions
  BY <1>2 DEF IInv, CallersProper, Proper
<1>4. file' = [file EXCEPT ![f] = Manifest[caller[c].v][f]]
  BY DEF FetchCore
<1>5. /\ file' \in [Files -> Nat]
      /\ \A g \in Files :
            file'[g] \in {0} \cup {Manifest[w][g] : w \in Versions}
  BY <1>0, <1>3, <1>4, FilePut
<1>6. mixed' = (mixed \/ update.at # "idle") /\ mixed' \in BOOLEAN
  BY <1>0 DEF TypeOK, FetchCore
<1>7. TypeOK'
  BY <1>0, <1>1, <1>5, <1>6 DEF TypeOK, FetchCore, entry, flags, world
<1>8. UNCHANGED <<disk, update, inflight>>
  BY DEF FetchCore, flags
<1>9. OneClone'
  BY <1>1, <1>8, HoldKept DEF IInv
<1>10. CallersProper'
  BY <1>1, ProperKept DEF IInv, CallersProper, Proper
<1>11. CallersPlaced'
  BY <1>1, <1>6, <1>8 DEF IInv, CallersPlaced, Placed, Others
<1>12. StoredWhole'
  <2>1. SUFFICES ASSUME disk # 0, ~mixed'
                 PROVE  FilesNeeded(disk)' = {}
    BY <1>8 DEF StoredWhole
  <2>2. ~mixed /\ update.at = "idle"
    BY <1>6, <2>1
  <2>3. caller[c].v = disk
    BY <1>2, <2>1, <2>2 DEF IInv, CallersPlaced, Placed
  <2>4. FilesNeeded(disk) = {}
    BY <2>1, <2>2 DEF IInv, StoredWhole
  <2>5. \A g \in Files : file'[g] = IF g = f THEN Manifest[disk][f] ELSE file[g]
    BY <1>0, <1>4, <2>3 DEF TypeOK
  <2> QED
    BY <1>8, <2>4, <2>5 DEF FilesNeeded
<1>13. UpdateServed'
  BY <1>8 DEF IInv, UpdateServed
<1> QED
  BY <1>7, <1>9, <1>10, <1>11, <1>12, <1>13 DEF IInv

-----------------------------------------------------------------------------
(***************************************************************************)
(* Steps of the update pass, of a deletion, of a restart and of the world. *)
(***************************************************************************)

\* What the callers and in_flight have to do with each other is kept while
\* neither moves.
LEMMA CallersStill ==
    ASSUME IInv, UNCHANGED <<caller, inflight>>
    PROVE  OneClone' /\ CallersProper'
BY DEF IInv, OneClone, CallersProper, Proper

LEMMA LandingPlacing ==
    Landing <=> \E c \in Callers : caller[c].at \in Placing
BY DEF Landing, Placing

\* resync_xite stages a newer version.
LEMMA ProbeStep ==
    ASSUME NEW s \in Seeders, IInv, Probe(s)
    PROVE  IInv'
<1>0. TypeOK
  BY DEF IInv
<1>1. seed[s] \in Versions /\ seed[s] \in 0 .. MaxVersion
  BY <1>0, VersionRange DEF TypeOK
<1>2. PICK need \in SUBSET Files :
         update' = [at |-> "fetch", v |-> seed[s], need |-> need]
  BY NeededFinite DEF Probe
<1>3. /\ update' \in [at : {"idle", "fetch", "adopt"}, v : 0 .. MaxVersion,
                      need : SUBSET Files]
      /\ update'.at = "fetch" /\ update'.v = seed[s]
  BY <1>1, <1>2
<1>4. TypeOK'
  BY <1>0, <1>3 DEF TypeOK, Probe, entry, tree, flags, world
<1>5. OneClone' /\ CallersProper'
  BY CallersStill DEF Probe, flags
<1>6. CallersPlaced'
  BY DEF IInv, CallersPlaced, Placed, Probe, tree
<1>7. UpdateServed' /\ StoredWhole'
  BY <1>1, <1>3 DEF UpdateServed, StoredWhole
<1> QED
  BY <1>4, <1>5, <1>6, <1>7 DEF IInv

\* The update places a file; StoredWhole waits for its end.
LEMMA FetchUpdateStep ==
    ASSUME NEW f \in Files, IInv, FetchUpdate(f)
    PROVE  IInv'
<1>0. TypeOK
  BY DEF IInv
<1>1. update.at = "fetch" /\ "fetch" # "idle"
  BY DEF FetchUpdate
<1>2. update.v \in Versions
  BY <1>1 DEF IInv, UpdateServed
<1>3. file' = [file EXCEPT ![f] = Manifest[update.v][f]]
  BY DEF FetchUpdate
<1>4. /\ file' \in [Files -> Nat]
      /\ \A g \in Files :
            file'[g] \in {0} \cup {Manifest[w][g] : w \in Versions}
  BY <1>0, <1>2, <1>3, FilePut
<1>5. /\ update' \in [at : {"idle", "fetch", "adopt"}, v : 0 .. MaxVersion,
                      need : SUBSET Files]
      /\ update'.at = "fetch" /\ update'.v = update.v
  BY <1>0, <1>1 DEF TypeOK, FetchUpdate
<1>6. mixed' = (mixed \/ Landing) /\ mixed' \in BOOLEAN
  BY <1>0 DEF TypeOK, FetchUpdate, Landing
<1>7. TypeOK'
  BY <1>0, <1>4, <1>5, <1>6 DEF TypeOK, FetchUpdate, entry, flags, world
<1>8. OneClone' /\ CallersProper'
  BY CallersStill DEF FetchUpdate, flags
<1>9. CallersPlaced'
  BY <1>6 DEF IInv, CallersPlaced, Placed, FetchUpdate
<1>10. UpdateServed' /\ StoredWhole'
  BY <1>2, <1>5 DEF UpdateServed, StoredWhole
<1> QED
  BY <1>7, <1>8, <1>9, <1>10 DEF IInv

\* The update commits over a complete set, or gives up and leaves a mixture.
LEMMA EndUpdateStep ==
    ASSUME IInv, EndUpdate
    PROVE  IInv'
<1>0. TypeOK
  BY DEF IInv
<1>1. update.at = "fetch" /\ "fetch" # "idle" /\ "adopt" # "idle"
      /\ "adopt" # "fetch" /\ "idle" # "fetch"
  BY DEF EndUpdate
<1>2. update.v \in Versions /\ update.v \in 0 .. MaxVersion
  BY <1>1, VersionRange DEF IInv, UpdateServed
<1>3. OneClone' /\ CallersProper'
  BY CallersStill DEF EndUpdate, flags
<1>4. UNCHANGED <<file, caller>>
  BY DEF EndUpdate
<1>5. CASE FilesNeeded(update.v) = {}
  <2>1. /\ disk' = update.v /\ mixed' = (mixed \/ Landing)
        /\ update' = [update EXCEPT !.at = "adopt", !.need = {}]
    BY <1>5 DEF EndUpdate
  <2>2. mixed' \in BOOLEAN
    BY <1>0, <2>1 DEF TypeOK, Landing
  <2>3. /\ update' \in [at : {"idle", "fetch", "adopt"}, v : 0 .. MaxVersion,
                        need : SUBSET Files]
        /\ update'.at = "adopt" /\ update'.v = update.v
    BY <1>0, <2>1 DEF TypeOK
  <2>4. TypeOK'
    BY <1>0, <1>2, <2>1, <2>2, <2>3 DEF TypeOK, EndUpdate, entry, flags, world
  <2>5. CallersPlaced'
    BY <1>4, <2>1, LandingPlacing DEF CallersPlaced, Placed
  <2>6. StoredWhole'
    BY <1>4, <1>5, <2>1 DEF StoredWhole, FilesNeeded
  <2>7. UpdateServed'
    BY <1>2, <2>3 DEF UpdateServed
  <2> QED
    BY <1>3, <2>4, <2>5, <2>6, <2>7 DEF IInv
<1>6. CASE FilesNeeded(update.v) # {}
  <2>1. /\ disk' = disk /\ mixed' = (mixed \/ disk # 0) /\ update' = NoUpdate
    BY <1>6 DEF EndUpdate
  <2>2. mixed' \in BOOLEAN
    BY <1>0, <2>1 DEF TypeOK
  <2>3. TypeOK'
    BY <1>0, <2>1, <2>2, NoUpdateType DEF TypeOK, EndUpdate, entry, flags, world
  <2>4. CallersPlaced'
    BY <1>4, <2>1 DEF IInv, CallersPlaced, Placed
  <2>5. StoredWhole' /\ UpdateServed'
    BY <2>1, NoUpdateType DEF StoredWhole, UpdateServed
  <2> QED
    BY <1>3, <2>3, <2>4, <2>5 DEF IInv
<1> QED
  BY <1>5, <1>6

\* The update is adopted in memory.
LEMMA AdoptUpdateStep ==
    ASSUME IInv, AdoptUpdate
    PROVE  IInv'
<1>0. TypeOK
  BY DEF IInv
<1>1. update.at = "adopt" /\ "adopt" # "fetch" /\ update' = NoUpdate
  BY DEF AdoptUpdate
<1>2. mem' \in 0 .. MaxVersion
  BY <1>0 DEF TypeOK, AdoptUpdate
<1>3. TypeOK'
  BY <1>0, <1>1, <1>2, NoUpdateType DEF TypeOK, AdoptUpdate, tree, flags, world
<1>4. OneClone' /\ CallersProper'
  BY CallersStill DEF AdoptUpdate, flags
<1>5. CallersPlaced'
  BY DEF IInv, CallersPlaced, Placed, AdoptUpdate, tree
<1>6. UpdateServed'
  BY <1>1, NoUpdateType DEF UpdateServed
<1>7. StoredWhole'
  BY <1>1 DEF IInv, StoredWhole, FilesNeeded, AdoptUpdate, tree
<1> QED
  BY <1>3, <1>4, <1>5, <1>6, <1>7 DEF IInv

\* A step that touches neither the directory, the callers, in_flight, the
\* update nor the history.
LEMMA Elsewhere ==
    ASSUME IInv, TypeOK',
           UNCHANGED <<disk, file, caller, inflight, update, mixed>>
    PROVE  IInv'
<1>1. OneClone' /\ CallersProper'
  BY CallersStill
<1>2. CallersPlaced'
  BY DEF IInv, CallersPlaced, Placed
<1>3. StoredWhole' /\ UpdateServed'
  BY WholeKept DEF IInv
<1> QED
  BY <1>1, <1>2, <1>3 DEF IInv

\* remove_xite: the entry goes, the directory stays for now.
LEMMA DeleteStep ==
    ASSUME IInv, Delete
    PROVE  IInv'
<1>1. faults' \in 0 .. MaxFaults
  BY CloneAssumption DEF IInv, TypeOK, Delete
<1>2. TypeOK'
  BY <1>1, VersionRange DEF IInv, TypeOK, Delete, tree, flags, world
<1> QED
  BY <1>2, Elsewhere DEF Delete, tree, flags

\* remove_xite: the directory goes, under whoever works in it.
LEMMA RemoveTreeStep ==
    ASSUME IInv, RemoveTree
    PROVE  IInv'
<1>0. TypeOK
  BY DEF IInv
<1>1. /\ file' \in [Files -> Nat]
      /\ \A g \in Files :
            file'[g] \in {0} \cup {Manifest[w][g] : w \in Versions}
  BY DEF RemoveTree
<1>2. mixed' = (Landing \/ update.at # "idle") /\ mixed' \in BOOLEAN
  BY DEF RemoveTree, Landing
<1>3. TypeOK'
  BY <1>0, <1>1, <1>2, VersionRange
     DEF TypeOK, RemoveTree, entry, flags, world
<1>4. OneClone' /\ CallersProper'
  BY CallersStill DEF RemoveTree, flags
<1>5. CallersPlaced'
  BY <1>2, LandingPlacing DEF CallersPlaced, Placed, RemoveTree
<1>6. StoredWhole' /\ UpdateServed'
  BY DEF StoredWhole, IInv, UpdateServed, RemoveTree
<1> QED
  BY <1>3, <1>4, <1>5, <1>6 DEF IInv

LEMMA PersistRemovalStep ==
    ASSUME IInv, PersistRemoval
    PROVE  IInv'
<1>1. TypeOK'
  BY DEF IInv, TypeOK, PersistRemoval, tree, flags, world
<1> QED
  BY <1>1, Elsewhere DEF PersistRemoval, tree, flags

\* The process dies: the directory is what is left, and an update that was
\* writing in it over an older content.json has left a mixture.
LEMMA CrashStep ==
    ASSUME IInv, Crash
    PROVE  IInv'
<1>0. TypeOK
  BY DEF IInv
<1>1. faults' \in 0 .. MaxFaults
  BY <1>0, CloneAssumption DEF TypeOK, Crash
<1>2. /\ caller' \in [Callers -> CallerRecord]
      /\ \A c \in Callers : caller'[c] = Idle
  BY IdleType DEF Crash
<1>3. mem' \in 0 .. MaxVersion /\ peers' \in SUBSET Seeders
  BY <1>0, VersionRange DEF TypeOK, Crash
<1>4. /\ mixed' = (mixed \/ (update.at = "fetch" /\ disk # 0))
      /\ mixed' \in BOOLEAN
  BY <1>0 DEF TypeOK, Crash
<1>5. TypeOK'
  BY <1>0, <1>1, <1>2, <1>3, <1>4, NoUpdateType DEF TypeOK, Crash, tree, world
<1>6. OneClone' /\ CallersProper' /\ CallersPlaced'
  BY <1>2, IdleType, Names
     DEF OneClone, CallersProper, Proper, CallersPlaced, Placed
<1>7. UpdateServed'
  BY NoUpdateType DEF UpdateServed, Crash
<1>8. StoredWhole'
  BY <1>4 DEF IInv, StoredWhole, FilesNeeded, Crash, tree
<1> QED
  BY <1>5, <1>6, <1>7, <1>8 DEF IInv

\* A seeder gets a newer version, comes or goes.
LEMMA WorldStep ==
    ASSUME NEW s \in Seeders, IInv, SeedNewer(s) \/ Flip(s)
    PROVE  IInv'
<1>0. TypeOK
  BY DEF IInv
<1>1. CASE SeedNewer(s)
  <2>1. seed[s] \in Versions /\ seed[s] + 1 \in Versions
    BY <1>0, <1>1, CloneAssumption DEF TypeOK, SeedNewer, Versions
  <2>2. seed' \in [Seeders -> Versions]
    BY <1>0, <1>1, <2>1 DEF TypeOK, SeedNewer
  <2>3. TypeOK'
    BY <1>0, <1>1, <2>2 DEF TypeOK, SeedNewer, entry, tree, flags
  <2> QED
    BY <1>1, <2>3, Elsewhere DEF SeedNewer, tree, flags
<1>2. CASE Flip(s)
  <2>1. faults' \in 0 .. MaxFaults
    BY <1>0, <1>2, CloneAssumption DEF TypeOK, Flip
  <2>2. up' \in SUBSET Seeders
    BY <1>0, <1>2 DEF TypeOK, Flip
  <2>3. TypeOK'
    BY <1>0, <1>2, <2>1, <2>2 DEF TypeOK, Flip, entry, tree, flags
  <2> QED
    BY <1>2, <2>3, Elsewhere DEF Flip, tree, flags
<1> QED
  BY <1>1, <1>2

-----------------------------------------------------------------------------
(***************************************************************************)
(* The theorems.                                                           *)
(***************************************************************************)

\* Every step of a caller keeps the invariant.
LEMMA CallerStep ==
    ASSUME NEW c \in Callers, IInv, Work(c) \/ WaitGivesUp(c) \/ TorRefused(c)
    PROVE  IInv'
<1>1. CASE Ensure(c)
  BY <1>1, EnsureStep
<1>2. CASE Admit(c)
  BY <1>2, AdmitStep
<1>3. CASE Wait(c)
  BY <1>3, WaitStep
<1>4. CASE TorReady(c)
  BY <1>4, TorReadyStep
<1>5. CASE WaitGivesUp(c)
  BY <1>5, WaitGivesUpStep
<1>6. CASE TorRefused(c)
  BY <1>6, TorRefusedStep
<1>7. CASE CloneStep(c)
  <2>1. CASE Open(c)
    BY <2>1, OpenStep
  <2>2. CASE RaceFails(c)
    BY <2>2, RaceFailsStep
  <2>3. CASE StartPass(c)
    BY <2>3, StartPassStep
  <2>4. CASE EndPass(c)
    BY <2>4, EndPassStep
  <2>5. CASE Commit(c)
    BY <2>5, CommitStep
  <2>6. CASE Fail(c)
    BY <2>6, FailStep
  <2>7. CASE Settle(c)
    BY <2>7, SettleStep
  <2>8. CASE Release(c)
    BY <2>8, ReleaseStep
  <2>9. CASE \E s \in Seeders : Ask(c, s) \/ Win(c, s) \/ Lose(c, s)
    BY <2>9, AskStep, WinStep, LoseStep
  <2>10. CASE \E f \in Files : FetchCore(c, f)
    BY <2>10, FetchCoreStep
  <2> QED
    BY <1>7, <2>1, <2>2, <2>3, <2>4, <2>5, <2>6, <2>7, <2>8, <2>9, <2>10
       DEF CloneStep
<1> QED
  BY <1>1, <1>2, <1>3, <1>4, <1>5, <1>6, <1>7 DEF Work

\* The invariant holds from the start and every step keeps it.
THEOREM Invariance == Spec => []IInv
<1>1. Init => IInv
  <2> SUFFICES ASSUME Init
               PROVE  IInv
    OBVIOUS
  <2>1. \A c \in Callers : caller[c] = Idle
    BY DEF Init
  <2>2. caller \in [Callers -> CallerRecord]
    BY IdleType DEF Init
  <2>3. 0 \in 0 .. MaxFaults
    BY CloneAssumption
  <2>4. file \in [Files -> Nat] /\ \A f \in Files : file[f] = 0
    BY DEF Init
  <2>5. seed \in [Seeders -> Versions]
    BY VersionRange DEF Init
  <2>6. TypeOK
    BY <2>2, <2>3, <2>4, <2>5, VersionRange, NoUpdateType DEF Init, TypeOK
  <2>7. OneClone /\ CallersProper /\ CallersPlaced
    BY <2>1, IdleType, Names
       DEF OneClone, CallersProper, Proper, CallersPlaced, Placed
  <2>8. UpdateServed /\ StoredWhole
    BY NoUpdateType DEF Init, UpdateServed, StoredWhole
  <2> QED
    BY <2>6, <2>7, <2>8 DEF IInv
<1>2. IInv /\ [Next]_vars => IInv'
  <2> SUFFICES ASSUME IInv, [Next]_vars
               PROVE  IInv'
    OBVIOUS
  <2>1. CASE \E c \in Visitors : Visit(c)
    BY <2>1, VisitStep DEF Callers
  <2>2. CASE \E c \in Callers : Work(c) \/ WaitGivesUp(c) \/ TorRefused(c)
    BY <2>2, CallerStep
  <2>3. CASE RetryTick
    BY <2>3, RetryTickStep
  <2>4. CASE UpdateStep
    BY <2>4, EndUpdateStep, AdoptUpdateStep, ProbeStep, FetchUpdateStep
       DEF UpdateStep
  <2>5. CASE RemoveStep
    BY <2>5, RemoveTreeStep, PersistRemovalStep DEF RemoveStep
  <2>6. CASE Delete
    BY <2>6, DeleteStep
  <2>7. CASE Crash
    BY <2>7, CrashStep
  <2>8. CASE \E s \in Seeders : SeedNewer(s) \/ Flip(s)
    BY <2>8, WorldStep
  <2>9. CASE \E c \in Callers, s \in Seeders : Discover(c, s)
    BY <2>9, DiscoverStep
  <2>10. CASE UNCHANGED vars
    <3>1. TypeOK'
      BY <2>10 DEF IInv, TypeOK, vars, entry, tree, flags, world
    <3> QED
      BY <2>10, <3>1, Elsewhere DEF vars, tree, flags
  <2> QED
    BY <2>1, <2>2, <2>3, <2>4, <2>5, <2>6, <2>7, <2>8, <2>9, <2>10 DEF Next
<1> QED
  BY <1>1, <1>2, PTL DEF Spec

\* The types of the state: every directory holds files of signed versions only.
THEOREM TypeCorrect == Spec => []TypeOK
<1>1. IInv => TypeOK
  BY DEF IInv
<1> QED
  BY <1>1, Invariance, PTL

\* OnDemand.in_flight keeps clones apart: whatever visits, retries, failures,
\* deletions and restarts come together, one caller at a time downloads.
THEOREM ClonesApart == Spec => []OneClone
<1>1. IInv => OneClone
  BY DEF IInv
<1> QED
  BY <1>1, Invariance, PTL

\* clone_xite_with_progress: unless another writer used the directory, the
\* content.json on disk is never ahead of its files.
THEOREM CloneStoresWhole == Spec => []StoredWhole
<1>1. IInv => StoredWhole
  BY DEF IInv
<1> QED
  BY <1>1, Invariance, PTL
=============================================================================
