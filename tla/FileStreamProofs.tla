-------------------------- MODULE FileStreamProofs --------------------------
(***************************************************************************)
(* Proofs about FileStream: the groups a sparse record marks present are   *)
(* in the sparse file, for any number of groups, paths, windows and        *)
(* faults.                                                                 *)
(***************************************************************************)
EXTENDS FileStream, TLAPS

(***************************************************************************)
(* The inductive invariant.                                                *)
(***************************************************************************)

\* A Range read keeps one of the windows the player asked for.
ReadsWindow == task["read"].at # "idle" => task["read"].win \in Windows

\* The gates of the spawned tasks say which of them run: no spawn overwrites a
\* task at work.
GatesExact ==
    /\ \A t \in {"ahead", "complete", "move"} : t \in gates <=> task[t].at # "idle"
    /\ warmed => media
    /\ ~warmed => task["warm"].at = "idle"

\* Who is counted in sparse_writers: the decodes of the tasks, the detached one,
\* and the moves from their guard to their commit.
WritersExact ==
    /\ \A t \in Tasks : t \in writers <=> task[t].at \in {"write", "rename", "commit"}
    /\ \A w \in stale : w = "salvage" \/ task[w].at = "write"

Decoding(w) == w \in writers /\ (w = "salvage" \/ task[w].at = "write")

\* An eviction that unlinks runs with nobody counted.
UnlinksAlone == unlinking => writers = {}

\* A decode has its record, until retire_extern takes it away.
RecordKept == ~torn /\ rec.kind = "none" => \A w \in writers : ~Decoding(w)

\* With the sparse file gone every decode writes elsewhere.
GoneIsStale == sparse = Gone => \A w \in writers : Decoding(w) => w \in stale

\* A decode that writes elsewhere finds no record it could mark over a file it
\* did not write.
StaleHarmless ==
    ~torn /\ stale # {} =>
        rec.kind = "extern" \/ (rec.kind = "sparse" /\ sparse = Gone)

IInv ==
    /\ TypeOK
    /\ ReadsWindow
    /\ GatesExact
    /\ WritersExact
    /\ UnlinksAlone
    /\ RecordKept
    /\ GoneIsStale
    /\ StaleHarmless
    /\ BitsBacked

-----------------------------------------------------------------------------
(***************************************************************************)
(* Windows and the records of tasks.                                       *)
(***************************************************************************)

Movers == {"batch", "file", "move", "check"}

TaskRec ==
    [at : Places, win : SUBSET Groups, want : SUBSET Groups, path : Paths \cup {""},
     left : 0 .. HeadTries, err : BOOLEAN]

\* A window has a first and a last group.
LEMMA WindowBounds ==
    ASSUME NEW w \in Windows
    PROVE  /\ w \subseteq Groups
           /\ First(w) \in w /\ \A h \in w : First(w) <= h
           /\ Last(w) \in w
  <1>1. PICK a \in 1 .. GroupCount, b \in 1 .. GroupCount : a <= b /\ w = a .. b
    BY StreamAssumption
  <1>2. a \in Nat /\ b \in Nat /\ w \subseteq Groups
    BY <1>1, StreamAssumption DEF Groups
  <1>3. a \in w /\ b \in w /\ \A h \in w : a <= h /\ b >= h
    BY <1>1, <1>2
  <1>4. \E g \in w : \A h \in w : g <= h
    BY <1>3
  <1>5. \E g \in w : \A h \in w : g >= h
    BY <1>3
  <1>6. First(w) \in w /\ \A h \in w : First(w) <= h
    BY <1>4 DEF First
  <1>7. Last(w) \in w
    BY <1>5 DEF Last
  <1> QED BY <1>2, <1>6, <1>7

\* A window of which no prefix is present lacks its first group, which is the
\* one retry_prefix_head asks for.
LEMMA HeadMissing ==
    ASSUME NEW w \in Windows, PresentPrefix(w) = {}
    PROVE  First(MissingGroups(w)) \in Groups
  <1>1. w \subseteq Groups /\ First(w) \in w /\ \A h \in w : First(w) <= h
    BY WindowBounds
  <1>2. First(w) \in Nat
    BY <1>1, StreamAssumption DEF Groups
  <1>3. First(w) .. First(w) = {First(w)}
    BY <1>2
  <1>4. First(w) \notin Has
    BY <1>1, <1>3 DEF PresentPrefix
  <1>5. First(w) \in MissingGroups(w)
    BY <1>1, <1>4 DEF MissingGroups
  <1>6. \A h \in MissingGroups(w) : First(w) <= h
    BY <1>1 DEF MissingGroups
  <1>7. \E g \in MissingGroups(w) : \A h \in MissingGroups(w) : g <= h
    BY <1>5, <1>6
  <1>8. First(MissingGroups(w)) \in MissingGroups(w)
    <2> DEFINE m == MissingGroups(w)
    <2>1. \E g \in m : \A h \in m : g <= h
      BY <1>7
    <2> HIDE DEF m
    <2>2. First(m) \in m
      BY <2>1 DEF First
    <2> QED BY <2>2 DEF m
  <1> QED BY <1>1, <1>8 DEF MissingGroups

\* What follows a window is groups of the object.
LEMMA AheadGroups ==
    ASSUME NEW w \in Windows
    PROVE  PlanReadahead(w) \subseteq Groups /\ Last(w) \in Groups
  <1>1. Last(w) \in Groups
    BY WindowBounds
  <1>2. Last(w) \in Nat /\ GroupCount \in Nat
    BY <1>1, StreamAssumption DEF Groups
  <1> HIDE DEF Last
  <1>3. Last(w) + 1 .. GroupCount \subseteq 1 .. GroupCount
    BY <1>2
  <1> QED BY <1>1, <1>3 DEF PlanReadahead, Groups

LEMMA NeededGroups ==
    ASSUME TypeOK, NEW t \in Tasks
    PROVE  /\ Has \subseteq Groups
           /\ MissingGroups(Groups) \subseteq Groups
           /\ Needed(t) \subseteq Groups
           /\ NoRec \in [kind : {"none", "sparse", "extern"}, bits : SUBSET Groups,
                         path : Paths \cup {""}]
           /\ Idle \in TaskRec
  <1>1. Has \subseteq Groups
    BY DEF TypeOK, Has
  <1>2. MissingGroups(Groups) \subseteq Groups
    BY DEF MissingGroups
  <1>3. CompletionBatch(MissingGroups(Groups)) \subseteq Groups
    BY <1>2 DEF CompletionBatch
  <1>4. MissingGroups(task[t].win) \subseteq Groups
    BY DEF TypeOK, MissingGroups
  <1>5. Needed(t) \subseteq Groups
    BY <1>3, <1>4 DEF Needed
  <1>6. Idle \in TaskRec
    BY StreamAssumption DEF Idle, TaskRec, Places
  <1>7. NoRec \in [kind : {"none", "sparse", "extern"}, bits : SUBSET Groups,
                   path : Paths \cup {""}]
    BY DEF NoRec
  <1> QED BY <1>1, <1>2, <1>5, <1>6, <1>7

\* The object has a last group, and a head is tried for at least once.
LEMMA Sizes == 1 \in Groups /\ GroupCount \in Groups /\ 0 \in 0 .. HeadTries /\ 1 \in 0 .. HeadTries
  <1>1. GroupCount \in Nat /\ GroupCount # 0 /\ HeadTries \in Nat /\ HeadTries # 0
    BY StreamAssumption
  <1>2. GroupCount \in 1 .. GroupCount /\ 1 \in 1 .. GroupCount
    BY <1>1
  <1> QED BY <1>1, <1>2 DEF Groups

\* The names of the tasks and the places.
LEMMA Names ==
    /\ Fetchers \subseteq Tasks /\ Movers \subseteq Tasks
    /\ {"read", "ahead", "warm", "complete", "batch", "file", "move", "check"}
          \subseteq Tasks
    /\ "salvage" \notin Tasks
    /\ {"idle", "plan", "peers", "claim", "ensure", "insert", "fetch", "write", "drop",
        "landed", "after", "back", "mat", "guard", "rename", "commit", "unlink", "moved",
        "unmoved", "check", "shrink"} \subseteq Places
    /\ Idle \in TaskRec
    /\ Idle.at = "idle" /\ Idle.left = 0 /\ Idle.win = {}
  <1>1. Idle \in TaskRec
    BY StreamAssumption DEF Idle, TaskRec, Places
  <1>2. Idle.at = "idle" /\ Idle.left = 0 /\ Idle.win = {}
    BY DEF Idle
  <1> QED BY <1>1, <1>2 DEF Tasks, Fetchers, Movers, Places

\* A task replaced: the others are as they were.
LEMMA Put ==
    ASSUME NEW tk \in [Tasks -> TaskRec], NEW t \in Tasks, NEW r \in TaskRec
    PROVE  /\ [tk EXCEPT ![t] = r] \in [Tasks -> TaskRec]
           /\ [tk EXCEPT ![t] = r][t] = r
           /\ \A u \in Tasks : u # t => [tk EXCEPT ![t] = r][u] = tk[u]
  OBVIOUS

\* The fields of a task replaced one at a time.
LEMMA SetAt ==
    ASSUME NEW r \in TaskRec, NEW a \in Places
    PROVE  /\ [r EXCEPT !.at = a] \in TaskRec
           /\ [r EXCEPT !.at = a].at = a
           /\ [r EXCEPT !.at = a].win = r.win
           /\ [r EXCEPT !.at = a].path = r.path
  BY DEF TaskRec

LEMMA SetWin ==
    ASSUME NEW r \in TaskRec, NEW a \in SUBSET Groups
    PROVE  /\ [r EXCEPT !.win = a] \in TaskRec
           /\ [r EXCEPT !.win = a].at = r.at
           /\ [r EXCEPT !.win = a].win = a
  BY DEF TaskRec

LEMMA SetWant ==
    ASSUME NEW r \in TaskRec, NEW a \in SUBSET Groups
    PROVE  /\ [r EXCEPT !.want = a] \in TaskRec
           /\ [r EXCEPT !.want = a].at = r.at
           /\ [r EXCEPT !.want = a].win = r.win
  BY DEF TaskRec

LEMMA SetPath ==
    ASSUME NEW r \in TaskRec, NEW a \in Paths \cup {""}
    PROVE  /\ [r EXCEPT !.path = a] \in TaskRec
           /\ [r EXCEPT !.path = a].at = r.at
           /\ [r EXCEPT !.path = a].win = r.win
  BY DEF TaskRec

LEMMA SetLeft ==
    ASSUME NEW r \in TaskRec, NEW a \in 0 .. HeadTries
    PROVE  /\ [r EXCEPT !.left = a] \in TaskRec
           /\ [r EXCEPT !.left = a].at = r.at
           /\ [r EXCEPT !.left = a].win = r.win
  BY DEF TaskRec

LEMMA SetErr ==
    ASSUME NEW r \in TaskRec, NEW a \in BOOLEAN
    PROVE  /\ [r EXCEPT !.err = a] \in TaskRec
           /\ [r EXCEPT !.err = a].at = r.at
           /\ [r EXCEPT !.err = a].win = r.win
  BY DEF TaskRec

\* A task sent to another place, or failed, or ended.
LEMMA ToPut ==
    ASSUME TypeOK, NEW t \in Tasks, NEW a \in Places, To(t, a)
    PROVE  \E r \in TaskRec : /\ task' = [task EXCEPT ![t] = r]
                              /\ r.at = a /\ r.win = task[t].win
  <1>1. task[t] \in TaskRec
    BY DEF TypeOK, TaskRec
  <1>2. task' = [task EXCEPT ![t] = [task[t] EXCEPT !.at = a]]
    BY DEF To
  <1> QED BY <1>1, <1>2, SetAt

LEMMA FailPut ==
    ASSUME TypeOK, NEW t \in Tasks, NEW a \in Places, Fail(t, a)
    PROVE  \E r \in TaskRec : /\ task' = [task EXCEPT ![t] = r]
                              /\ r.at = a /\ r.win = task[t].win
  <1>1. task[t] \in TaskRec
    BY DEF TypeOK, TaskRec
  <1>2. PICK r \in TaskRec : /\ r = [task[t] EXCEPT !.at = a]
                             /\ r.at = a /\ r.win = task[t].win
    BY <1>1, SetAt
  <1>3. PICK q \in TaskRec : /\ q = [r EXCEPT !.err = TRUE]
                             /\ q.at = r.at /\ q.win = r.win
    BY SetErr
  <1>4. task' = [task EXCEPT ![t] = q]
    BY <1>2, <1>3, <1>1 DEF Fail, TypeOK, TaskRec
  <1> QED BY <1>2, <1>3, <1>4

LEMMA BeginPut ==
    ASSUME TypeOK, NEW t \in Tasks, Begin(t)
    PROVE  \E r \in TaskRec : /\ task' = [task EXCEPT ![t] = r]
                              /\ r.at = "fetch" /\ r.win = task[t].win
  <1>1. task[t] \in TaskRec
    BY DEF TypeOK, TaskRec
  <1>2. PICK w \in SUBSET Groups :
            w = IF t \in {"batch", "file"} THEN MissingGroups(Groups) ELSE task[t].want
    BY NeededGroups DEF TypeOK
  <1>3. PICK r \in TaskRec : /\ r = [task[t] EXCEPT !.at = "fetch"]
                             /\ r.at = "fetch" /\ r.win = task[t].win
    <2>1. "fetch" \in Places
      BY DEF Places
    <2> QED BY <1>1, <2>1, SetAt
  <1>4. PICK q \in TaskRec : /\ q = [r EXCEPT !.want = w]
                             /\ q.at = r.at /\ q.win = r.win
    BY SetWant
  <1>5. task' = [task EXCEPT ![t] = q]
    BY <1>2, <1>3, <1>4, <1>1 DEF Begin, TypeOK, TaskRec
  <1> QED BY <1>3, <1>4, <1>5

\* A spawned task.
SpawnRec(q, w) == [Idle EXCEPT !.at = "plan", !.path = q, !.win = w]

LEMMA SpawnPut ==
    ASSUME NEW q \in Paths \cup {""}, NEW w \in SUBSET Groups
    PROVE  /\ SpawnRec(q, w) \in TaskRec
           /\ SpawnRec(q, w).at = "plan" /\ SpawnRec(q, w).win = w
  <1>1. PICK r1 \in TaskRec : r1 = [Idle EXCEPT !.at = "plan"] /\ r1.at = "plan"
    <2>1. "plan" \in Places /\ Idle \in TaskRec
      BY Names DEF Places
    <2> QED BY <2>1, SetAt
  <1>2. PICK r2 \in TaskRec : r2 = [r1 EXCEPT !.path = q] /\ r2.at = r1.at
    BY SetPath
  <1>3. PICK r3 \in TaskRec : r3 = [r2 EXCEPT !.win = w] /\ r3.at = r2.at /\ r3.win = w
    BY SetWin
  <1>4. r3 = SpawnRec(q, w)
    BY <1>1, <1>2, <1>3 DEF SpawnRec
  <1> QED BY <1>1, <1>2, <1>3, <1>4

-----------------------------------------------------------------------------
(***************************************************************************)
(* Control: tasks keep their types, a read its window, and the gates say   *)
(* who runs.                                                               *)
(***************************************************************************)

\* The places where a task is counted in sparse_writers.
Writing == {"write", "rename", "commit"}

\* No task starts or stops being counted.
Calm ==
    \A u \in Tasks :
        task'[u].at # task[u].at => task'[u].at \notin Writing /\ task[u].at \notin Writing

\* The steps that count somebody, or stop counting him.
WriterStep ==
    \E t \in Tasks : \/ WriteStart(t) \/ WriteEnd(t) \/ Abandon(t)
                     \/ GuardMove(t) \/ Rename(t) \/ CommitExtern(t)

Steady == WriterStep \/ Crash \/ Calm

Gated(tk, gs) == \A t \in {"ahead", "complete", "move"} : t \in gs <=> tk[t].at # "idle"

Control == task \in [Tasks -> TaskRec] /\ ReadsWindow /\ GatesExact

\* A task that was at work and still is.
LEMMA BusyStays ==
    ASSUME Control, NEW t \in Tasks, NEW r \in TaskRec, task' = [task EXCEPT ![t] = r],
           task[t].at # "idle", r.at # "idle", t = "read" => r.win = task[t].win,
           UNCHANGED <<gates, warmed, media>>
    PROVE  /\ Control'
           /\ task[t].at \notin Writing /\ r.at \notin Writing => Calm
  <1>1. task' \in [Tasks -> TaskRec] /\ task'[t] = r
        /\ \A u \in Tasks : u # t => task'[u] = task[u]
    BY Put DEF Control
  <1>2. \A u \in Tasks : task'[u].at = "idle" <=> task[u].at = "idle"
    BY <1>1
  <1>3. ReadsWindow'
    BY <1>1, Names DEF Control, ReadsWindow
  <1>4. GatesExact'
    BY <1>2, Names DEF Control, GatesExact
  <1>5. task[t].at \notin Writing /\ r.at \notin Writing => Calm
    BY <1>1 DEF Calm
  <1> QED BY <1>1, <1>3, <1>4, <1>5 DEF Control

\* A task without a gate that starts or ends.
LEMMA Ungated ==
    ASSUME Control, NEW t \in {"read", "batch", "file", "check"}, NEW r \in TaskRec,
           task' = [task EXCEPT ![t] = r], t = "read" => r.at = "idle",
           UNCHANGED <<gates, warmed, media>>, task[t].at \notin Writing,
           r.at \notin Writing
    PROVE  Control' /\ Calm
  <1>1. task' \in [Tasks -> TaskRec] /\ task'[t] = r
        /\ \A u \in Tasks : u # t => task'[u] = task[u]
    BY Put, Names DEF Control
  <1>3. ReadsWindow'
    BY <1>1, Names DEF Control, ReadsWindow
  <1>4. GatesExact'
    BY <1>1, Names DEF Control, GatesExact
  <1>5. Calm
    BY <1>1 DEF Calm
  <1> QED BY <1>1, <1>3, <1>4, <1>5 DEF Control

LEMMA ControlKept ==
    ASSUME Control, UNCHANGED <<task, gates, warmed, media>>
    PROVE  Control' /\ Calm
  BY DEF Control, ReadsWindow, GatesExact, Calm

\* Control from its parts, after a step that changes several tasks.
LEMMA ControlFrom ==
    ASSUME Control, task' \in [Tasks -> TaskRec], Gated(task', gates'),
           task'["read"].at # "idle" => task'["read"].win \in Windows,
           warmed' => media', ~warmed' => task'["warm"].at = "idle"
    PROVE  Control'
  BY DEF Control, ReadsWindow, GatesExact, Gated

\* A record for a task that moves the object.
LEMMA MovePut ==
    ASSUME NEW q \in Paths \cup {""}
    PROVE  /\ [Idle EXCEPT !.at = "mat", !.path = q] \in TaskRec
           /\ [Idle EXCEPT !.at = "mat", !.path = q].at = "mat"
  <1>1. "mat" \in Places /\ Idle \in TaskRec
    BY Names DEF Places
  <1>2. PICK r1 \in TaskRec : r1 = [Idle EXCEPT !.at = "mat"] /\ r1.at = "mat"
    BY <1>1, SetAt
  <1>3. PICK r2 \in TaskRec : r2 = [r1 EXCEPT !.path = q] /\ r2.at = r1.at
    BY SetPath
  <1>4. r2 = [Idle EXCEPT !.at = "mat", !.path = q]
    BY <1>2, <1>3
  <1> QED BY <1>2, <1>3, <1>4

\* What serving a window sets off overwrites no task at work.
LEMMA Serving ==
    ASSUME NEW tk \in [Tasks -> TaskRec], NEW gs, NEW q \in Paths \cup {""},
           NEW w \in Windows, Gated(tk, gs), "move" \in gates <=> "move" \in gs,
           AfterServe(tk, gs, q, w)
    PROVE  /\ task' \in [Tasks -> TaskRec]
           /\ Gated(task', gates')
           /\ \A u \in Tasks : u \notin {"move", "ahead"} => task'[u] = tk[u]
           /\ \A u \in Tasks : task'[u].at # tk[u].at =>
                 task'[u].at \notin Writing /\ tk[u].at = "idle"
  <1> DEFINE ahead == PlanReadahead(w)
             starts == ahead # {} /\ "ahead" \notin gs
             mv == [Idle EXCEPT !.at = "mat", !.path = q]
             moving == IF Moves THEN [tk EXCEPT !["move"] = mv] ELSE tk
  <1>1. "move" \in Tasks /\ "ahead" \in Tasks
    BY Names
  <1>2. ahead \in SUBSET Groups
    BY AheadGroups
  <1>3. mv \in TaskRec /\ mv.at = "mat"
    BY MovePut
  <1>4. gates' = gs \cup (IF Moves THEN {"move"} ELSE {})
                    \cup (IF starts THEN {"ahead"} ELSE {})
        /\ task' = IF starts THEN Spawn(moving, "ahead", q, ahead) ELSE moving
    BY DEF AfterServe
  <1>5. Moves => "move" \notin gs
    BY DEF Moves
  <1> HIDE DEF mv, ahead
  <1>6. moving \in [Tasks -> TaskRec]
        /\ (Moves => moving["move"] = mv)
        /\ (~Moves => moving = tk)
        /\ \A u \in Tasks : u # "move" => moving[u] = tk[u]
    BY <1>1, <1>3, Put
  <1> HIDE DEF moving
  <1>7. PICK r \in TaskRec : /\ Spawn(moving, "ahead", q, ahead) = [moving EXCEPT !["ahead"] = r]
                             /\ r.at = "plan"
    <2>1. moving \in [Tasks -> TaskRec] /\ "ahead" \in Tasks
      BY <1>1, <1>6
    <2>2. SpawnRec(q, ahead) \in TaskRec /\ SpawnRec(q, ahead).at = "plan"
      BY <2>1, <1>2, SpawnPut
    <2>3. Spawn(moving, "ahead", q, ahead) = [moving EXCEPT !["ahead"] = SpawnRec(q, ahead)]
      BY DEF Spawn, SpawnRec
    <2> QED BY <2>2, <2>3
  <1> HIDE DEF starts
  <1>8. task' \in [Tasks -> TaskRec]
        /\ (starts => task'["ahead"] = r)
        /\ (~starts => task' = moving)
        /\ \A u \in Tasks : u # "ahead" => task'[u] = moving[u]
    <2>1. /\ [moving EXCEPT !["ahead"] = r] \in [Tasks -> TaskRec]
          /\ [moving EXCEPT !["ahead"] = r]["ahead"] = r
          /\ \A u \in Tasks : u # "ahead" => [moving EXCEPT !["ahead"] = r][u] = moving[u]
      BY <1>1, <1>6, Put
    <2>2. CASE starts
      BY <1>4, <1>7, <2>1, <2>2
    <2>3. CASE ~starts
      BY <1>4, <1>6, <2>3
    <2> QED BY <2>2, <2>3
  <1>9. starts => "ahead" \notin gs
    BY DEF starts
  <1>10. Gated(task', gates')
    <2>1. "ahead" \in gates' <=> task'["ahead"].at # "idle"
      <3>1. CASE starts
        BY <3>1, <1>4, <1>7, <1>8
      <3>2. CASE ~starts
        BY <3>2, <1>1, <1>4, <1>6, <1>8 DEF Gated
      <3> QED BY <3>1, <3>2
    <2>2. "move" \in gates' <=> task'["move"].at # "idle"
      <3>1. CASE Moves
        BY <3>1, <1>1, <1>3, <1>4, <1>6, <1>8
      <3>2. CASE ~Moves
        BY <3>2, <1>1, <1>4, <1>6, <1>8 DEF Gated
      <3> QED BY <3>1, <3>2
    <2>3. "complete" \in gates' <=> task'["complete"].at # "idle"
      <3>1. "complete" \in Tasks
        BY Names
      <3>2. task'["complete"] = tk["complete"]
        BY <3>1, <1>6, <1>8
      <3>3. "complete" \in gates' <=> "complete" \in gs
        BY <1>4
      <3> QED BY <3>2, <3>3 DEF Gated
    <2> QED BY <2>1, <2>2, <2>3 DEF Gated
  <1>11. \A u \in Tasks : u \notin {"move", "ahead"} => task'[u] = tk[u]
    BY <1>6, <1>8
  <1>12. starts => tk["ahead"].at = "idle" /\ task'["ahead"].at = "plan"
    BY <1>7, <1>8, <1>9 DEF Gated
  <1>13. Moves => tk["move"].at = "idle" /\ task'["move"].at = "mat"
    BY <1>1, <1>3, <1>5, <1>6, <1>8 DEF Gated
  <1>14. /\ ~starts => task'["ahead"] = tk["ahead"]
         /\ ~Moves => task'["move"] = tk["move"]
    BY <1>1, <1>6, <1>8
  <1>15. \A u \in Tasks : task'[u].at # tk[u].at =>
                 task'[u].at \notin Writing /\ tk[u].at = "idle"
    BY <1>11, <1>12, <1>13, <1>14 DEF Writing
  <1> QED BY <1>8, <1>10, <1>11, <1>15

\* The warm-up and the completion a Range request spawns.
LEMMA ReadSpawns ==
    ASSUME Control, NEW q \in Paths \cup {""}
    PROVE  LET warm == WarmMoov(task, q)
               tk   == IF Completes THEN Spawn(warm, "complete", q, {}) ELSE warm
               gs   == IF Completes THEN gates \cup {"complete"} ELSE gates
           IN  /\ tk \in [Tasks -> TaskRec]
               /\ Gated(tk, gs)
               /\ \A u \in Tasks : u \notin {"warm", "complete"} => tk[u] = task[u]
               /\ \A u \in Tasks : tk[u].at # task[u].at =>
                     tk[u].at \notin Writing /\ task[u].at = "idle"
               /\ ~media => tk["warm"].at = "idle"
               /\ "move" \in gates <=> "move" \in gs
  <1> DEFINE warm == WarmMoov(task, q)
             tk   == IF Completes THEN Spawn(warm, "complete", q, {}) ELSE warm
             gs   == IF Completes THEN gates \cup {"complete"} ELSE gates
  <1>1. "warm" \in Tasks /\ "complete" \in Tasks /\ "ahead" \in Tasks /\ "move" \in Tasks
    BY Names
  <1>2. GroupCount \in Groups /\ 1 \in 0 .. HeadTries
    BY Sizes
  <1>3. PICK r1 \in TaskRec :
            /\ Spawn(task, "warm", q, {GroupCount}) = [task EXCEPT !["warm"] = r1]
            /\ r1.at = "plan"
    <2>1. task \in [Tasks -> TaskRec] /\ {GroupCount} \in SUBSET Groups
      BY <1>2 DEF Control
    <2>2. SpawnRec(q, {GroupCount}) \in TaskRec /\ SpawnRec(q, {GroupCount}).at = "plan"
      BY <1>1, <2>1, SpawnPut
    <2>3. Spawn(task, "warm", q, {GroupCount}) = [task EXCEPT !["warm"] = SpawnRec(q, {GroupCount})]
      BY DEF Spawn, SpawnRec
    <2> QED BY <2>2, <2>3
  <1>4. PICK r2 \in TaskRec : r2 = [r1 EXCEPT !.left = 1] /\ r2.at = r1.at
    BY <1>2, SetLeft
  <1>5. task \in [Tasks -> TaskRec]
    BY DEF Control
  <1>6. warm = IF warmed \/ ~media THEN task ELSE [task EXCEPT !["warm"] = r2]
    BY <1>1, <1>3, <1>4, <1>5 DEF WarmMoov
  <1> HIDE DEF warm
  <1>7. warm \in [Tasks -> TaskRec]
        /\ (warmed \/ ~media => warm = task)
        /\ (~(warmed \/ ~media) => warm["warm"] = r2)
        /\ \A u \in Tasks : u # "warm" => warm[u] = task[u]
    BY <1>1, <1>5, <1>6, Put
  <1>8. PICK r \in TaskRec : /\ Spawn(warm, "complete", q, {}) = [warm EXCEPT !["complete"] = r]
                             /\ r.at = "plan"
    <2>1. warm \in [Tasks -> TaskRec] /\ {} \in SUBSET Groups
      BY <1>7
    <2>2. SpawnRec(q, {}) \in TaskRec /\ SpawnRec(q, {}).at = "plan"
      BY <1>1, <2>1, SpawnPut
    <2>3. Spawn(warm, "complete", q, {}) = [warm EXCEPT !["complete"] = SpawnRec(q, {})]
      BY DEF Spawn, SpawnRec
    <2> QED BY <2>2, <2>3
  <1>9. tk \in [Tasks -> TaskRec]
        /\ (Completes => tk["complete"] = r)
        /\ (~Completes => tk = warm)
        /\ \A u \in Tasks : u # "complete" => tk[u] = warm[u]
    <2>1. /\ [warm EXCEPT !["complete"] = r] \in [Tasks -> TaskRec]
          /\ [warm EXCEPT !["complete"] = r]["complete"] = r
          /\ \A u \in Tasks : u # "complete" => [warm EXCEPT !["complete"] = r][u] = warm[u]
      BY <1>1, <1>7, Put
    <2>2. CASE Completes
      BY <1>8, <2>1, <2>2
    <2>3. CASE ~Completes
      BY <1>7, <2>3
    <2> QED BY <2>2, <2>3
  <1> HIDE DEF tk
  <1>10. ~(warmed \/ ~media) => task["warm"].at = "idle" /\ tk["warm"].at = "plan"
    BY <1>1, <1>3, <1>4, <1>7, <1>9 DEF Control, GatesExact
  <1>11. (warmed \/ ~media) => tk["warm"] = task["warm"]
    BY <1>1, <1>7, <1>9
  <1>12. Completes => task["complete"].at = "idle" /\ tk["complete"].at = "plan"
    BY <1>8, <1>9 DEF Completes, Control, GatesExact
  <1>13. ~Completes => tk["complete"] = task["complete"]
    BY <1>1, <1>7, <1>9
  <1>14. \A u \in Tasks : u \notin {"warm", "complete"} => tk[u] = task[u]
    BY <1>7, <1>9
  <1>15. \A u \in Tasks : tk[u].at # task[u].at =>
             tk[u].at \notin Writing /\ task[u].at = "idle"
    BY <1>10, <1>11, <1>12, <1>13, <1>14 DEF Writing
  <1>16. ~media => tk["warm"].at = "idle"
    <2>1. ~media => ~warmed
      BY DEF Control, GatesExact
    <2> QED BY <2>1, <1>11 DEF Control, GatesExact
  <1>17. Gated(tk, gs)
    BY <1>1, <1>12, <1>13, <1>14 DEF Gated, Control, GatesExact
  <1> QED BY <1>9, <1>14, <1>15, <1>16, <1>17 DEF tk, warm

\* Every step keeps the control part, and counts nobody unless it is a writer's.
LEMMA ControlStep ==
    ASSUME TypeOK, Control, [Next]_vars
    PROVE  Control' /\ Steady
  <1>1. ASSUME NEW t \in Fetchers, Plan(t) PROVE Control' /\ Steady
    <2>1. t \in Tasks /\ task[t] \in TaskRec /\ task[t].at # "idle"
      BY <1>1, Names DEF Plan, TypeOK, TaskRec
    <2>2. PICK w \in SUBSET Groups : w = Needed(t)
      BY <2>1, NeededGroups
    <2>3. PICK a \in Places : /\ a = IF w = {} THEN "after" ELSE "peers"
                              /\ a # "idle" /\ a \notin Writing
      BY DEF Places, Writing
    <2>4. PICK v \in SUBSET Groups : v = IF t = "complete" THEN w ELSE task[t].win
      BY <2>1 DEF TaskRec
    <2>5. PICK l \in 0 .. HeadTries : l = IF t = "complete" THEN 0 ELSE task[t].left
      <3>1. task[t].left \in 0 .. HeadTries
        BY <2>1 DEF TaskRec
      <3> QED BY <3>1, Sizes
    <2>6. PICK r1 \in TaskRec : r1 = [task[t] EXCEPT !.want = w] /\ r1.win = task[t].win
      BY <2>1, SetWant
    <2>7. PICK r2 \in TaskRec : r2 = [r1 EXCEPT !.win = v] /\ r2.win = v
      BY SetWin
    <2>8. PICK r3 \in TaskRec : r3 = [r2 EXCEPT !.left = l] /\ r3.win = r2.win
      BY SetLeft
    <2>9. PICK r \in TaskRec : r = [r3 EXCEPT !.at = a] /\ r.at = a /\ r.win = r3.win
      BY SetAt
    <2>10. task' = [task EXCEPT ![t] = r]
      <3>1. task' = [task EXCEPT ![t].want = w, ![t].win = v, ![t].left = l, ![t].at = a]
        BY <1>1, <2>1, <2>2, <2>3, <2>4, <2>5 DEF Plan, Control, TaskRec
      <3> QED BY <3>1, <2>1, <2>6, <2>7, <2>8, <2>9 DEF Control, TaskRec
    <2>11. t = "read" => r.win = task[t].win
      BY <2>4, <2>7, <2>8, <2>9
    <2>12. UNCHANGED <<gates, warmed, media>> /\ task[t].at \notin Writing
      BY <1>1 DEF Plan, hints, Writing
    <2> QED BY <2>1, <2>3, <2>9, <2>10, <2>11, <2>12, BusyStays DEF Steady
  <1>2. ASSUME NEW t \in Fetchers, PeersFor(t) PROVE Control' /\ Steady
    <2>1. PICK r \in TaskRec : /\ task' = [task EXCEPT ![t] = r] /\ r.at # "idle"
                               /\ r.win = task[t].win /\ r.at \notin Writing
      <3>1. t \in Tasks /\ {"claim", "after"} \subseteq Places
        BY Names DEF Places
      <3> QED BY <1>2, <3>1, ToPut, FailPut DEF PeersFor, Writing
    <2>2. UNCHANGED <<gates, warmed, media>>
      BY <1>2 DEF PeersFor, hints, Fault
    <2>3. task[t].at # "idle" /\ t \in Tasks
      BY <1>2, Names DEF PeersFor
    <2>4. task[t].at \notin Writing
      BY <1>2 DEF PeersFor, Writing
    <2> QED BY <2>1, <2>2, <2>3, <2>4, BusyStays DEF Steady
  <1>3. ASSUME NEW t \in Fetchers, ClaimObject(t) PROVE Control' /\ Steady
    <2>1. PICK r \in TaskRec : /\ task' = [task EXCEPT ![t] = r] /\ r.at # "idle"
                               /\ r.win = task[t].win /\ r.at \notin Writing
      <3>1. t \in Tasks /\ {"ensure"} \subseteq Places
        BY Names DEF Places
      <3> QED BY <1>3, <3>1, ToPut DEF ClaimObject, Writing
    <2>2. UNCHANGED <<gates, warmed, media>>
      BY <1>3 DEF ClaimObject, hints, Fault
    <2>3. task[t].at # "idle" /\ t \in Tasks
      BY <1>3, Names DEF ClaimObject
    <2>4. task[t].at \notin Writing
      BY <1>3 DEF ClaimObject, Writing
    <2> QED BY <2>1, <2>2, <2>3, <2>4, BusyStays DEF Steady
  <1>4. ASSUME NEW t \in Fetchers, EnsureSparse(t) PROVE Control' /\ Steady
    <2>1. PICK r \in TaskRec : /\ task' = [task EXCEPT ![t] = r] /\ r.at # "idle"
                               /\ r.win = task[t].win /\ r.at \notin Writing
      <3>1. t \in Tasks /\ {"insert"} \subseteq Places
        BY Names DEF Places
      <3> QED BY <1>4, <3>1, ToPut, BeginPut DEF EnsureSparse, Writing
    <2>2. UNCHANGED <<gates, warmed, media>>
      BY <1>4 DEF EnsureSparse, hints, Fault
    <2>3. task[t].at # "idle" /\ t \in Tasks
      BY <1>4, Names DEF EnsureSparse
    <2>4. task[t].at \notin Writing
      BY <1>4 DEF EnsureSparse, Writing
    <2> QED BY <2>1, <2>2, <2>3, <2>4, BusyStays DEF Steady
  <1>5. ASSUME NEW t \in Fetchers, InsertRecord(t) PROVE Control' /\ Steady
    <2>1. PICK r \in TaskRec : /\ task' = [task EXCEPT ![t] = r] /\ r.at # "idle"
                               /\ r.win = task[t].win /\ r.at \notin Writing
      <3>1. t \in Tasks /\ {"insert"} \subseteq Places
        BY Names DEF Places
      <3> QED BY <1>5, <3>1, BeginPut DEF InsertRecord, Writing
    <2>2. UNCHANGED <<gates, warmed, media>>
      BY <1>5 DEF InsertRecord, hints, Fault
    <2>3. task[t].at # "idle" /\ t \in Tasks
      BY <1>5, Names DEF InsertRecord
    <2>4. task[t].at \notin Writing
      BY <1>5 DEF InsertRecord, Writing
    <2> QED BY <2>1, <2>2, <2>3, <2>4, BusyStays DEF Steady
  <1>6. ASSUME NEW t \in Fetchers, WriteStart(t) PROVE Control' /\ Steady
    <2>1. PICK r \in TaskRec : /\ task' = [task EXCEPT ![t] = r] /\ r.at # "idle"
                               /\ r.win = task[t].win
      <3>1. t \in Tasks /\ {"write", "drop"} \subseteq Places
        BY Names DEF Places
      <3> QED BY <1>6, <3>1, ToPut, FailPut DEF WriteStart, Writing
    <2>2. UNCHANGED <<gates, warmed, media>>
      BY <1>6 DEF WriteStart, hints, Fault
    <2>3. task[t].at # "idle" /\ t \in Tasks
      BY <1>6, Names DEF WriteStart
    <2>4. Control'
      BY <2>1, <2>2, <2>3, BusyStays
    <2>5. WriterStep
      BY <1>6, <2>3 DEF WriterStep
    <2> QED BY <2>4, <2>5 DEF Steady
  <1>7. ASSUME NEW t \in Fetchers, WriteEnd(t) PROVE Control' /\ Steady
    <2>1. t \in Tasks /\ task[t] \in TaskRec /\ task[t].at # "idle"
      BY <1>7, Names DEF WriteEnd, TypeOK, TaskRec
    <2>2. PICK got \in SUBSET task[t].want :
              task' = [task EXCEPT ![t].want = @ \ got,
                                   ![t].at = IF rec.kind = "none" THEN "drop" ELSE "fetch",
                                   ![t].err = rec.kind = "none"]
      BY <1>7 DEF WriteEnd
    <2>3. PICK a \in Places : a # "idle" /\ a = IF rec.kind = "none" THEN "drop" ELSE "fetch"
      BY DEF Places
    <2>4. PICK w \in SUBSET Groups : w = task[t].want \ got
      BY <2>1 DEF TaskRec
    <2>5. PICK e \in BOOLEAN : e = (rec.kind = "none")
      OBVIOUS
    <2>6. PICK r1 \in TaskRec : r1 = [task[t] EXCEPT !.want = w] /\ r1.win = task[t].win
      BY <2>1, SetWant
    <2>7. PICK r2 \in TaskRec : r2 = [r1 EXCEPT !.at = a] /\ r2.at = a /\ r2.win = r1.win
      BY SetAt
    <2>8. PICK r \in TaskRec : r = [r2 EXCEPT !.err = e] /\ r.at = r2.at /\ r.win = r2.win
      BY SetErr
    <2>9. task' = [task EXCEPT ![t] = r]
      BY <2>1, <2>2, <2>3, <2>4, <2>5, <2>6, <2>7, <2>8 DEF TypeOK, TaskRec
    <2>10. UNCHANGED <<gates, warmed, media>>
      BY <1>7 DEF WriteEnd, hints
    <2>11. r.at # "idle" /\ r.win = task[t].win
      BY <2>3, <2>6, <2>7, <2>8
    <2>12. Control'
      BY <2>1, <2>9, <2>10, <2>11, BusyStays
    <2>13. WriterStep
      BY <1>7, <2>1 DEF WriterStep
    <2> QED BY <2>12, <2>13 DEF Steady
  <1>8. ASSUME NEW t \in Fetchers, Abandon(t) PROVE Control' /\ Steady
    <2>1. PICK r \in TaskRec : /\ task' = [task EXCEPT ![t] = r] /\ r.at # "idle"
                               /\ r.win = task[t].win
      <3>1. t \in Tasks /\ {"fetch"} \subseteq Places
        BY Names DEF Places
      <3> QED BY <1>8, <3>1, ToPut DEF Abandon, Writing
    <2>2. UNCHANGED <<gates, warmed, media>>
      BY <1>8 DEF Abandon, hints, Fault
    <2>3. task[t].at # "idle" /\ t \in Tasks
      BY <1>8, Names DEF Abandon
    <2>4. Control'
      BY <2>1, <2>2, <2>3, BusyStays
    <2>5. WriterStep
      BY <1>8, <2>3 DEF WriterStep
    <2> QED BY <2>4, <2>5 DEF Steady
  <1>9. ASSUME NEW t \in Fetchers, FetchReturns(t) PROVE Control' /\ Steady
    <2>1. PICK r \in TaskRec : /\ task' = [task EXCEPT ![t] = r] /\ r.at # "idle"
                               /\ r.win = task[t].win /\ r.at \notin Writing
      <3>1. t \in Tasks /\ {"landed", "drop"} \subseteq Places
        BY Names DEF Places
      <3> QED BY <1>9, <3>1, ToPut DEF FetchReturns, Writing, Over
    <2>2. UNCHANGED <<gates, warmed, media>>
      BY <1>9 DEF FetchReturns, hints, Fault
    <2>3. task[t].at # "idle" /\ t \in Tasks
      BY <1>9, Names DEF FetchReturns
    <2>4. task[t].at \notin Writing
      BY <1>9 DEF FetchReturns, Writing
    <2> QED BY <2>1, <2>2, <2>3, <2>4, BusyStays DEF Steady
  <1>10. ASSUME NEW t \in Fetchers, DropClaim(t) PROVE Control' /\ Steady
    <2>1. PICK r \in TaskRec : /\ task' = [task EXCEPT ![t] = r] /\ r.at # "idle"
                               /\ r.win = task[t].win /\ r.at \notin Writing
      <3>1. t \in Tasks /\ {"after"} \subseteq Places
        BY Names DEF Places
      <3> QED BY <1>10, <3>1, ToPut DEF DropClaim, Writing
    <2>2. UNCHANGED <<gates, warmed, media>>
      BY <1>10 DEF DropClaim, hints, Fault
    <2>3. task[t].at # "idle" /\ t \in Tasks
      BY <1>10, Names DEF DropClaim
    <2>4. task[t].at \notin Writing
      BY <1>10 DEF DropClaim, Writing
    <2> QED BY <2>1, <2>2, <2>3, <2>4, BusyStays DEF Steady
  <1>11. ASSUME NEW t \in Movers, Materialize(t) PROVE Control' /\ Steady
    <2>1. PICK r \in TaskRec : /\ task' = [task EXCEPT ![t] = r] /\ r.at # "idle"
                               /\ r.win = task[t].win /\ r.at \notin Writing
      <3>1. t \in Tasks /\ {"moved", "unlink", "guard", "unmoved"} \subseteq Places
        BY Names DEF Places
            <3> QED BY <1>11, <3>1, ToPut DEF Materialize, Writing,
            MaterializeFromExtern, Retire
    <2>2. UNCHANGED <<gates, warmed, media>>
      BY <1>11 DEF Materialize, hints, Fault
    <2>3. task[t].at # "idle" /\ t \in Tasks
      BY <1>11, Names DEF Materialize
    <2>4. task[t].at \notin Writing
      BY <1>11 DEF Materialize, Writing
    <2> QED BY <2>1, <2>2, <2>3, <2>4, BusyStays DEF Steady
  <1>12. ASSUME NEW t \in Movers, GuardMove(t) PROVE Control' /\ Steady
    <2>1. PICK r \in TaskRec : /\ task' = [task EXCEPT ![t] = r] /\ r.at # "idle"
                               /\ r.win = task[t].win
      <3>1. t \in Tasks /\ {"rename"} \subseteq Places
        BY Names DEF Places
      <3> QED BY <1>12, <3>1, ToPut DEF GuardMove, Writing
    <2>2. UNCHANGED <<gates, warmed, media>>
      BY <1>12 DEF GuardMove, hints, Fault
    <2>3. task[t].at # "idle" /\ t \in Tasks
      BY <1>12, Names DEF GuardMove
    <2>4. Control'
      BY <2>1, <2>2, <2>3, BusyStays
    <2>5. WriterStep
      BY <1>12, <2>3 DEF WriterStep
    <2> QED BY <2>4, <2>5 DEF Steady
  <1>13. ASSUME NEW t \in Movers, Rename(t) PROVE Control' /\ Steady
    <2>1. PICK r \in TaskRec : /\ task' = [task EXCEPT ![t] = r] /\ r.at # "idle"
                               /\ r.win = task[t].win
      <3>1. t \in Tasks /\ {"commit", "unmoved"} \subseteq Places
        BY Names DEF Places
      <3> QED BY <1>13, <3>1, ToPut DEF Rename, Writing
    <2>2. UNCHANGED <<gates, warmed, media>>
      BY <1>13 DEF Rename, hints, Fault
    <2>3. task[t].at # "idle" /\ t \in Tasks
      BY <1>13, Names DEF Rename
    <2>4. Control'
      BY <2>1, <2>2, <2>3, BusyStays
    <2>5. WriterStep
      BY <1>13, <2>3 DEF WriterStep
    <2> QED BY <2>4, <2>5 DEF Steady
  <1>14. ASSUME NEW t \in Movers, CommitExtern(t) PROVE Control' /\ Steady
    <2>1. PICK r \in TaskRec : /\ task' = [task EXCEPT ![t] = r] /\ r.at # "idle"
                               /\ r.win = task[t].win
      <3>1. t \in Tasks /\ {"moved"} \subseteq Places
        BY Names DEF Places
      <3> QED BY <1>14, <3>1, ToPut DEF CommitExtern, Writing
    <2>2. UNCHANGED <<gates, warmed, media>>
      BY <1>14 DEF CommitExtern, hints, Fault
    <2>3. task[t].at # "idle" /\ t \in Tasks
      BY <1>14, Names DEF CommitExtern
    <2>4. Control'
      BY <2>1, <2>2, <2>3, BusyStays
    <2>5. WriterStep
      BY <1>14, <2>3 DEF WriterStep
    <2> QED BY <2>4, <2>5 DEF Steady
  <1>15. ASSUME NEW t \in Movers, UnlinkOutboard(t) PROVE Control' /\ Steady
    <2>1. PICK r \in TaskRec : /\ task' = [task EXCEPT ![t] = r] /\ r.at # "idle"
                               /\ r.win = task[t].win /\ r.at \notin Writing
      <3>1. t \in Tasks /\ {"unmoved"} \subseteq Places
        BY Names DEF Places
      <3> QED BY <1>15, <3>1, ToPut DEF UnlinkOutboard, Writing
    <2>2. UNCHANGED <<gates, warmed, media>>
      BY <1>15 DEF UnlinkOutboard, hints, Fault
    <2>3. task[t].at # "idle" /\ t \in Tasks
      BY <1>15, Names DEF UnlinkOutboard
    <2>4. task[t].at \notin Writing
      BY <1>15 DEF UnlinkOutboard, Writing
    <2> QED BY <2>1, <2>2, <2>3, <2>4, BusyStays DEF Steady
  <1>16. CASE Widen
    <2>1. "complete" \in Tasks /\ task["complete"] \in TaskRec
          /\ task["complete"].at # "idle" /\ task["complete"].at \notin Writing
      BY <1>16, Names DEF Widen, TypeOK, TaskRec, Writing
    <2>2. PICK w \in SUBSET Groups : w = MissingGroups(Groups)
      BY DEF MissingGroups
    <2>3. "fetch" \in Places /\ "fetch" \notin Writing
      BY DEF Places, Writing
    <2>6. PICK r1 \in TaskRec : r1 = [task["complete"] EXCEPT !.at = "fetch"] /\ r1.at = "fetch"
      BY <2>1, <2>3, SetAt
    <2>7. PICK r2 \in TaskRec : r2 = [r1 EXCEPT !.win = w] /\ r2.at = r1.at
      BY SetWin
    <2>8. PICK r3 \in TaskRec : r3 = [r2 EXCEPT !.want = w] /\ r3.at = r2.at
      BY SetWant
    <2>9. PICK r \in TaskRec : r = [r3 EXCEPT !.left = 1] /\ r.at = r3.at
      BY Sizes, SetLeft
    <2>10. task' = [task EXCEPT !["complete"] = r]
      BY <1>16, <2>1, <2>2, <2>6, <2>7, <2>8, <2>9 DEF Widen, TypeOK, TaskRec
    <2>11. r.at = "fetch"
      BY <2>6, <2>7, <2>8, <2>9
    <2>12. UNCHANGED <<gates, warmed, media>>
      BY <1>16 DEF Widen, hints
    <2> QED BY <2>1, <2>3, <2>10, <2>11, <2>12, BusyStays DEF Steady
  <1>17. CASE Salvage
    BY <1>17, ControlKept DEF Salvage, Steady, disk, store, hints, Fault, Land, vars
  <1>18. CASE AfterRead
    <2>1. "read" \in Tasks /\ task["read"] \in TaskRec /\ task["read"].at = "after"
      BY <1>18, Names DEF AfterRead, Control
    <2>2. UNCHANGED <<gates, warmed, media>> /\ "after" \notin Writing
      BY <1>18 DEF AfterRead, hints, Writing
    <2>3. CASE To("read", "back")
      <3>1. "back" \in Places /\ "back" \notin Writing
        BY DEF Places, Writing
      <3>2. PICK r \in TaskRec : task' = [task EXCEPT !["read"] = r] /\ r.at = "back"
                                 /\ r.win = task["read"].win
        BY <2>1, <2>3, <3>1, ToPut
      <3> QED BY <2>1, <2>2, <3>1, <3>2, BusyStays DEF Steady
    <2>4. CASE /\ PresentPrefix(task["read"].win) = {} /\ task["read"].left > 0
               /\ task' = [task EXCEPT !["read"].at = "peers",
                       !["read"].want = {First(MissingGroups(task["read"].win))},
                       !["read"].left = @ - 1]
      <3>1. task["read"].win \in Windows
        BY <2>1 DEF Control, ReadsWindow
      <3>2. PICK w \in SUBSET Groups : w = {First(MissingGroups(task["read"].win))}
        BY <3>1, <2>4, HeadMissing
      <3>3. PICK l \in 0 .. HeadTries : l = task["read"].left - 1
        <4>1. task["read"].left \in 0 .. HeadTries
          BY <2>1 DEF TaskRec
        <4> QED BY <4>1, <2>4, StreamAssumption
      <3>4. "peers" \in Places /\ "peers" \notin Writing
        BY DEF Places, Writing
      <3>5. PICK r1 \in TaskRec : r1 = [task["read"] EXCEPT !.at = "peers"]
                                  /\ r1.at = "peers" /\ r1.win = task["read"].win
        BY <2>1, <3>4, SetAt
      <3>6. PICK r2 \in TaskRec : r2 = [r1 EXCEPT !.want = w]
                                  /\ r2.at = r1.at /\ r2.win = r1.win
        BY SetWant
      <3>7. PICK r \in TaskRec : r = [r2 EXCEPT !.left = l]
                                 /\ r.at = r2.at /\ r.win = r2.win
        BY SetLeft
      <3>8. task' = [task EXCEPT !["read"] = r]
        BY <2>1, <2>4, <3>2, <3>3, <3>5, <3>6, <3>7 DEF TypeOK, TaskRec
      <3>9. r.at = "peers" /\ r.win = task["read"].win
        BY <3>5, <3>6, <3>7
      <3> QED BY <2>1, <2>2, <3>4, <3>8, <3>9, BusyStays DEF Steady
    <2>5. CASE task' = [task EXCEPT !["read"] = Idle]
      BY <2>1, <2>2, <2>5, Ungated, Names DEF Steady, Writing
    <2> QED BY <1>18, <2>3, <2>4, <2>5 DEF AfterRead
  <1>19. CASE ReadBack
    <2>1. "read" \in Tasks /\ task["read"] \in TaskRec /\ task["read"].at = "back"
          /\ task \in [Tasks -> TaskRec] /\ Idle \in TaskRec /\ Idle.at = "idle"
          /\ "check" \in Tasks /\ "warm" \in Tasks
      BY <1>19, Names DEF ReadBack, Control
    <2>2. task["read"].win \in Windows /\ task["read"].path \in Paths \cup {""}
      BY <2>1 DEF Control, ReadsWindow, TaskRec
    <2>3. PICK tk \in [Tasks -> TaskRec] : /\ tk = [task EXCEPT !["read"] = Idle]
                                           /\ tk["read"] = Idle
                                           /\ \A u \in Tasks : u # "read" => tk[u] = task[u]
      <3>1. /\ [task EXCEPT !["read"] = Idle] \in [Tasks -> TaskRec]
            /\ [task EXCEPT !["read"] = Idle]["read"] = Idle
            /\ \A u \in Tasks : u # "read" => [task EXCEPT !["read"] = Idle][u] = task[u]
        BY <2>1, Put
      <3> QED BY <3>1
    <2>4. UNCHANGED <<warmed, media>>
      BY <1>19 DEF ReadBack
    <2>5. Gated(tk, gates)
      BY <2>3, Names DEF Gated, Control, GatesExact
    <2>6. \A u \in Tasks : tk[u].at # task[u].at =>
              tk[u].at \notin Writing /\ task[u].at \notin Writing
      BY <2>1, <2>3 DEF Writing
    <2>7. CASE AfterServe(tk, gates, task["read"].path, task["read"].win)
      <3>1. /\ task' \in [Tasks -> TaskRec]
            /\ Gated(task', gates')
            /\ \A u \in Tasks : u \notin {"move", "ahead"} => task'[u] = tk[u]
            /\ \A u \in Tasks : task'[u].at # tk[u].at =>
                  task'[u].at \notin Writing /\ tk[u].at = "idle"
        BY <2>2, <2>5, <2>7, Serving
      <3>2. Calm
        BY <2>6, <3>1 DEF Calm, Writing
      <3>3. task'["read"].at = "idle" /\ task'["warm"] = task["warm"]
        BY <2>1, <2>3, <3>1
      <3>4. (warmed' => media') /\ (~warmed' => task'["warm"].at = "idle")
        BY <2>4, <3>3 DEF Control, GatesExact
      <3> QED BY <3>1, <3>2, <3>3, <3>4, ControlFrom DEF Steady
    <2>8. CASE task' = Recheck(tk) /\ UNCHANGED gates
      <3>1. PICK r \in TaskRec : r = [tk["check"] EXCEPT !.at = "check"] /\ r.at = "check"
        <4>1. tk["check"] \in TaskRec /\ "check" \in Places
          BY <2>1 DEF Places
        <4> QED BY <4>1, SetAt
      <3>2. task' = IF tk["check"].at = "idle" THEN [tk EXCEPT !["check"] = r] ELSE tk
        BY <2>1, <2>8, <3>1 DEF Recheck
      <3>3. /\ task' \in [Tasks -> TaskRec]
            /\ \A u \in Tasks : u # "check" => task'[u] = tk[u]
            /\ task'["check"].at # tk["check"].at =>
                  tk["check"].at = "idle" /\ task'["check"].at = "check"
        BY <2>1, <3>1, <3>2, Put
      <3>4. Calm
        BY <2>6, <3>3 DEF Calm, Writing
      <3>5. task'["read"].at = "idle" /\ task'["warm"] = task["warm"]
        BY <2>1, <2>3, <3>3
      <3>6. (warmed' => media') /\ (~warmed' => task'["warm"].at = "idle")
        BY <2>4, <3>5 DEF Control, GatesExact
      <3>7. Gated(task', gates')
        BY <2>5, <2>8, <3>3, Names DEF Gated
      <3> QED BY <3>3, <3>4, <3>5, <3>6, <3>7, ControlFrom DEF Steady
    <2> QED BY <1>19, <2>3, <2>7, <2>8 DEF ReadBack
  <1>20. CASE AfterAhead
    <2>1. "ahead" \in Tasks /\ task["ahead"] \in TaskRec /\ task["ahead"].at = "after"
          /\ task \in [Tasks -> TaskRec] /\ Idle \in TaskRec /\ Idle.at = "idle"
          /\ "read" \in Tasks /\ "warm" \in Tasks
      BY <1>20, Names DEF AfterAhead, Control
    <2>2. task["ahead"].path \in Paths \cup {""} /\ queued \in SUBSET Groups
      BY <2>1 DEF TaskRec, TypeOK
    <2>3. PICK r \in TaskRec : r = SpawnRec(task["ahead"].path, queued) /\ r.at = "plan"
      BY <2>2, SpawnPut
    <2>4. UNCHANGED <<warmed, media>>
      BY <1>20 DEF AfterAhead
    <2>5. CASE task' = [task EXCEPT !["ahead"] = r] /\ UNCHANGED gates
      BY <2>1, <2>3, <2>4, <2>5, BusyStays DEF Steady, Writing
    <2>6. CASE task' = [task EXCEPT !["ahead"] = Idle] /\ gates' = gates \ {"ahead"}
      <3>1. /\ task' \in [Tasks -> TaskRec] /\ task'["ahead"] = Idle
            /\ \A u \in Tasks : u # "ahead" => task'[u] = task[u]
        BY <2>1, <2>6, Put
      <3>2. Gated(task', gates')
        BY <2>1, <2>6, <3>1, Names DEF Gated, Control, GatesExact
      <3>3. Calm
        BY <2>1, <3>1 DEF Calm, Writing
      <3>4. task'["read"] = task["read"] /\ task'["warm"] = task["warm"]
        BY <2>1, <3>1
      <3> QED BY <2>4, <3>1, <3>2, <3>3, <3>4, ControlFrom
              DEF Steady, Control, ReadsWindow, GatesExact
    <2> QED BY <1>20, <2>3, <2>5, <2>6 DEF AfterAhead, Spawn, SpawnRec
  <1>21. CASE AfterWarm
    <2>1. "warm" \in Tasks /\ task["warm"] \in TaskRec /\ task["warm"].at = "after"
          /\ task \in [Tasks -> TaskRec] /\ Idle \in TaskRec /\ Idle.at = "idle"
          /\ "read" \in Tasks
      BY <1>21, Names DEF AfterWarm, Control
    <2>2. task["warm"].path \in Paths \cup {""} /\ {1} \in SUBSET Groups
      BY <2>1, Sizes DEF TaskRec
    <2>3. PICK r \in TaskRec : r = SpawnRec(task["warm"].path, {1}) /\ r.at = "plan"
      BY <2>2, SpawnPut
    <2>4. UNCHANGED <<gates, warmed, media>>
      BY <1>21 DEF AfterWarm, hints
    <2>5. CASE task' = [task EXCEPT !["warm"] = r]
      BY <2>1, <2>3, <2>4, <2>5, BusyStays DEF Steady, Writing
    <2>6. CASE task' = [task EXCEPT !["warm"] = Idle]
      <3>1. /\ task' \in [Tasks -> TaskRec] /\ task'["warm"] = Idle
            /\ \A u \in Tasks : u # "warm" => task'[u] = task[u]
        BY <2>1, <2>6, Put
      <3>2. Gated(task', gates')
        BY <2>4, <3>1, Names DEF Gated, Control, GatesExact
      <3>3. Calm
        BY <2>1, <3>1 DEF Calm, Writing
      <3>4. task'["read"] = task["read"]
        BY <2>1, <3>1
      <3> QED BY <2>1, <2>4, <3>1, <3>2, <3>3, <3>4, ControlFrom
              DEF Steady, Control, ReadsWindow, GatesExact
    <2> QED BY <1>21, <2>3, <2>5, <2>6 DEF AfterWarm, Spawn, SpawnRec
  <1>22. CASE AfterComplete
    <2>1. "complete" \in Tasks /\ task["complete"] \in TaskRec
          /\ task["complete"].at = "after"
          /\ task \in [Tasks -> TaskRec] /\ Idle \in TaskRec /\ Idle.at = "idle"
          /\ "read" \in Tasks /\ "warm" \in Tasks /\ "move" \in Tasks
      BY <1>22, Names DEF AfterComplete, Control
    <2>2. task["complete"].path \in Paths \cup {""} /\ {} \in SUBSET Groups
      BY <2>1 DEF TaskRec
    <2>3. PICK r \in TaskRec : r = SpawnRec(task["complete"].path, {}) /\ r.at = "plan"
      BY <2>2, SpawnPut
    <2>4. PICK m \in TaskRec : /\ m = [Idle EXCEPT !.at = "mat", !.path = task["complete"].path]
                               /\ m.at = "mat"
      BY <2>2, MovePut
    <2>5. UNCHANGED <<warmed, media>>
      BY <1>22 DEF AfterComplete
    <2>6. PICK idle \in [Tasks -> TaskRec] :
              /\ idle = [task EXCEPT !["complete"] = Idle]
              /\ idle["complete"] = Idle
              /\ \A u \in Tasks : u # "complete" => idle[u] = task[u]
      <3>1. /\ [task EXCEPT !["complete"] = Idle] \in [Tasks -> TaskRec]
            /\ [task EXCEPT !["complete"] = Idle]["complete"] = Idle
            /\ \A u \in Tasks : u # "complete" => [task EXCEPT !["complete"] = Idle][u] = task[u]
        BY <2>1, Put
      <3> QED BY <3>1
    <2>7. CASE task' = [task EXCEPT !["complete"] = r] /\ UNCHANGED gates
      BY <2>1, <2>3, <2>5, <2>7, BusyStays DEF Steady, Writing
    <2>8. CASE task' = idle /\ gates' = gates \ {"complete"}
      <3>1. Gated(task', gates')
        BY <2>1, <2>6, <2>8, Names DEF Gated, Control, GatesExact
      <3>2. Calm
        BY <2>1, <2>6, <2>8 DEF Calm, Writing
      <3>3. task'["read"] = task["read"] /\ task'["warm"] = task["warm"]
        BY <2>1, <2>6, <2>8
      <3> QED BY <2>5, <2>8, <3>1, <3>2, <3>3, ControlFrom
              DEF Steady, Control, ReadsWindow, GatesExact
    <2>9. CASE /\ Moves /\ task' = [idle EXCEPT !["move"] = m]
               /\ gates' = (gates \ {"complete"}) \cup {"move"}
      <3>1. /\ task' \in [Tasks -> TaskRec] /\ task'["move"] = m
            /\ \A u \in Tasks : u # "move" => task'[u] = idle[u]
        BY <2>1, <2>9, Put
      <3>2. task["move"].at = "idle"
        BY <2>9 DEF Moves, Control, GatesExact
      <3>3. Gated(task', gates')
        BY <2>1, <2>4, <2>6, <2>9, <3>1, Names DEF Gated, Control, GatesExact
      <3>4. Calm
        BY <2>1, <2>4, <2>6, <3>1, <3>2 DEF Calm, Writing
      <3>5. task'["read"] = task["read"] /\ task'["warm"] = task["warm"]
        BY <2>1, <2>6, <3>1
      <3> QED BY <2>5, <3>1, <3>3, <3>4, <3>5, ControlFrom
              DEF Steady, Control, ReadsWindow, GatesExact
    <2>10. \/ task' = Spawn(task, "complete", task["complete"].path, {}) /\ UNCHANGED gates
           \/ task' = idle /\ gates' = gates \ {"complete"}
           \/ /\ Moves
              /\ task' = [idle EXCEPT !["move"] =
                             [Idle EXCEPT !.at = "mat", !.path = task["complete"].path]]
              /\ gates' = (gates \ {"complete"}) \cup {"move"}
      BY <1>22, <2>6 DEF AfterComplete
    <2>11. Spawn(task, "complete", task["complete"].path, {}) = [task EXCEPT !["complete"] = r]
      BY <2>3 DEF Spawn, SpawnRec
    <2> QED BY <2>4, <2>7, <2>8, <2>9, <2>10, <2>11
  <1>23. CASE FileLanded
    <2>1. PICK r \in TaskRec : /\ task' = [task EXCEPT !["file"] = r] /\ r.at # "idle"
                               /\ r.win = task["file"].win /\ r.at \notin Writing
      <3>1. "file" \in Tasks /\ {"mat", "drop"} \subseteq Places
        BY Names DEF Places
      <3> QED BY <1>23, <3>1, ToPut DEF FileLanded, Writing
    <2>2. UNCHANGED <<gates, warmed, media>>
      BY <1>23 DEF FileLanded, hints, Fault
    <2>3. task["file"].at # "idle" /\ "file" \in Tasks
      BY <1>23, Names DEF FileLanded
    <2>4. task["file"].at \notin Writing
      BY <1>23 DEF FileLanded, Writing
    <2> QED BY <2>1, <2>2, <2>3, <2>4, BusyStays DEF Steady
  <1>24. CASE FileMoved
    <2>1. PICK r \in TaskRec : /\ task' = [task EXCEPT !["file"] = r] /\ r.at # "idle"
                               /\ r.win = task["file"].win /\ r.at \notin Writing
      <3>1. "file" \in Tasks /\ {"after", "drop"} \subseteq Places
        BY Names DEF Places
      <3> QED BY <1>24, <3>1, ToPut DEF FileMoved, Writing
    <2>2. UNCHANGED <<gates, warmed, media>>
      BY <1>24 DEF FileMoved, hints, Fault
    <2>3. task["file"].at # "idle" /\ "file" \in Tasks
      BY <1>24, Names DEF FileMoved
    <2>4. task["file"].at \notin Writing
      BY <1>24 DEF FileMoved, Writing
    <2> QED BY <2>1, <2>2, <2>3, <2>4, BusyStays DEF Steady
  <1>25. CASE AfterFile
    <2>1. task' = [task EXCEPT !["file"] = Idle] /\ UNCHANGED <<gates, warmed, media>>
      BY <1>25 DEF AfterFile, hints, End
    <2>2. task["file"].at \notin Writing /\ Idle.at \notin Writing
      BY <1>25, Names DEF AfterFile, Writing
    <2> QED BY <2>1, <2>2, Ungated, Names DEF Steady
  <1>26. CASE AfterBatch
    <2>1. "batch" \in Tasks /\ task["batch"] \in TaskRec /\ task["batch"].at = "after"
          /\ Idle \in TaskRec /\ Idle.at = "idle"
      BY <1>26, Names DEF AfterBatch, Control
    <2>2. PICK r \in TaskRec : r = [task["batch"] EXCEPT !.at = "mat"] /\ r.at = "mat"
      <3>1. "mat" \in Places
        BY DEF Places
      <3> QED BY <2>1, <3>1, SetAt
    <2>3. UNCHANGED <<gates, warmed, media>>
      BY <1>26 DEF AfterBatch, hints
    <2>4. \/ task' = [task EXCEPT !["batch"] = r]
          \/ task' = [task EXCEPT !["batch"] = Idle]
      BY <1>26, <2>1, <2>2 DEF AfterBatch
    <2> QED BY <2>1, <2>2, <2>3, <2>4, Ungated DEF Steady, Writing
  <1>27. CASE BatchMoved
    <2>1. "batch" \in Tasks /\ task["batch"] \in TaskRec
          /\ task["batch"].at \in {"moved", "unmoved"}
          /\ task \in [Tasks -> TaskRec] /\ Idle \in TaskRec /\ Idle.at = "idle"
          /\ "check" \in Tasks /\ "warm" \in Tasks /\ "read" \in Tasks
      BY <1>27, Names DEF BatchMoved, Control
    <2>2. PICK b \in TaskRec : /\ b = [Idle EXCEPT !.at = "peers", !.path = task["batch"].path]
                               /\ b.at = "peers"
      <3>1. "peers" \in Places /\ task["batch"].path \in Paths \cup {""}
        BY <2>1 DEF Places, TaskRec
      <3>2. PICK r1 \in TaskRec : r1 = [Idle EXCEPT !.at = "peers"] /\ r1.at = "peers"
        BY <2>1, <3>1, SetAt
      <3>3. PICK r2 \in TaskRec : r2 = [r1 EXCEPT !.path = task["batch"].path]
                                  /\ r2.at = r1.at
        BY <3>1, SetPath
      <3> QED BY <3>2, <3>3
    <2>3. PICK c \in TaskRec : /\ c = IF task["batch"].left = 1 THEN b ELSE Idle
                               /\ c.at \notin Writing
      BY <2>1, <2>2 DEF Writing
    <2>4. UNCHANGED <<gates, warmed, media>>
      BY <1>27 DEF BatchMoved, hints
    <2>5. CASE task' = [task EXCEPT !["batch"] = Idle]
      BY <2>1, <2>4, <2>5, Ungated DEF Steady, Writing
    <2>6. CASE task' = Recheck([task EXCEPT !["batch"] = c])
      <3>1. PICK tk \in [Tasks -> TaskRec] :
                /\ tk = [task EXCEPT !["batch"] = c] /\ tk["batch"] = c
                /\ \A u \in Tasks : u # "batch" => tk[u] = task[u]
        <4>1. /\ [task EXCEPT !["batch"] = c] \in [Tasks -> TaskRec]
              /\ [task EXCEPT !["batch"] = c]["batch"] = c
              /\ \A u \in Tasks : u # "batch" => [task EXCEPT !["batch"] = c][u] = task[u]
          BY <2>1, Put
        <4> QED BY <4>1
      <3>2. PICK r \in TaskRec : r = [tk["check"] EXCEPT !.at = "check"] /\ r.at = "check"
        <4>1. tk["check"] \in TaskRec /\ "check" \in Places
          BY <2>1 DEF Places
        <4> QED BY <4>1, SetAt
      <3>3. task' = IF tk["check"].at = "idle" THEN [tk EXCEPT !["check"] = r] ELSE tk
        BY <2>1, <2>6, <3>1, <3>2 DEF Recheck
      <3>4. /\ task' \in [Tasks -> TaskRec]
            /\ \A u \in Tasks : u # "check" => task'[u] = tk[u]
            /\ task'["check"].at # tk["check"].at =>
                  tk["check"].at = "idle" /\ task'["check"].at = "check"
        BY <2>1, <3>2, <3>3, Put
      <3>5. Calm
        BY <2>1, <2>3, <3>1, <3>4 DEF Calm, Writing
      <3>6. task'["read"] = task["read"] /\ task'["warm"] = task["warm"]
        BY <2>1, <3>1, <3>4
      <3>7. Gated(task', gates')
        BY <2>4, <3>1, <3>4, Names DEF Gated, Control, GatesExact
      <3> QED BY <2>4, <3>4, <3>5, <3>6, <3>7, ControlFrom
              DEF Steady, Control, ReadsWindow, GatesExact
    <2> QED BY <1>27, <2>2, <2>3, <2>5, <2>6 DEF BatchMoved
  <1>28. CASE MoveEnds
    <2>1. "move" \in Tasks /\ task["move"].at \in {"moved", "unmoved"}
          /\ task \in [Tasks -> TaskRec] /\ Idle \in TaskRec /\ Idle.at = "idle"
          /\ "read" \in Tasks /\ "warm" \in Tasks
      BY <1>28, Names DEF MoveEnds, Control
    <2>2. task' = [task EXCEPT !["move"] = Idle] /\ gates' = gates \ {"move"}
          /\ UNCHANGED <<warmed, media>>
      BY <1>28 DEF MoveEnds
    <2>3. /\ task' \in [Tasks -> TaskRec] /\ task'["move"] = Idle
          /\ \A u \in Tasks : u # "move" => task'[u] = task[u]
      BY <2>1, <2>2, Put
    <2>4. Gated(task', gates')
      BY <2>1, <2>2, <2>3, Names DEF Gated, Control, GatesExact
    <2>5. Calm
      BY <2>1, <2>3 DEF Calm, Writing
    <2>6. task'["read"] = task["read"] /\ task'["warm"] = task["warm"]
      BY <2>1, <2>3
    <2> QED BY <2>2, <2>3, <2>4, <2>5, <2>6, ControlFrom
            DEF Steady, Control, ReadsWindow, GatesExact
  <1>29. CASE Revalidate
    <2>1. "check" \in Tasks /\ task["check"] \in TaskRec /\ task["check"].at = "check"
          /\ Idle \in TaskRec /\ Idle.at = "idle"
      BY <1>29, Names DEF Revalidate, Control
    <2>2. UNCHANGED <<gates, warmed, media>>
      BY <1>29 DEF Revalidate, hints
    <2>3. {"unlink", "shrink"} \subseteq Places
      BY DEF Places
    <2>4. CASE End("check")
      BY <2>1, <2>2, <2>4, Ungated DEF Steady, Writing, End
    <2>5. CASE To("check", "unlink")
      <3>1. PICK r \in TaskRec : task' = [task EXCEPT !["check"] = r] /\ r.at = "unlink"
        BY <2>1, <2>3, <2>5, ToPut
      <3> QED BY <2>1, <2>2, <3>1, Ungated DEF Steady, Writing
    <2>6. CASE task' = [task EXCEPT !["check"].at = "shrink", !["check"].want = Has \ sparse]
      <3>1. PICK w \in SUBSET Groups : w = Has \ sparse
        BY <2>1, NeededGroups
      <3>2. PICK r1 \in TaskRec : r1 = [task["check"] EXCEPT !.at = "shrink"]
                                  /\ r1.at = "shrink"
        BY <2>1, <2>3, SetAt
      <3>3. PICK r \in TaskRec : r = [r1 EXCEPT !.want = w] /\ r.at = r1.at
        BY SetWant
      <3>4. task' = [task EXCEPT !["check"] = r]
        BY <2>1, <2>6, <3>1, <3>2, <3>3 DEF TypeOK, TaskRec
      <3> QED BY <2>1, <2>2, <3>2, <3>3, <3>4, Ungated DEF Steady, Writing
    <2> QED BY <1>29, <2>4, <2>5, <2>6 DEF Revalidate, Retire
  <1>30. CASE Shrink
    <2>1. task' = [task EXCEPT !["check"] = Idle] /\ UNCHANGED <<gates, warmed, media>>
      BY <1>30 DEF Shrink, hints, End
    <2>2. task["check"].at \notin Writing /\ Idle.at \notin Writing
      BY <1>30, Names DEF Shrink, Writing
    <2> QED BY <2>1, <2>2, Ungated, Names DEF Steady
  <1>31. CASE CheckEnds
    <2>1. task' = [task EXCEPT !["check"] = Idle] /\ UNCHANGED <<gates, warmed, media>>
      BY <1>31 DEF CheckEnds, hints, End
    <2>2. task["check"].at \notin Writing /\ Idle.at \notin Writing
      BY <1>31, Names DEF CheckEnds, Writing
    <2> QED BY <2>1, <2>2, Ungated, Names DEF Steady
  <1>32. CASE EvictUnlink
    BY <1>32, ControlKept DEF EvictUnlink, Steady, disk, store, hints, Fault, Land, vars
  <1>33. CASE Evict
    BY <1>33, ControlKept DEF Evict, Steady, disk, store, hints, Fault, Land, vars
  <1>34. CASE Crash
    <2>1. task' = [t \in Tasks |-> Idle] /\ gates' = {} /\ warmed' = FALSE
      BY <1>34 DEF Crash
    <2>2. task' \in [Tasks -> TaskRec] /\ \A u \in Tasks : task'[u].at = "idle"
      BY <2>1, Names
    <2>3. ReadsWindow' /\ GatesExact'
      BY <2>1, <2>2, Names DEF ReadsWindow, GatesExact
    <2> QED BY <1>34, <2>2, <2>3 DEF Control, Steady
  <1>35. ASSUME NEW p \in Asks["read"], NEW w \in Windows, Read(p, w)
         PROVE  Control' /\ Steady
    <2> DEFINE warm == WarmMoov(task, p)
               tk0 == IF Completes THEN Spawn(warm, "complete", p, {}) ELSE warm
               gs0 == IF Completes THEN gates \cup {"complete"} ELSE gates
    <2>1. p \in Paths \cup {""} /\ w \subseteq Groups
      BY StreamAssumption, WindowBounds DEF Requests
    <2>2. "read" \in Tasks /\ "warm" \in Tasks
      BY Names
    <2>3. task["read"].at = "idle" /\ warmed' = media /\ media' = media
      BY <1>35 DEF Read
    <2>4. /\ tk0 \in [Tasks -> TaskRec]
          /\ Gated(tk0, gs0)
          /\ \A u \in Tasks : u \notin {"warm", "complete"} => tk0[u] = task[u]
          /\ \A u \in Tasks : tk0[u].at # task[u].at =>
                 tk0[u].at \notin Writing /\ task[u].at = "idle"
          /\ ~media => tk0["warm"].at = "idle"
          /\ "move" \in gates <=> "move" \in gs0
      BY <2>1, ReadSpawns
    <2>5. \/ AfterServe(tk0, gs0, p, w)
          \/ /\ task' = [tk0 EXCEPT !["read"] =
                 [Idle EXCEPT !.at = IF MissingGroups(w) = {} THEN "after" ELSE "peers",
                              !.want = MissingGroups(w), !.win = w, !.path = p,
                              !.left = HeadTries]]
             /\ gates' = gs0
      BY <1>35 DEF Read
    <2>6. PICK tk, gs : tk = tk0 /\ gs = gs0
      OBVIOUS
    <2> HIDE DEF tk0, gs0
    <2>7. CASE AfterServe(tk, gs, p, w)
      <3>1. /\ task' \in [Tasks -> TaskRec]
            /\ Gated(task', gates')
            /\ \A u \in Tasks : u \notin {"move", "ahead"} => task'[u] = tk[u]
            /\ \A u \in Tasks : task'[u].at # tk[u].at =>
                  task'[u].at \notin Writing /\ tk[u].at = "idle"
        BY <2>1, <2>4, <2>6, <2>7, Serving
      <3>2. Calm
        BY <2>4, <2>6, <3>1 DEF Calm, Writing
      <3>3. task'["read"].at = "idle" /\ task'["warm"] = tk["warm"]
        BY <2>2, <2>3, <2>4, <2>6, <3>1
      <3>4. (warmed' => media') /\ (~warmed' => task'["warm"].at = "idle")
        BY <2>3, <2>4, <2>6, <3>3
      <3> QED BY <3>1, <3>2, <3>3, <3>4, ControlFrom DEF Steady
    <2>8. CASE /\ task' = [tk EXCEPT !["read"] =
                 [Idle EXCEPT !.at = IF MissingGroups(w) = {} THEN "after" ELSE "peers",
                              !.want = MissingGroups(w), !.win = w, !.path = p,
                              !.left = HeadTries]]
               /\ gates' = gs
      <3>1. PICK a \in Places : a = IF MissingGroups(w) = {} THEN "after" ELSE "peers"
        BY DEF Places
      <3>2. a \notin Writing
        BY <3>1 DEF Writing
      <3>3. PICK m \in SUBSET Groups : m = MissingGroups(w)
        BY <2>1 DEF MissingGroups
      <3>4. HeadTries \in 0 .. HeadTries /\ Idle \in TaskRec
        BY StreamAssumption, Names
      <3>5. PICK r1 \in TaskRec : r1 = [Idle EXCEPT !.at = a] /\ r1.at = a
        BY <3>4, SetAt
      <3>6. PICK r2 \in TaskRec : r2 = [r1 EXCEPT !.want = m] /\ r2.at = r1.at
        BY SetWant
      <3>7. PICK r3 \in TaskRec : r3 = [r2 EXCEPT !.win = w] /\ r3.at = r2.at /\ r3.win = w
        BY <2>1, SetWin
      <3>8. PICK r4 \in TaskRec : r4 = [r3 EXCEPT !.path = p]
                                  /\ r4.at = r3.at /\ r4.win = r3.win
        BY <2>1, SetPath
      <3>9. PICK r \in TaskRec : r = [r4 EXCEPT !.left = HeadTries]
                                 /\ r.at = r4.at /\ r.win = r4.win
        BY <3>4, SetLeft
      <3>10. r.at = a /\ r.win = w
        BY <3>5, <3>6, <3>7, <3>8, <3>9
      <3>11. task' = [tk EXCEPT !["read"] = r]
        BY <2>8, <3>1, <3>3, <3>5, <3>6, <3>7, <3>8, <3>9
      <3>12. /\ task' \in [Tasks -> TaskRec] /\ task'["read"] = r
             /\ \A u \in Tasks : u # "read" => task'[u] = tk[u]
        BY <2>2, <2>4, <2>6, <3>11, Put
      <3>13. Calm
        BY <2>3, <2>4, <2>6, <3>2, <3>10, <3>12 DEF Calm, Writing
      <3>14. task'["warm"] = tk["warm"] /\ task'["read"].win \in Windows
        BY <2>2, <3>10, <3>12
      <3>15. (warmed' => media') /\ (~warmed' => task'["warm"].at = "idle")
        BY <2>3, <2>4, <2>6, <3>14
      <3>16. Gated(task', gates')
        BY <2>4, <2>6, <2>8, <3>12, Names DEF Gated
      <3> QED BY <3>12, <3>13, <3>14, <3>15, <3>16, ControlFrom DEF Steady
    <2> QED BY <2>5, <2>6, <2>7, <2>8
  <1>36. ASSUME NEW p \in Asks["batch"], StartBatch(p) PROVE Control' /\ Steady
    <2>1. p \in Paths \cup {""} /\ "batch" \in Tasks /\ Idle \in TaskRec
      BY StreamAssumption, Names DEF Requests
    <2>2. PICK a \in Places : a = IF Complete THEN "mat" ELSE "peers"
      BY DEF Places
    <2>3. PICK l \in 0 .. HeadTries : l = IF Complete THEN 1 ELSE 0
      BY Sizes
    <2>4. PICK r1 \in TaskRec : r1 = [Idle EXCEPT !.at = a] /\ r1.at = a
      BY <2>1, SetAt
    <2>5. PICK r2 \in TaskRec : r2 = [r1 EXCEPT !.path = p] /\ r2.at = r1.at
      BY <2>1, SetPath
    <2>6. PICK r \in TaskRec : r = [r2 EXCEPT !.left = l] /\ r.at = r2.at
      BY SetLeft
    <2>7. task' = [task EXCEPT !["batch"] = r] /\ UNCHANGED <<gates, warmed, media>>
      BY <1>36, <2>2, <2>3, <2>4, <2>5, <2>6 DEF StartBatch, hints
    <2>8. task["batch"].at \notin Writing /\ r.at \notin Writing
      BY <1>36, <2>2, <2>4, <2>5, <2>6 DEF StartBatch, Writing
    <2> QED BY <2>7, <2>8, Ungated DEF Steady
  <1>37. ASSUME NEW p \in Asks["file"], StartFile(p) PROVE Control' /\ Steady
    <2>1. p \in Paths \cup {""} /\ "file" \in Tasks /\ Idle \in TaskRec
      BY StreamAssumption, Names DEF Requests
    <2>2. PICK a \in Places : a = IF Complete THEN "landed" ELSE "peers"
      BY DEF Places
    <2>3. PICK r1 \in TaskRec : r1 = [Idle EXCEPT !.at = a] /\ r1.at = a
      BY <2>1, SetAt
    <2>4. PICK r \in TaskRec : r = [r1 EXCEPT !.path = p] /\ r.at = r1.at
      BY <2>1, SetPath
    <2>5. task' = [task EXCEPT !["file"] = r] /\ UNCHANGED <<gates, warmed, media>>
      BY <1>37, <2>2, <2>3, <2>4 DEF StartFile, hints
    <2>6. task["file"].at \notin Writing /\ r.at \notin Writing
      BY <1>37, <2>2, <2>3, <2>4 DEF StartFile, Writing
    <2> QED BY <2>5, <2>6, Ungated DEF Steady
  <1>38. ASSUME NEW p \in Paths, UserDeletes(p) PROVE Control' /\ Steady
    BY <1>38, ControlKept DEF UserDeletes, Steady, disk, store, hints, Fault, Land, vars
  <1>39. CASE UNCHANGED vars
    BY <1>39, ControlKept DEF vars, disk, store, hints, Steady, disk, store, hints, Fault, Land, vars
  <1> QED BY <1>1, <1>2, <1>3, <1>4, <1>5, <1>6, <1>7, <1>8, <1>9, <1>10, <1>11,
            <1>12, <1>13, <1>14, <1>15, <1>16, <1>17, <1>18, <1>19, <1>20, <1>21,
            <1>22, <1>23, <1>24, <1>25, <1>26, <1>27, <1>28, <1>29, <1>30, <1>31,
            <1>32, <1>33, <1>34, <1>35, <1>36, <1>37, <1>38, <1>39 DEF Next, Work,
            Ask, FetchStep, MoveStep, Movers

-----------------------------------------------------------------------------
(***************************************************************************)
(* Types.                                                                  *)
(***************************************************************************)

Recs ==
    [kind : {"none", "sparse", "extern"}, bits : SUBSET Groups, path : Paths \cup {""}]

Files == {Gone} \cup SUBSET Groups

DiskTyped == rec \in Recs /\ sparse \in Files /\ obao \in BOOLEAN /\ xfile \in [Paths -> Files]

StoreTyped ==
    /\ unlinking \in BOOLEAN
    /\ writers \subseteq Tasks \cup {"salvage"}
    /\ landing \subseteq Groups
    /\ stale \subseteq writers
    /\ held \subseteq Tasks

HintsTyped ==
    /\ gates \subseteq Tasks
    /\ queued \subseteq Groups
    /\ anchor \in 0 .. GroupCount
    /\ warmed \in BOOLEAN
    /\ media \in BOOLEAN

RestTyped ==
    /\ claims \subseteq Fetchers
    /\ fresh \in BOOLEAN
    /\ answer \in {"none", "ok", "error"}
    /\ torn \in BOOLEAN
    /\ faults \in 0 .. MaxFaults

LEMMA TypeParts ==
    TypeOK <=> /\ task \in [Tasks -> TaskRec]
               /\ DiskTyped /\ StoreTyped /\ HintsTyped /\ RestTyped
  BY DEF TypeOK, TaskRec, Recs, Files, DiskTyped, StoreTyped, HintsTyped, RestTyped

LEMMA TypePartsNext ==
    TypeOK' <=> /\ task' \in [Tasks -> TaskRec]
                /\ DiskTyped' /\ StoreTyped' /\ HintsTyped' /\ RestTyped'
  BY DEF TypeOK, TaskRec, Recs, Files, DiskTyped, StoreTyped, HintsTyped, RestTyped

\* The values the record and the files take.
LEMMA DiskValues ==
    /\ NoRec \in Recs /\ NoRec.kind = "none"
    /\ [NoRec EXCEPT !.kind = "sparse"] \in Recs
    /\ {} \in Files /\ Gone \in Files
    /\ \A b \in SUBSET Groups : b \in Files /\ b # Gone
  <1>1. NoRec \in Recs /\ NoRec.kind = "none" /\ [NoRec EXCEPT !.kind = "sparse"] \in Recs
    BY DEF NoRec, Recs
  <1>2. \A b \in SUBSET Groups : b \in Files /\ b # Gone
    <2>1. 0 \notin Groups
      BY StreamAssumption DEF Groups
    <2> QED BY <2>1 DEF Files, Gone
  <1> QED BY <1>1, <1>2 DEF Files

\* A decode that lands keeps the types: one that is not stale has its file.
LEMMA LandTyped ==
    ASSUME DiskTyped, NEW w, NEW got \in SUBSET Groups, Land(w, got),
           w \notin stale => sparse # Gone
    PROVE  DiskTyped'
  <1>1. sparse' \in Files
    <2>1. CASE w \in stale
      BY <2>1 DEF Land, DiskTyped
    <2>2. CASE w \notin stale
      <3>1. sparse \in SUBSET Groups
        BY <2>2 DEF DiskTyped, Files
      <3>2. sparse \cup got \in SUBSET Groups
        BY <3>1
      <3> QED BY <2>2, <3>2 DEF Land, Files
    <2> QED BY <2>1, <2>2
  <1>2. rec' \in Recs
    BY DEF Land, DiskTyped, Recs
  <1> QED BY <1>1, <1>2 DEF Land, DiskTyped

LEMMA FaultTyped ==
    ASSUME RestTyped, Fault
    PROVE  faults' \in 0 .. MaxFaults
  BY StreamAssumption DEF RestTyped, Fault

\* The window and the anchor that serving leaves.
LEMMA ServeTyped ==
    ASSUME HintsTyped, NEW tk, NEW gs \in SUBSET Tasks, NEW q, NEW w \in Windows,
           AfterServe(tk, gs, q, w)
    PROVE  queued' \subseteq Groups /\ anchor' \in 0 .. GroupCount /\ gates' \subseteq Tasks
  <1>1. PlanReadahead(w) \subseteq Groups /\ Last(w) \in Groups
    BY AheadGroups
  <1>2. Last(w) \in 0 .. GroupCount
    BY <1>1, StreamAssumption DEF Groups
  <1>3. queued' \in {PlanReadahead(w), queued} /\ anchor' \in {anchor, Last(w)}
    BY DEF AfterServe
  <1>4. gates' \subseteq Tasks
    BY Names DEF AfterServe
  <1> QED BY <1>1, <1>2, <1>3, <1>4 DEF HintsTyped

\* The record and the files keep their types.
LEMMA DiskTypeStep ==
    ASSUME TypeOK, DiskTyped, Control, WritersExact, GoneIsStale, [Next]_vars
    PROVE  DiskTyped'
  <1>1. ASSUME NEW t \in Fetchers, Plan(t) PROVE DiskTyped'
    BY <1>1 DEF Plan, DiskTyped, disk, vars
  <1>2. ASSUME NEW t \in Fetchers, PeersFor(t) PROVE DiskTyped'
    BY <1>2 DEF PeersFor, DiskTyped, disk, vars
  <1>3. ASSUME NEW t \in Fetchers, ClaimObject(t) PROVE DiskTyped'
    BY <1>3 DEF ClaimObject, DiskTyped, disk, vars
  <1>4. ASSUME NEW t \in Fetchers, EnsureSparse(t) PROVE DiskTyped'
        BY <1>4, DiskValues DEF EnsureSparse, DiskTyped, Files, disk, RemoveObject,
          Retire, MaterializeFromExtern
  <1>5. ASSUME NEW t \in Fetchers, InsertRecord(t) PROVE DiskTyped'
        BY <1>5, DiskValues DEF InsertRecord, DiskTyped, Files, disk, RemoveObject,
          Retire, MaterializeFromExtern
  <1>6. ASSUME NEW t \in Fetchers, WriteStart(t) PROVE DiskTyped'
    BY <1>6 DEF WriteStart, DiskTyped, disk, vars
  <1>7. ASSUME NEW t \in Fetchers, WriteEnd(t) PROVE DiskTyped'
    <2>1. PICK got \in SUBSET task[t].want : Land(t, got)
      BY <1>7 DEF WriteEnd
    <2>2. t \in Tasks /\ got \in SUBSET Groups
      BY <2>1, Names DEF Control, TaskRec
    <2>3. Decoding(t)
      BY <1>7, <2>2 DEF WriteEnd, WritersExact, Decoding
    <2>4. t \notin stale => sparse # Gone
      BY <2>3 DEF GoneIsStale, Decoding
    <2> QED BY <2>1, <2>2, <2>4, LandTyped
  <1>8. ASSUME NEW t \in Fetchers, Abandon(t) PROVE DiskTyped'
    BY <1>8 DEF Abandon, DiskTyped, disk, vars
  <1>9. ASSUME NEW t \in Fetchers, FetchReturns(t) PROVE DiskTyped'
    BY <1>9 DEF FetchReturns, DiskTyped, disk, vars
  <1>10. ASSUME NEW t \in Fetchers, DropClaim(t) PROVE DiskTyped'
        BY <1>10, DiskValues DEF DropClaim, DiskTyped, Files, disk, RemoveObject,
          Retire, MaterializeFromExtern
  <1>11. ASSUME NEW t \in Movers, Materialize(t) PROVE DiskTyped'
        BY <1>11, DiskValues DEF Materialize, DiskTyped, Files, disk, RemoveObject,
          Retire, MaterializeFromExtern
  <1>12. ASSUME NEW t \in Movers, GuardMove(t) PROVE DiskTyped'
    BY <1>12 DEF GuardMove, DiskTyped, disk, vars
  <1>13. ASSUME NEW t \in Movers, Rename(t) PROVE DiskTyped'
        BY <1>13, DiskValues DEF Rename, DiskTyped, Files, disk, RemoveObject, Retire,
          MaterializeFromExtern
  <1>14. ASSUME NEW t \in Movers, CommitExtern(t) PROVE DiskTyped'
    <2>1. task[t].path \in Paths \cup {""}
      BY Names DEF Control, TaskRec
    <2>2. rec' \in Recs
      BY <1>14, <2>1 DEF CommitExtern, Recs
    <2> QED BY <1>14, <2>2 DEF CommitExtern, DiskTyped
  <1>15. ASSUME NEW t \in Movers, UnlinkOutboard(t) PROVE DiskTyped'
        BY <1>15, DiskValues DEF UnlinkOutboard, DiskTyped, Files, disk, RemoveObject,
          Retire, MaterializeFromExtern
  <1>16. CASE Widen
    BY <1>16 DEF Widen, DiskTyped, disk, vars
  <1>17. CASE Salvage
    <2>1. PICK got \in SUBSET landing : Land("salvage", got)
      BY <1>17 DEF Salvage
    <2>2. got \in SUBSET Groups
      BY <2>1, TypeParts DEF StoreTyped
    <2>3. "salvage" \notin stale => sparse # Gone
      BY <1>17 DEF Salvage, GoneIsStale, Decoding
    <2> QED BY <2>1, <2>2, <2>3, LandTyped
  <1>18. CASE AfterRead
    BY <1>18 DEF AfterRead, DiskTyped, disk, vars
  <1>19. CASE ReadBack
    BY <1>19 DEF ReadBack, DiskTyped, disk, vars
  <1>20. CASE AfterAhead
    BY <1>20 DEF AfterAhead, DiskTyped, disk, vars
  <1>21. CASE AfterWarm
    BY <1>21 DEF AfterWarm, DiskTyped, disk, vars
  <1>22. CASE AfterComplete
    BY <1>22 DEF AfterComplete, DiskTyped, disk, vars
  <1>23. CASE FileLanded
    BY <1>23 DEF FileLanded, DiskTyped, disk, vars
  <1>24. CASE FileMoved
    BY <1>24 DEF FileMoved, DiskTyped, disk, vars
  <1>25. CASE AfterFile
    BY <1>25 DEF AfterFile, DiskTyped, disk, vars
  <1>26. CASE AfterBatch
    BY <1>26 DEF AfterBatch, DiskTyped, disk, vars
  <1>27. CASE BatchMoved
    BY <1>27 DEF BatchMoved, DiskTyped, disk, vars
  <1>28. CASE MoveEnds
    BY <1>28 DEF MoveEnds, DiskTyped, disk, vars
  <1>29. CASE Revalidate
        BY <1>29, DiskValues DEF Revalidate, DiskTyped, Files, disk, RemoveObject,
          Retire, MaterializeFromExtern
  <1>30. CASE Shrink
    <2>1. rec' \in Recs
      BY <1>30 DEF Shrink, DiskTyped, Recs
    <2> QED BY <1>30, <2>1 DEF Shrink, DiskTyped
  <1>31. CASE CheckEnds
    BY <1>31 DEF CheckEnds, DiskTyped, disk, vars
  <1>32. CASE EvictUnlink
        BY <1>32, DiskValues DEF EvictUnlink, DiskTyped, Files, disk, RemoveObject,
          Retire, MaterializeFromExtern
  <1>33. CASE Evict
        BY <1>33, DiskValues DEF Evict, DiskTyped, Files, disk, RemoveObject, Retire,
          MaterializeFromExtern
  <1>34. CASE Crash
    BY <1>34 DEF Crash, DiskTyped, disk, vars
  <1>35. ASSUME NEW p \in Asks["read"], NEW w \in Windows, Read(p, w)
         PROVE  DiskTyped'
    BY <1>35 DEF Read, DiskTyped, disk, vars
  <1>36. ASSUME NEW p \in Asks["batch"], StartBatch(p) PROVE DiskTyped'
    BY <1>36 DEF StartBatch, DiskTyped, disk, vars
  <1>37. ASSUME NEW p \in Asks["file"], StartFile(p) PROVE DiskTyped'
    BY <1>37 DEF StartFile, DiskTyped, disk, vars
  <1>38. ASSUME NEW p \in Paths, UserDeletes(p) PROVE DiskTyped'
        BY <1>38, DiskValues DEF UserDeletes, DiskTyped, Files, disk, RemoveObject,
          Retire, MaterializeFromExtern
  <1>39. CASE UNCHANGED vars
    BY <1>39 DEF vars, disk, store, hints, DiskTyped, disk, vars
  <1> QED BY <1>1, <1>2, <1>3, <1>4, <1>5, <1>6, <1>7, <1>8, <1>9, <1>10, <1>11,
            <1>12, <1>13, <1>14, <1>15, <1>16, <1>17, <1>18, <1>19, <1>20, <1>21,
            <1>22, <1>23, <1>24, <1>25, <1>26, <1>27, <1>28, <1>29, <1>30, <1>31,
            <1>32, <1>33, <1>34, <1>35, <1>36, <1>37, <1>38, <1>39 DEF Next, Work,
            Ask, FetchStep, MoveStep, Movers

\* The store's memory keeps its type.
LEMMA StoreTypeStep ==
    ASSUME TypeOK, StoreTyped, Control, WritersExact, [Next]_vars
    PROVE  StoreTyped'
  <1>1. ASSUME NEW t \in Fetchers, Plan(t) PROVE StoreTyped'
    BY <1>1 DEF Plan, StoreTyped, store, vars
  <1>2. ASSUME NEW t \in Fetchers, PeersFor(t) PROVE StoreTyped'
    BY <1>2 DEF PeersFor, StoreTyped, store, vars
  <1>3. ASSUME NEW t \in Fetchers, ClaimObject(t) PROVE StoreTyped'
    BY <1>3 DEF ClaimObject, StoreTyped, store, vars
  <1>4. ASSUME NEW t \in Fetchers, EnsureSparse(t) PROVE StoreTyped'
    BY <1>4 DEF EnsureSparse, StoreTyped, store, vars
  <1>5. ASSUME NEW t \in Fetchers, InsertRecord(t) PROVE StoreTyped'
    BY <1>5 DEF InsertRecord, StoreTyped, store, vars
  <1>6. ASSUME NEW t \in Fetchers, WriteStart(t) PROVE StoreTyped'
    BY <1>6, Names DEF WriteStart, StoreTyped, Land
  <1>7. ASSUME NEW t \in Fetchers, WriteEnd(t) PROVE StoreTyped'
    BY <1>7, Names DEF WriteEnd, StoreTyped, Land
  <1>8. ASSUME NEW t \in Fetchers, Abandon(t) PROVE StoreTyped'
    <2>1. t \in Tasks /\ task[t].want \subseteq Groups
      BY Names DEF Control, TaskRec
    <2>2. writers' = (writers \ {t}) \cup {"salvage"} /\ landing' = task[t].want
          /\ UNCHANGED <<unlinking, held>>
      BY <1>8 DEF Abandon
    <2>3. stale' = {IF u = t THEN "salvage" ELSE u : u \in stale}
      BY <1>8 DEF Abandon
    <2>4. stale' \subseteq writers'
      BY <2>2, <2>3 DEF StoreTyped
    <2> QED BY <2>1, <2>2, <2>4 DEF StoreTyped
  <1>9. ASSUME NEW t \in Fetchers, FetchReturns(t) PROVE StoreTyped'
    BY <1>9 DEF FetchReturns, StoreTyped, store, vars
  <1>10. ASSUME NEW t \in Fetchers, DropClaim(t) PROVE StoreTyped'
    BY <1>10 DEF DropClaim, StoreTyped, store, vars
  <1>11. ASSUME NEW t \in Movers, Materialize(t) PROVE StoreTyped'
    BY <1>11 DEF Materialize, StoreTyped, store, vars
  <1>12. ASSUME NEW t \in Movers, GuardMove(t) PROVE StoreTyped'
    BY <1>12, Names DEF GuardMove, StoreTyped, Land
  <1>13. ASSUME NEW t \in Movers, Rename(t) PROVE StoreTyped'
    <2>1. t \in Tasks /\ task[t].at = "rename"
      BY <1>13, Names DEF Rename
    <2>2. t \notin stale
      BY <2>1, Names DEF WritersExact
    <2>3. UNCHANGED <<unlinking, landing, held>>
      BY <1>13 DEF Rename
    <2>4. writers' \subseteq writers /\ stale' \subseteq writers'
      BY <1>13, <2>2 DEF Rename, StoreTyped
    <2> QED BY <2>3, <2>4 DEF StoreTyped
  <1>14. ASSUME NEW t \in Movers, CommitExtern(t) PROVE StoreTyped'
    <2>1. t \in Tasks /\ task[t].at = "commit"
      BY <1>14, Names DEF CommitExtern
    <2>2. t \notin stale
      BY <2>1, Names DEF WritersExact
    <2> QED BY <1>14, <2>2 DEF CommitExtern, StoreTyped
  <1>15. ASSUME NEW t \in Movers, UnlinkOutboard(t) PROVE StoreTyped'
    BY <1>15 DEF UnlinkOutboard, StoreTyped, store, vars
  <1>16. CASE Widen
    BY <1>16 DEF Widen, StoreTyped, store, vars
  <1>17. CASE Salvage
    BY <1>17, Names DEF Salvage, StoreTyped, Land
  <1>18. CASE AfterRead
    BY <1>18 DEF AfterRead, StoreTyped, store, vars
  <1>19. CASE ReadBack
    BY <1>19 DEF ReadBack, StoreTyped, store, vars
  <1>20. CASE AfterAhead
    BY <1>20 DEF AfterAhead, StoreTyped, store, vars
  <1>21. CASE AfterWarm
    BY <1>21 DEF AfterWarm, StoreTyped, store, vars
  <1>22. CASE AfterComplete
    BY <1>22 DEF AfterComplete, StoreTyped, store, vars
  <1>23. CASE FileLanded
    BY <1>23, Names DEF FileLanded, StoreTyped, Land
  <1>24. CASE FileMoved
    BY <1>24 DEF FileMoved, StoreTyped, store, vars
  <1>25. CASE AfterFile
    BY <1>25 DEF AfterFile, StoreTyped, store, vars
  <1>26. CASE AfterBatch
    BY <1>26 DEF AfterBatch, StoreTyped, store, vars
  <1>27. CASE BatchMoved
    BY <1>27 DEF BatchMoved, StoreTyped, store, vars
  <1>28. CASE MoveEnds
    BY <1>28 DEF MoveEnds, StoreTyped, store, vars
  <1>29. CASE Revalidate
    BY <1>29 DEF Revalidate, StoreTyped, store, vars
  <1>30. CASE Shrink
    BY <1>30 DEF Shrink, StoreTyped, store, vars
  <1>31. CASE CheckEnds
    BY <1>31 DEF CheckEnds, StoreTyped, store, vars
  <1>32. CASE EvictUnlink
    BY <1>32 DEF EvictUnlink, StoreTyped, store, vars
  <1>33. CASE Evict
    BY <1>33 DEF Evict, StoreTyped, store, vars
  <1>34. CASE Crash
    BY <1>34 DEF Crash, StoreTyped, store, vars
  <1>35. ASSUME NEW p \in Asks["read"], NEW w \in Windows, Read(p, w)
         PROVE  StoreTyped'
    BY <1>35 DEF Read, StoreTyped, store, vars
  <1>36. ASSUME NEW p \in Asks["batch"], StartBatch(p) PROVE StoreTyped'
    BY <1>36 DEF StartBatch, StoreTyped, store, vars
  <1>37. ASSUME NEW p \in Asks["file"], StartFile(p) PROVE StoreTyped'
    BY <1>37 DEF StartFile, StoreTyped, store, vars
  <1>38. ASSUME NEW p \in Paths, UserDeletes(p) PROVE StoreTyped'
    BY <1>38 DEF UserDeletes, StoreTyped, store, vars
  <1>39. CASE UNCHANGED vars
    BY <1>39 DEF vars, disk, store, hints, StoreTyped, store, vars
  <1> QED BY <1>1, <1>2, <1>3, <1>4, <1>5, <1>6, <1>7, <1>8, <1>9, <1>10, <1>11,
            <1>12, <1>13, <1>14, <1>15, <1>16, <1>17, <1>18, <1>19, <1>20, <1>21,
            <1>22, <1>23, <1>24, <1>25, <1>26, <1>27, <1>28, <1>29, <1>30, <1>31,
            <1>32, <1>33, <1>34, <1>35, <1>36, <1>37, <1>38, <1>39 DEF Next, Work,
            Ask, FetchStep, MoveStep, Movers

\* The hints of the streaming tasks keep their types.
LEMMA HintsTypeStep ==
    ASSUME HintsTyped, Control, [Next]_vars
    PROVE  HintsTyped'
  <1>1. ASSUME NEW t \in Fetchers, Plan(t) PROVE HintsTyped'
    BY <1>1, Names DEF Plan, HintsTyped, hints, vars, Fault
  <1>2. ASSUME NEW t \in Fetchers, PeersFor(t) PROVE HintsTyped'
    BY <1>2, Names DEF PeersFor, HintsTyped, hints, vars, Fault
  <1>3. ASSUME NEW t \in Fetchers, ClaimObject(t) PROVE HintsTyped'
    BY <1>3, Names DEF ClaimObject, HintsTyped, hints, vars, Fault
  <1>4. ASSUME NEW t \in Fetchers, EnsureSparse(t) PROVE HintsTyped'
    BY <1>4, Names DEF EnsureSparse, HintsTyped, hints, vars, Fault
  <1>5. ASSUME NEW t \in Fetchers, InsertRecord(t) PROVE HintsTyped'
    BY <1>5, Names DEF InsertRecord, HintsTyped, hints, vars, Fault
  <1>6. ASSUME NEW t \in Fetchers, WriteStart(t) PROVE HintsTyped'
    BY <1>6, Names DEF WriteStart, HintsTyped, hints, vars, Fault
  <1>7. ASSUME NEW t \in Fetchers, WriteEnd(t) PROVE HintsTyped'
    BY <1>7, Names DEF WriteEnd, HintsTyped, hints, vars, Fault
  <1>8. ASSUME NEW t \in Fetchers, Abandon(t) PROVE HintsTyped'
    BY <1>8, Names DEF Abandon, HintsTyped, hints, vars, Fault
  <1>9. ASSUME NEW t \in Fetchers, FetchReturns(t) PROVE HintsTyped'
    BY <1>9, Names DEF FetchReturns, HintsTyped, hints, vars, Fault
  <1>10. ASSUME NEW t \in Fetchers, DropClaim(t) PROVE HintsTyped'
    BY <1>10, Names DEF DropClaim, HintsTyped, hints, vars, Fault
  <1>11. ASSUME NEW t \in Movers, Materialize(t) PROVE HintsTyped'
    BY <1>11, Names DEF Materialize, HintsTyped, hints, vars, Fault
  <1>12. ASSUME NEW t \in Movers, GuardMove(t) PROVE HintsTyped'
    BY <1>12, Names DEF GuardMove, HintsTyped, hints, vars, Fault
  <1>13. ASSUME NEW t \in Movers, Rename(t) PROVE HintsTyped'
    BY <1>13, Names DEF Rename, HintsTyped, hints, vars, Fault
  <1>14. ASSUME NEW t \in Movers, CommitExtern(t) PROVE HintsTyped'
    BY <1>14, Names DEF CommitExtern, HintsTyped, hints, vars, Fault
  <1>15. ASSUME NEW t \in Movers, UnlinkOutboard(t) PROVE HintsTyped'
    BY <1>15, Names DEF UnlinkOutboard, HintsTyped, hints, vars, Fault
  <1>16. CASE Widen
    BY <1>16, Names DEF Widen, HintsTyped, hints, vars, Fault
  <1>17. CASE Salvage
    BY <1>17, Names DEF Salvage, HintsTyped, hints, vars, Fault
  <1>18. CASE AfterRead
    BY <1>18, Names DEF AfterRead, HintsTyped, hints, vars, Fault
  <1>19. CASE ReadBack
    <2>1. task["read"].win \in Windows
      BY <1>19 DEF ReadBack, Control, ReadsWindow
    <2>2. \/ \E tk : AfterServe(tk, gates, task["read"].path, task["read"].win)
          \/ UNCHANGED <<gates, queued, anchor>>
      BY <1>19 DEF ReadBack
    <2>3. queued' \subseteq Groups /\ anchor' \in 0 .. GroupCount /\ gates' \subseteq Tasks
      BY <2>1, <2>2, ServeTyped DEF HintsTyped
    <2> QED BY <1>19, <2>3 DEF ReadBack, HintsTyped
  <1>20. CASE AfterAhead
    BY <1>20, Names DEF AfterAhead, HintsTyped, hints, vars, Fault
  <1>21. CASE AfterWarm
    BY <1>21, Names DEF AfterWarm, HintsTyped, hints, vars, Fault
  <1>22. CASE AfterComplete
    BY <1>22, Names DEF AfterComplete, HintsTyped, hints, vars, Fault
  <1>23. CASE FileLanded
    BY <1>23, Names DEF FileLanded, HintsTyped, hints, vars, Fault
  <1>24. CASE FileMoved
    BY <1>24, Names DEF FileMoved, HintsTyped, hints, vars, Fault
  <1>25. CASE AfterFile
    BY <1>25, Names DEF AfterFile, HintsTyped, hints, vars, Fault
  <1>26. CASE AfterBatch
    BY <1>26, Names DEF AfterBatch, HintsTyped, hints, vars, Fault
  <1>27. CASE BatchMoved
    BY <1>27, Names DEF BatchMoved, HintsTyped, hints, vars, Fault
  <1>28. CASE MoveEnds
    BY <1>28, Names DEF MoveEnds, HintsTyped, hints, vars, Fault
  <1>29. CASE Revalidate
    BY <1>29, Names DEF Revalidate, HintsTyped, hints, vars, Fault
  <1>30. CASE Shrink
    BY <1>30, Names DEF Shrink, HintsTyped, hints, vars, Fault
  <1>31. CASE CheckEnds
    BY <1>31, Names DEF CheckEnds, HintsTyped, hints, vars, Fault
  <1>32. CASE EvictUnlink
    BY <1>32, Names DEF EvictUnlink, HintsTyped, hints, vars, Fault
  <1>33. CASE Evict
    BY <1>33, Names DEF Evict, HintsTyped, hints, vars, Fault
  <1>34. CASE Crash
    <2>1. 0 \in 0 .. GroupCount
      BY StreamAssumption
    <2> QED BY <1>34, <2>1 DEF Crash, HintsTyped, Fault
  <1>35. ASSUME NEW p \in Asks["read"], NEW w \in Windows, Read(p, w)
         PROVE  HintsTyped'
    <2>1. PICK gs \in SUBSET Tasks : gs = IF Completes THEN gates \cup {"complete"} ELSE gates
      BY Names DEF HintsTyped
    <2>2. \/ \E tk : AfterServe(tk, gs, p, w)
          \/ gates' = gs /\ UNCHANGED <<queued, anchor>>
      BY <1>35, <2>1 DEF Read
    <2>3. queued' \subseteq Groups /\ anchor' \in 0 .. GroupCount /\ gates' \subseteq Tasks
      BY <2>1, <2>2, ServeTyped DEF HintsTyped
    <2>4. warmed' = media /\ media' = media
      BY <1>35 DEF Read
    <2> QED BY <2>3, <2>4 DEF HintsTyped
  <1>36. ASSUME NEW p \in Asks["batch"], StartBatch(p) PROVE HintsTyped'
    BY <1>36, Names DEF StartBatch, HintsTyped, hints, vars, Fault
  <1>37. ASSUME NEW p \in Asks["file"], StartFile(p) PROVE HintsTyped'
    BY <1>37, Names DEF StartFile, HintsTyped, hints, vars, Fault
  <1>38. ASSUME NEW p \in Paths, UserDeletes(p) PROVE HintsTyped'
    BY <1>38, Names DEF UserDeletes, HintsTyped, hints, vars, Fault
  <1>39. CASE UNCHANGED vars
    BY <1>39, Names DEF vars, disk, store, hints, HintsTyped, hints, vars, Fault
  <1> QED BY <1>1, <1>2, <1>3, <1>4, <1>5, <1>6, <1>7, <1>8, <1>9, <1>10, <1>11,
            <1>12, <1>13, <1>14, <1>15, <1>16, <1>17, <1>18, <1>19, <1>20, <1>21,
            <1>22, <1>23, <1>24, <1>25, <1>26, <1>27, <1>28, <1>29, <1>30, <1>31,
            <1>32, <1>33, <1>34, <1>35, <1>36, <1>37, <1>38, <1>39 DEF Next, Work,
            Ask, FetchStep, MoveStep, Movers

\* Claims, the history and the faults keep their types.
LEMMA RestTypeStep ==
    ASSUME RestTyped, [Next]_vars
    PROVE  RestTyped'
  <1>1. ASSUME NEW t \in Fetchers, Plan(t) PROVE RestTyped'
    BY <1>1 DEF Plan, RestTyped, vars, Fault
  <1>2. ASSUME NEW t \in Fetchers, PeersFor(t) PROVE RestTyped'
    BY <1>2, FaultTyped DEF PeersFor, RestTyped
  <1>3. ASSUME NEW t \in Fetchers, ClaimObject(t) PROVE RestTyped'
    BY <1>3 DEF ClaimObject, RestTyped, vars, Fault
  <1>4. ASSUME NEW t \in Fetchers, EnsureSparse(t) PROVE RestTyped'
    BY <1>4 DEF EnsureSparse, RestTyped, vars, Fault
  <1>5. ASSUME NEW t \in Fetchers, InsertRecord(t) PROVE RestTyped'
    BY <1>5 DEF InsertRecord, RestTyped, vars, Fault
  <1>6. ASSUME NEW t \in Fetchers, WriteStart(t) PROVE RestTyped'
    BY <1>6 DEF WriteStart, RestTyped, vars, Fault
  <1>7. ASSUME NEW t \in Fetchers, WriteEnd(t) PROVE RestTyped'
    BY <1>7 DEF WriteEnd, RestTyped, vars, Fault
  <1>8. ASSUME NEW t \in Fetchers, Abandon(t) PROVE RestTyped'
    BY <1>8, FaultTyped DEF Abandon, RestTyped
  <1>9. ASSUME NEW t \in Fetchers, FetchReturns(t) PROVE RestTyped'
    BY <1>9, FaultTyped DEF FetchReturns, RestTyped
  <1>10. ASSUME NEW t \in Fetchers, DropClaim(t) PROVE RestTyped'
    BY <1>10 DEF DropClaim, RestTyped, vars, Fault
  <1>11. ASSUME NEW t \in Movers, Materialize(t) PROVE RestTyped'
    <2>1. torn' \in BOOLEAN
      BY <1>11 DEF Materialize, Retire, MaterializeFromExtern, RestTyped
    <2> QED BY <1>11, <2>1 DEF Materialize, RestTyped
  <1>12. ASSUME NEW t \in Movers, GuardMove(t) PROVE RestTyped'
    BY <1>12 DEF GuardMove, RestTyped, vars, Fault
  <1>13. ASSUME NEW t \in Movers, Rename(t) PROVE RestTyped'
    BY <1>13 DEF Rename, RestTyped, vars, Fault
  <1>14. ASSUME NEW t \in Movers, CommitExtern(t) PROVE RestTyped'
    BY <1>14 DEF CommitExtern, RestTyped, vars, Fault
  <1>15. ASSUME NEW t \in Movers, UnlinkOutboard(t) PROVE RestTyped'
    BY <1>15 DEF UnlinkOutboard, RestTyped, vars, Fault
  <1>16. CASE Widen
    BY <1>16 DEF Widen, RestTyped, vars, Fault
  <1>17. CASE Salvage
    BY <1>17 DEF Salvage, RestTyped, vars, Fault
  <1>18. CASE AfterRead
    BY <1>18 DEF AfterRead, RestTyped, vars, Fault
  <1>19. CASE ReadBack
    BY <1>19 DEF ReadBack, RestTyped, vars, Fault
  <1>20. CASE AfterAhead
    BY <1>20 DEF AfterAhead, RestTyped, vars, Fault
  <1>21. CASE AfterWarm
    BY <1>21 DEF AfterWarm, RestTyped, vars, Fault
  <1>22. CASE AfterComplete
    BY <1>22 DEF AfterComplete, RestTyped, vars, Fault
  <1>23. CASE FileLanded
    BY <1>23 DEF FileLanded, RestTyped, vars, Fault
  <1>24. CASE FileMoved
    BY <1>24 DEF FileMoved, RestTyped, vars, Fault
  <1>25. CASE AfterFile
    BY <1>25 DEF AfterFile, RestTyped, vars, Fault
  <1>26. CASE AfterBatch
    BY <1>26 DEF AfterBatch, RestTyped, vars, Fault
  <1>27. CASE BatchMoved
    BY <1>27 DEF BatchMoved, RestTyped, vars, Fault
  <1>28. CASE MoveEnds
    BY <1>28 DEF MoveEnds, RestTyped, vars, Fault
  <1>29. CASE Revalidate
    <2>1. torn' \in BOOLEAN
      BY <1>29 DEF Revalidate, Retire, MaterializeFromExtern, RestTyped
    <2> QED BY <1>29, <2>1 DEF Revalidate, RestTyped
  <1>30. CASE Shrink
    BY <1>30 DEF Shrink, RestTyped, vars, Fault
  <1>31. CASE CheckEnds
    BY <1>31 DEF CheckEnds, RestTyped, vars, Fault
  <1>32. CASE EvictUnlink
    BY <1>32 DEF EvictUnlink, RestTyped, vars, Fault
  <1>33. CASE Evict
    BY <1>33, FaultTyped DEF Evict, RestTyped
  <1>34. CASE Crash
    BY <1>34, FaultTyped DEF Crash, RestTyped
  <1>35. ASSUME NEW p \in Asks["read"], NEW w \in Windows, Read(p, w)
         PROVE  RestTyped'
    BY <1>35 DEF Read, RestTyped, vars, Fault
  <1>36. ASSUME NEW p \in Asks["batch"], StartBatch(p) PROVE RestTyped'
    BY <1>36 DEF StartBatch, RestTyped, vars, Fault
  <1>37. ASSUME NEW p \in Asks["file"], StartFile(p) PROVE RestTyped'
    BY <1>37 DEF StartFile, RestTyped, vars, Fault
  <1>38. ASSUME NEW p \in Paths, UserDeletes(p) PROVE RestTyped'
    BY <1>38, FaultTyped DEF UserDeletes, RestTyped
  <1>39. CASE UNCHANGED vars
    BY <1>39 DEF vars, disk, store, hints, RestTyped, vars, Fault
  <1> QED BY <1>1, <1>2, <1>3, <1>4, <1>5, <1>6, <1>7, <1>8, <1>9, <1>10, <1>11,
            <1>12, <1>13, <1>14, <1>15, <1>16, <1>17, <1>18, <1>19, <1>20, <1>21,
            <1>22, <1>23, <1>24, <1>25, <1>26, <1>27, <1>28, <1>29, <1>30, <1>31,
            <1>32, <1>33, <1>34, <1>35, <1>36, <1>37, <1>38, <1>39 DEF Next, Work,
            Ask, FetchStep, MoveStep, Movers

-----------------------------------------------------------------------------
(***************************************************************************)
(* The store: who decodes, and what the marked groups stand on.            *)
(***************************************************************************)

Backed == UnlinksAlone /\ RecordKept /\ GoneIsStale /\ StaleHarmless /\ BitsBacked

Store == WritersExact /\ Backed

\* A step that counts nobody: the writers are exact, and the decodes the same.
LEMMA CalmWriters ==
    ASSUME TypeOK, WritersExact, Calm, writers' = writers, stale' \subseteq stale
    PROVE  WritersExact' /\ \A w : Decoding(w)' <=> Decoding(w)
  <1>1. writers \subseteq Tasks \cup {"salvage"} /\ stale \subseteq writers
    BY DEF TypeOK
  <1>2. \A u \in Tasks : task'[u].at \in Writing <=> task[u].at \in Writing
    BY DEF Calm
  <1>3. \A u \in Tasks : task'[u].at = "write" <=> task[u].at = "write"
    BY DEF Calm, Writing
  <1>4. \A u \in Tasks : u \in writers' <=> task'[u].at \in {"write", "rename", "commit"}
    BY <1>2 DEF WritersExact, Writing
  <1>5. \A w \in stale' : w = "salvage" \/ task'[w].at = "write"
    BY <1>1, <1>3 DEF WritersExact
  <1>6. \A w : Decoding(w)' <=> Decoding(w)
    BY <1>1, <1>3 DEF Decoding
  <1> QED BY <1>4, <1>5, <1>6 DEF WritersExact

\* ... and with the record and the files as they were, nothing is disturbed.
LEMMA CalmStore ==
    ASSUME TypeOK, Store, Calm, UNCHANGED <<rec, sparse, unlinking, writers, stale, torn>>
    PROVE  Store'
  <1>1. WritersExact' /\ \A w : Decoding(w)' <=> Decoding(w)
    BY CalmWriters DEF Store
  <1>2. UnlinksAlone' /\ StaleHarmless' /\ BitsBacked'
    BY DEF Store, Backed, UnlinksAlone, StaleHarmless, BitsBacked
  <1>3. RecordKept' /\ GoneIsStale'
    BY <1>1 DEF Store, Backed, RecordKept, GoneIsStale
  <1> QED BY <1>1, <1>2, <1>3 DEF Store, Backed

\* One task moved: what the writers become.
LEMMA OneMoved ==
    ASSUME TypeOK, Control, WritersExact, NEW t \in Tasks, NEW r \in TaskRec,
           task' = [task EXCEPT ![t] = r],
           writers' \ {t, "salvage"} = writers \ {t, "salvage"},
           t \in writers' <=> r.at \in Writing,
           \A w \in stale' : w = "salvage" \/ (w = t /\ r.at = "write")
                             \/ (w # t /\ w \in Tasks /\ task[w].at = "write")
    PROVE  /\ WritersExact'
           /\ \A u \in Tasks : u # t => (Decoding(u)' <=> Decoding(u))
           /\ Decoding(t)' <=> r.at = "write"
  <1>1. task'[t] = r /\ \A u \in Tasks : u # t => task'[u] = task[u]
    BY Put DEF Control
  <1>2. \A u \in Tasks : u # t => (u \in writers' <=> u \in writers)
    BY Names
  <1>3. \A u \in Tasks : u \in writers' <=> task'[u].at \in {"write", "rename", "commit"}
    BY <1>1, <1>2 DEF WritersExact, Writing
  <1>4. \A w \in stale' : w = "salvage" \/ task'[w].at = "write"
    BY <1>1
  <1>5. \A u \in Tasks : u # t => (Decoding(u)' <=> Decoding(u))
    BY <1>1, <1>2, Names DEF Decoding
  <1>6. Decoding(t)' <=> r.at = "write"
    BY <1>1, Names DEF Decoding, Writing
  <1> QED BY <1>3, <1>4, <1>5, <1>6 DEF WritersExact

\* A decode that lands marks only what it wrote into the sparse file.
LEMMA LandBacked ==
    ASSUME TypeOK, Backed, NEW w, Decoding(w), NEW got \in SUBSET Groups, Land(w, got),
           torn' = torn, \A u \in writers' : Decoding(u)' => Decoding(u)
    PROVE  Backed'
  <1>1. w \in writers /\ writers' = writers \ {w} /\ stale' = stale \ {w}
        /\ unlinking' = unlinking
    BY DEF Land, Decoding
  <1>2. rec \in Recs /\ sparse \in Files
    BY TypeParts DEF DiskTyped
  <1>3. rec'.kind = rec.kind /\ (rec.kind = "sparse" => rec'.bits = rec.bits \cup got)
    BY <1>2 DEF Land, Recs
  <1>4. w \notin stale => sparse # Gone
    BY <1>1 DEF Backed, GoneIsStale
  <1>5. w \notin stale => sparse' = sparse \cup got /\ sparse' # Gone
    <2> SUFFICES ASSUME w \notin stale PROVE sparse' = sparse \cup got /\ sparse' # Gone
      OBVIOUS
    <2>1. sparse \in SUBSET Groups
      BY <1>2, <1>4 DEF Files
    <2>2. sparse \cup got \in SUBSET Groups
      BY <2>1
    <2> QED BY <2>2, DiskValues DEF Land
  <1>6. w \in stale => sparse' = sparse
    BY DEF Land
  <1>7. UnlinksAlone'
    BY <1>1 DEF Backed, UnlinksAlone
  <1>8. RecordKept'
    BY <1>1, <1>3 DEF Backed, RecordKept
  <1>9. GoneIsStale'
    BY <1>1, <1>5, <1>6 DEF Backed, GoneIsStale
  <1>10. StaleHarmless'
    BY <1>1, <1>3, <1>4, <1>6 DEF Backed, StaleHarmless
  <1>11. BitsBacked'
    <2>1. CASE w \in stale
      BY <2>1, <1>3, <1>6 DEF Backed, StaleHarmless, BitsBacked
    <2>2. CASE w \notin stale
      BY <2>2, <1>3, <1>4, <1>5 DEF Backed, BitsBacked
    <2> QED BY <2>1, <2>2
  <1> QED BY <1>7, <1>8, <1>9, <1>10, <1>11 DEF Backed

\* The steps of the writers.
LEMMA WriterStore ==
    ASSUME TypeOK, Control, Store, WriterStep
    PROVE  Store'
  <1>0. WritersExact /\ Backed
    BY DEF Store
  <1>1. ASSUME NEW t \in Tasks, WriteStart(t) PROVE Store'
    <2>1. CASE /\ rec.kind = "sparse" /\ sparse # Gone
               /\ writers' = writers \cup {t} /\ To(t, "write")
      <3>1. PICK r \in TaskRec : task' = [task EXCEPT ![t] = r] /\ r.at = "write"
        <4>1. "write" \in Places
          BY DEF Places
        <4> QED BY <2>1, <4>1, ToPut
      <3>2. t \notin writers /\ ~unlinking /\ UNCHANGED <<rec, sparse, unlinking, stale, torn>>
        BY <1>1, <1>0 DEF WriteStart, disk, WritersExact
      <3>3. stale \subseteq writers
        BY DEF TypeOK
      <3>4. \A w \in stale : w = "salvage" \/ (w # t /\ w \in Tasks /\ task[w].at = "write")
        BY <1>0, <3>2, <3>3 DEF WritersExact, TypeOK
      <3>5. WritersExact'
        BY <1>0, <2>1, <3>1, <3>2, <3>4, OneMoved DEF Writing
      <3>6. Backed'
        BY <1>0, <2>1, <3>2
           DEF Backed, UnlinksAlone, RecordKept, GoneIsStale, StaleHarmless, BitsBacked
      <3> QED BY <3>5, <3>6 DEF Store
    <2>2. CASE UNCHANGED writers /\ Fail(t, "drop")
      <3>1. PICK r \in TaskRec : task' = [task EXCEPT ![t] = r] /\ r.at = "drop"
        <4>1. "drop" \in Places
          BY DEF Places
        <4> QED BY <2>2, <4>1, FailPut
      <3>2. task'[t] = r /\ \A u \in Tasks : u # t => task'[u] = task[u]
        BY <3>1, Put DEF Control
      <3>3. Calm
        BY <1>1, <3>1, <3>2 DEF Calm, Writing, WriteStart
      <3>4. UNCHANGED <<rec, sparse, unlinking, stale, torn>>
        BY <1>1 DEF WriteStart, disk
      <3> QED BY <2>2, <3>3, <3>4, CalmStore
    <2> QED BY <1>1, <2>1, <2>2 DEF WriteStart
  <1>2. ASSUME NEW t \in Tasks, WriteEnd(t) PROVE Store'
    <2>1. PICK got \in SUBSET task[t].want :
              /\ Land(t, got)
              /\ task' = [task EXCEPT ![t].want = @ \ got,
                                   ![t].at = IF rec.kind = "none" THEN "drop" ELSE "fetch",
                                   ![t].err = rec.kind = "none"]
      BY <1>2 DEF WriteEnd
    <2>2. task[t] \in TaskRec /\ got \in SUBSET Groups
      BY <2>1 DEF Control, TaskRec
    <2>3. /\ task'[t].at \in {"drop", "fetch"}
          /\ \A u \in Tasks : u # t => task'[u] = task[u]
      BY <2>1, <2>2 DEF Control, TaskRec
    <2>4. task[t].at = "write" /\ t # "salvage"
      BY <1>2, Names DEF WriteEnd
    <2>5. Decoding(t)
      BY <1>0, <2>4 DEF Decoding, WritersExact
    <2>6. writers' = writers \ {t} /\ stale' = stale \ {t}
          /\ stale \subseteq writers /\ writers \subseteq Tasks \cup {"salvage"}
      BY <2>1 DEF Land, TypeOK
    <2>7. \A u \in Tasks : u \in writers' <=> task'[u].at \in {"write", "rename", "commit"}
      BY <1>0, <2>3, <2>6 DEF WritersExact
    <2>8. \A w \in stale' : w = "salvage" \/ task'[w].at = "write"
      BY <1>0, <2>3, <2>6 DEF WritersExact
    <2>9. \A u \in writers' : Decoding(u)' => Decoding(u)
      BY <2>3, <2>6 DEF Decoding
    <2>10. torn' = torn
      BY <1>2 DEF WriteEnd
    <2>11. Backed'
      BY <1>0, <2>1, <2>2, <2>5, <2>9, <2>10, LandBacked
    <2> QED BY <2>7, <2>8, <2>11 DEF Store, WritersExact
  <1>3. ASSUME NEW t \in Tasks, Abandon(t) PROVE Store'
    <2>1. PICK r \in TaskRec : task' = [task EXCEPT ![t] = r] /\ r.at = "fetch"
      <3>1. "fetch" \in Places
        BY DEF Places
      <3> QED BY <1>3, <3>1, ToPut DEF Abandon
    <2>2. writers' = (writers \ {t}) \cup {"salvage"} /\ task[t].at = "write"
          /\ stale' = {IF w = t THEN "salvage" ELSE w : w \in stale}
          /\ UNCHANGED <<rec, sparse, unlinking, torn>>
      BY <1>3 DEF Abandon, disk
    <2>3. t # "salvage" /\ "salvage" \notin Tasks
      BY Names
    <2>4. /\ t \in stale => "salvage" \in stale'
          /\ \A w \in stale : w # t => w \in stale'
          /\ \A w \in stale' : w = "salvage" \/ (w # t /\ w \in stale)
          /\ stale' # {} => stale # {}
      BY <2>2
    <2>5. stale \subseteq writers /\ writers \subseteq Tasks \cup {"salvage"}
      BY DEF TypeOK
    <2>6. \A w \in stale' : w = "salvage" \/ (w # t /\ w \in Tasks /\ task[w].at = "write")
      BY <1>0, <2>4, <2>5 DEF WritersExact
    <2>7. /\ WritersExact'
          /\ \A u \in Tasks : u # t => (Decoding(u)' <=> Decoding(u))
          /\ Decoding(t)' <=> r.at = "write"
      <3>1. writers' \ {t, "salvage"} = writers \ {t, "salvage"}
        BY <2>2
      <3>2. t \in writers' <=> r.at \in Writing
        BY <2>1, <2>2, <2>3 DEF Writing
      <3> QED BY <1>0, <2>1, <2>6, <3>1, <3>2, OneMoved
    <2>8. Decoding(t) /\ t \in writers
      BY <1>0, <2>2 DEF Decoding, WritersExact
    <2>9. \A u \in writers' : Decoding(u)' => u = "salvage" \/ (u # t /\ u \in writers /\ Decoding(u))
      BY <2>1, <2>2, <2>5, <2>7
    <2>10. RecordKept'
      BY <1>0, <2>2, <2>8 DEF Backed, RecordKept
    <2>11. GoneIsStale'
      BY <1>0, <2>2, <2>4, <2>8, <2>9 DEF Backed, GoneIsStale
    <2>12. UnlinksAlone'
      BY <1>0, <2>2, <2>8 DEF Backed, UnlinksAlone
    <2>13. StaleHarmless' /\ BitsBacked'
      BY <1>0, <2>2, <2>4 DEF Backed, StaleHarmless, BitsBacked
    <2> QED BY <2>7, <2>10, <2>11, <2>12, <2>13 DEF Store, Backed
  <1>4. ASSUME NEW t \in Tasks, GuardMove(t) PROVE Store'
    <2>1. PICK r \in TaskRec : task' = [task EXCEPT ![t] = r] /\ r.at = "rename"
      <3>1. "rename" \in Places
        BY DEF Places
      <3> QED BY <1>4, <3>1, ToPut DEF GuardMove
    <2>2. writers' = writers \cup {t} /\ task[t].at = "guard" /\ ~unlinking
          /\ UNCHANGED <<rec, sparse, unlinking, stale, torn>>
      BY <1>4 DEF GuardMove, disk
    <2>3. stale \subseteq writers /\ writers \subseteq Tasks \cup {"salvage"} /\ t \notin writers
      BY <1>0, <2>2 DEF TypeOK, WritersExact
    <2>4. \A w \in stale : w = "salvage" \/ (w # t /\ w \in Tasks /\ task[w].at = "write")
      BY <1>0, <2>3 DEF WritersExact
    <2>5. /\ WritersExact'
          /\ \A u \in Tasks : u # t => (Decoding(u)' <=> Decoding(u))
          /\ Decoding(t)' <=> r.at = "write"
      BY <1>0, <2>1, <2>2, <2>4, OneMoved DEF Writing
    <2>6. \A u \in writers' : Decoding(u)' => u \in writers /\ Decoding(u)
      BY <2>1, <2>2, <2>3, <2>5 DEF Decoding
    <2>7. UnlinksAlone' /\ StaleHarmless' /\ BitsBacked'
      BY <1>0, <2>2 DEF Backed, UnlinksAlone, StaleHarmless, BitsBacked
    <2>8. RecordKept' /\ GoneIsStale'
      BY <1>0, <2>2, <2>6 DEF Backed, RecordKept, GoneIsStale
    <2> QED BY <2>5, <2>7, <2>8 DEF Store, Backed
  <1>5. ASSUME NEW t \in Tasks, Rename(t) PROVE Store'
    <2>1. task[t].at = "rename" /\ t \in writers /\ UNCHANGED <<rec, unlinking, torn>>
          /\ stale \subseteq writers /\ writers \subseteq Tasks \cup {"salvage"}
          /\ "salvage" \notin Tasks
      BY <1>5, <1>0, Names DEF Rename, WritersExact, TypeOK
    <2>2. {"commit", "unmoved"} \subseteq Places
      BY DEF Places
    <2>3. CASE /\ To(t, "commit") /\ UNCHANGED writers /\ sparse' = Gone
               /\ stale' = {w \in writers : w = "salvage" \/ task[w].at = "write"}
      <3>1. PICK r \in TaskRec : task' = [task EXCEPT ![t] = r] /\ r.at = "commit"
        BY <2>2, <2>3, ToPut
      <3>2. \A w \in stale' : w = "salvage" \/ (w # t /\ w \in Tasks /\ task[w].at = "write")
        BY <2>1, <2>3
      <3>3. /\ WritersExact'
            /\ \A u \in Tasks : u # t => (Decoding(u)' <=> Decoding(u))
            /\ Decoding(t)' <=> r.at = "write"
        BY <1>0, <2>1, <2>3, <3>1, <3>2, OneMoved DEF Writing
      <3>4. \A u \in writers' : Decoding(u)' => u \in writers /\ Decoding(u) /\ u \in stale'
        BY <2>1, <2>3, <3>1, <3>3 DEF Decoding
      <3>5. \A w \in stale' : w \in writers /\ Decoding(w)
        BY <2>3 DEF Decoding
      <3>6. UnlinksAlone' /\ BitsBacked'
        BY <1>0, <2>1, <2>3 DEF Backed, UnlinksAlone, BitsBacked
      <3>7. RecordKept' /\ GoneIsStale'
        BY <1>0, <2>1, <2>3, <3>4 DEF Backed, RecordKept, GoneIsStale
      <3>8. StaleHarmless'
        <4>1. rec.kind \in {"none", "sparse", "extern"}
          BY DEF TypeOK
        <4> QED BY <1>0, <2>1, <2>3, <3>5, <4>1 DEF Backed, RecordKept, StaleHarmless
      <3> QED BY <3>3, <3>6, <3>7, <3>8 DEF Store, Backed
    <2>4. CASE To(t, "unmoved") /\ writers' = writers \ {t} /\ UNCHANGED <<sparse, stale>>
      <3>1. PICK r \in TaskRec : task' = [task EXCEPT ![t] = r] /\ r.at = "unmoved"
        BY <2>2, <2>4, ToPut
      <3>2. \A w \in stale' : w = "salvage" \/ (w # t /\ w \in Tasks /\ task[w].at = "write")
        BY <1>0, <2>1, <2>4 DEF WritersExact
      <3>3. /\ WritersExact'
            /\ \A u \in Tasks : u # t => (Decoding(u)' <=> Decoding(u))
            /\ Decoding(t)' <=> r.at = "write"
        BY <1>0, <2>1, <2>4, <3>1, <3>2, OneMoved DEF Writing
      <3>4. \A u \in writers' : Decoding(u)' => u \in writers /\ Decoding(u)
        BY <2>1, <2>4, <3>3 DEF Decoding
      <3>5. UnlinksAlone' /\ StaleHarmless' /\ BitsBacked'
        BY <1>0, <2>1, <2>4 DEF Backed, UnlinksAlone, StaleHarmless, BitsBacked
      <3>6. RecordKept' /\ GoneIsStale'
        BY <1>0, <2>1, <2>4, <3>4 DEF Backed, RecordKept, GoneIsStale
      <3> QED BY <3>3, <3>5, <3>6 DEF Store, Backed
    <2> QED BY <1>5, <2>3, <2>4 DEF Rename
  <1>6. ASSUME NEW t \in Tasks, CommitExtern(t) PROVE Store'
    <2>1. task[t].at = "commit" /\ t \in writers /\ UNCHANGED <<sparse, unlinking, stale, torn>>
          /\ writers' = writers \ {t} /\ rec'.kind = "extern"
          /\ stale \subseteq writers /\ writers \subseteq Tasks \cup {"salvage"}
          /\ "salvage" \notin Tasks
      BY <1>6, <1>0, Names DEF CommitExtern, WritersExact, TypeOK
    <2>2. PICK r \in TaskRec : task' = [task EXCEPT ![t] = r] /\ r.at = "moved"
      <3>1. "moved" \in Places
        BY DEF Places
      <3> QED BY <1>6, <3>1, ToPut DEF CommitExtern
    <2>3. \A w \in stale' : w = "salvage" \/ (w # t /\ w \in Tasks /\ task[w].at = "write")
      BY <1>0, <2>1 DEF WritersExact
    <2>4. /\ WritersExact'
          /\ \A u \in Tasks : u # t => (Decoding(u)' <=> Decoding(u))
          /\ Decoding(t)' <=> r.at = "write"
      BY <1>0, <2>1, <2>2, <2>3, OneMoved DEF Writing
    <2>5. \A u \in writers' : Decoding(u)' => u \in writers /\ Decoding(u)
      BY <2>1, <2>4 DEF Decoding
    <2>6. UnlinksAlone' /\ RecordKept' /\ StaleHarmless' /\ BitsBacked'
      BY <1>0, <2>1 DEF Backed, UnlinksAlone, RecordKept, StaleHarmless, BitsBacked
    <2>7. GoneIsStale'
      BY <1>0, <2>1, <2>5 DEF Backed, GoneIsStale
    <2> QED BY <2>4, <2>6, <2>7 DEF Store, Backed
  <1> QED BY <1>1, <1>2, <1>3, <1>4, <1>5, <1>6 DEF WriterStep

\* Nothing is disturbed when the writers are exact, nobody is counted, and the
\* bits stay backed.
LEMMA IdleBacked ==
    ASSUME TypeOK, WritersExact', writers' = {}, stale' = {}, BitsBacked'
    PROVE  Store'
  BY DEF Store, Backed, UnlinksAlone, RecordKept, GoneIsStale, StaleHarmless

\* Store::remove works only while nobody is counted, and retire_extern says
\* when somebody was.
LEMMA Dropped ==
    ASSUME TypeOK, Store, Calm, rec' = NoRec, writers' = writers, stale' = stale,
           ~torn' => ~torn /\ writers = {}, sparse' = sparse \/ writers = {},
           unlinking' = unlinking
    PROVE  Store'
  <1>1. WritersExact' /\ \A w : Decoding(w)' <=> Decoding(w)
    BY CalmWriters DEF Store
  <1>2. stale \subseteq writers /\ rec'.kind = "none"
    BY DiskValues DEF TypeOK
  <1>3. UnlinksAlone' /\ BitsBacked' /\ StaleHarmless' /\ RecordKept'
    BY <1>2 DEF Store, Backed, UnlinksAlone, BitsBacked, StaleHarmless, RecordKept
  <1>4. GoneIsStale'
    BY <1>1 DEF Store, Backed, GoneIsStale
  <1> QED BY <1>1, <1>3, <1>4 DEF Store, Backed

\* Every other step of a running node.
LEMMA CalmStoreStep ==
    ASSUME TypeOK, Control, Store, Calm, ~WriterStep, ~Crash, [Next]_vars
    PROVE  Store'
  <1>1. ASSUME NEW t \in Fetchers, Plan(t) PROVE Store'
    BY <1>1, CalmStore DEF Plan, disk, store, vars
  <1>2. ASSUME NEW t \in Fetchers, PeersFor(t) PROVE Store'
    BY <1>2, CalmStore DEF PeersFor, disk, store, vars
  <1>3. ASSUME NEW t \in Fetchers, ClaimObject(t) PROVE Store'
    BY <1>3, CalmStore DEF ClaimObject, disk, store, vars
  <1>4. ASSUME NEW t \in Fetchers, EnsureSparse(t) PROVE Store'
    <2>1. CASE UNCHANGED disk
      BY <1>4, <2>1, CalmStore DEF EnsureSparse, disk, store
    <2>2. CASE rec.kind = "none" /\ sparse' = IF sparse = Gone THEN {} ELSE sparse
      <3>1. UNCHANGED <<rec, unlinking, writers, stale, torn>>
        BY <1>4, <2>2 DEF EnsureSparse, store
      <3>2. WritersExact' /\ \A u : Decoding(u)' <=> Decoding(u)
        BY <3>1, CalmWriters DEF Store
      <3>3. sparse' # Gone
        BY <2>2, DiskValues
      <3>4. UnlinksAlone' /\ BitsBacked' /\ StaleHarmless' /\ GoneIsStale'
                BY <2>2, <3>1, <3>3 DEF Store, Backed, UnlinksAlone, BitsBacked,
              StaleHarmless, GoneIsStale
      <3>5. RecordKept'
        BY <3>1, <3>2 DEF Store, Backed, RecordKept
      <3> QED BY <3>2, <3>4, <3>5 DEF Store, Backed
    <2> QED BY <1>4, <2>1, <2>2 DEF EnsureSparse
  <1>5. ASSUME NEW t \in Fetchers, InsertRecord(t) PROVE Store'
    <2>1. CASE rec' = rec
      BY <1>5, <2>1, CalmStore DEF InsertRecord, store
    <2>2. CASE rec.kind = "none" /\ rec' = [NoRec EXCEPT !.kind = "sparse"]
      <3>1. UNCHANGED <<sparse, unlinking, writers, stale, torn>>
        BY <1>5 DEF InsertRecord, store
      <3>2. WritersExact' /\ \A u : Decoding(u)' <=> Decoding(u)
        BY <3>1, CalmWriters DEF Store
      <3>3. rec'.kind = "sparse" /\ rec'.bits = {}
        BY <2>2 DEF NoRec
      <3>4. UnlinksAlone' /\ BitsBacked' /\ RecordKept'
        BY <3>1, <3>3 DEF Store, Backed, UnlinksAlone, BitsBacked, RecordKept
      <3>5. StaleHarmless'
        BY <2>2, <3>1 DEF Store, Backed, StaleHarmless
      <3>6. GoneIsStale'
        BY <3>1, <3>2 DEF Store, Backed, GoneIsStale
      <3> QED BY <3>2, <3>4, <3>5, <3>6 DEF Store, Backed
    <2> QED BY <1>5, <2>1, <2>2 DEF InsertRecord
  <1>6. ASSUME NEW t \in Fetchers, WriteStart(t) PROVE Store'
    BY <1>6, Names DEF WriterStep
  <1>7. ASSUME NEW t \in Fetchers, WriteEnd(t) PROVE Store'
    BY <1>7, Names DEF WriterStep
  <1>8. ASSUME NEW t \in Fetchers, Abandon(t) PROVE Store'
    BY <1>8, Names DEF WriterStep
  <1>9. ASSUME NEW t \in Fetchers, FetchReturns(t) PROVE Store'
    BY <1>9, CalmStore DEF FetchReturns, disk, store, vars
  <1>10. ASSUME NEW t \in Fetchers, DropClaim(t) PROVE Store'
    <2>1. UNCHANGED <<unlinking, writers, stale, torn>>
      BY <1>10 DEF DropClaim, store
    <2>2. CASE UNCHANGED disk
      BY <2>1, <2>2, CalmStore DEF disk
    <2>3. CASE RemoveObject /\ ~UNCHANGED disk
      BY <2>1, <2>3, Dropped DEF RemoveObject
    <2> QED BY <1>10, <2>2, <2>3 DEF DropClaim
  <1>11. ASSUME NEW t \in Movers, Materialize(t) PROVE Store'
    <2>1. UNCHANGED <<unlinking, writers, stale>>
      BY <1>11 DEF Materialize, store
    <2>2. CASE UNCHANGED <<rec, sparse, torn>>
      BY <2>1, <2>2, CalmStore
    <2>3. CASE Retire(t)
      BY <2>1, <2>3, Dropped DEF Retire
    <2> QED BY <1>11, <2>2, <2>3 DEF Materialize, MaterializeFromExtern, disk
  <1>12. ASSUME NEW t \in Movers, GuardMove(t) PROVE Store'
    BY <1>12, Names DEF WriterStep
  <1>13. ASSUME NEW t \in Movers, Rename(t) PROVE Store'
    BY <1>13, Names DEF WriterStep
  <1>14. ASSUME NEW t \in Movers, CommitExtern(t) PROVE Store'
    BY <1>14, Names DEF WriterStep
  <1>15. ASSUME NEW t \in Movers, UnlinkOutboard(t) PROVE Store'
    BY <1>15, CalmStore DEF UnlinkOutboard, disk, store, vars
  <1>16. CASE Widen
    BY <1>16, CalmStore DEF Widen, disk, store, vars
  <1>17. CASE Salvage
    <2>1. PICK got \in SUBSET landing : Land("salvage", got)
      BY <1>17 DEF Salvage
    <2>2. got \in SUBSET Groups /\ Decoding("salvage") /\ torn' = torn /\ task' = task
      BY <1>17, <2>1 DEF Salvage, TypeOK, Decoding
    <2>3. writers' = writers \ {"salvage"} /\ stale' = stale \ {"salvage"}
          /\ "salvage" \notin Tasks
      BY <2>1, Names DEF Land
    <2>4. WritersExact'
      BY <2>2, <2>3 DEF Store, WritersExact
    <2>5. \A u \in writers' : Decoding(u)' => Decoding(u)
      BY <2>2, <2>3 DEF Decoding
    <2>6. Backed'
      BY <2>1, <2>2, <2>5, LandBacked DEF Store
    <2> QED BY <2>4, <2>6 DEF Store
  <1>18. CASE AfterRead
    BY <1>18, CalmStore DEF AfterRead, disk, store, vars
  <1>19. CASE ReadBack
    BY <1>19, CalmStore DEF ReadBack, disk, store, vars
  <1>20. CASE AfterAhead
    BY <1>20, CalmStore DEF AfterAhead, disk, store, vars
  <1>21. CASE AfterWarm
    BY <1>21, CalmStore DEF AfterWarm, disk, store, vars
  <1>22. CASE AfterComplete
    BY <1>22, CalmStore DEF AfterComplete, disk, store, vars
  <1>23. CASE FileLanded
    BY <1>23, CalmStore DEF FileLanded, disk, store, vars
  <1>24. CASE FileMoved
    BY <1>24, CalmStore DEF FileMoved, disk, store, vars
  <1>25. CASE AfterFile
    BY <1>25, CalmStore DEF AfterFile, disk, store, vars
  <1>26. CASE AfterBatch
    BY <1>26, CalmStore DEF AfterBatch, disk, store, vars
  <1>27. CASE BatchMoved
    BY <1>27, CalmStore DEF BatchMoved, disk, store, vars
  <1>28. CASE MoveEnds
    BY <1>28, CalmStore DEF MoveEnds, disk, store, vars
  <1>29. CASE Revalidate
    <2>1. UNCHANGED <<unlinking, writers, stale>>
      BY <1>29 DEF Revalidate, store
    <2>2. CASE UNCHANGED <<rec, sparse, torn>>
      BY <2>1, <2>2, CalmStore
    <2>3. CASE Retire("check")
      BY <2>1, <2>3, Dropped DEF Retire
    <2>4. CASE RemoveObject /\ UNCHANGED torn /\ ~UNCHANGED disk
      BY <2>1, <2>4, Dropped DEF RemoveObject
    <2> QED BY <1>29, <2>2, <2>3, <2>4 DEF Revalidate, disk
  <1>30. CASE Shrink
    <2>1. rec \in Recs /\ UNCHANGED <<sparse, unlinking, writers, stale, torn>>
      BY <1>30, TypeParts DEF Shrink, store, DiskTyped
    <2>2. rec'.kind = rec.kind /\ rec'.bits \subseteq rec.bits
      BY <1>30, <2>1 DEF Shrink, Recs
    <2>3. WritersExact' /\ \A u : Decoding(u)' <=> Decoding(u)
      BY <2>1, CalmWriters DEF Store
    <2>4. UnlinksAlone' /\ BitsBacked' /\ StaleHarmless'
      BY <2>1, <2>2 DEF Store, Backed, UnlinksAlone, BitsBacked, StaleHarmless
    <2>5. RecordKept' /\ GoneIsStale'
      BY <2>1, <2>2, <2>3 DEF Store, Backed, RecordKept, GoneIsStale
    <2> QED BY <2>3, <2>4, <2>5 DEF Store, Backed
  <1>31. CASE CheckEnds
    BY <1>31, CalmStore DEF CheckEnds, disk, store, vars
  <1>32. CASE EvictUnlink
    <2>1. writers = {} /\ sparse' = Gone /\ stale' = writers /\ writers' = writers
      BY <1>32 DEF EvictUnlink, Store, Backed, UnlinksAlone
    <2>2. stale' \subseteq stale
      BY <2>1
    <2>3. WritersExact'
      BY <2>1, <2>2, CalmWriters DEF Store
    <2> QED BY <2>1, <2>3, IdleBacked DEF BitsBacked
  <1>33. CASE Evict
    <2>1. rec' = NoRec /\ writers = {} /\ UNCHANGED <<sparse, writers, stale, torn>>
      BY <1>33 DEF Evict
    <2>2. stale = {}
      BY <2>1 DEF TypeOK
    <2>3. WritersExact' /\ rec'.kind = "none"
      BY <2>1, CalmWriters, DiskValues DEF Store
    <2> QED BY <2>1, <2>2, <2>3, IdleBacked DEF BitsBacked
  <1>34. CASE Crash
    BY <1>34
  <1>35. ASSUME NEW p \in Asks["read"], NEW w \in Windows, Read(p, w)
         PROVE  Store'
    BY <1>35, CalmStore DEF Read, disk, store, vars
  <1>36. ASSUME NEW p \in Asks["batch"], StartBatch(p) PROVE Store'
    BY <1>36, CalmStore DEF StartBatch, disk, store, vars
  <1>37. ASSUME NEW p \in Asks["file"], StartFile(p) PROVE Store'
    BY <1>37, CalmStore DEF StartFile, disk, store, vars
  <1>38. ASSUME NEW p \in Paths, UserDeletes(p) PROVE Store'
    BY <1>38, CalmStore DEF UserDeletes, disk, store, vars
  <1>39. CASE UNCHANGED vars
    BY <1>39, CalmStore DEF vars, disk, store, hints, disk, store, vars
  <1> QED BY <1>1, <1>2, <1>3, <1>4, <1>5, <1>6, <1>7, <1>8, <1>9, <1>10, <1>11,
            <1>12, <1>13, <1>14, <1>15, <1>16, <1>17, <1>18, <1>19, <1>20, <1>21,
            <1>22, <1>23, <1>24, <1>25, <1>26, <1>27, <1>28, <1>29, <1>30, <1>31,
            <1>32, <1>33, <1>34, <1>35, <1>36, <1>37, <1>38, <1>39 DEF Next, Work,
            Ask, FetchStep, MoveStep, Movers

\* A restart forgets the decodes and leaves the disk.
LEMMA CrashStore ==
    ASSUME TypeOK, Store, Crash
    PROVE  Store'
  <1>1. writers' = {} /\ stale' = {} /\ UNCHANGED <<rec, sparse, torn>>
        /\ task' = [t \in Tasks |-> Idle]
    BY DEF Crash, disk
  <1>2. WritersExact'
    BY <1>1, Names DEF WritersExact
  <1>3. BitsBacked'
    BY <1>1 DEF Store, Backed, BitsBacked
  <1> QED BY <1>1, <1>2, <1>3, IdleBacked

-----------------------------------------------------------------------------
(***************************************************************************)
(* The theorems.                                                           *)
(***************************************************************************)

LEMMA Parts == IInv <=> TypeOK /\ Control /\ Store
  <1>1. TypeOK => task \in [Tasks -> TaskRec]
    BY TypeParts
  <1> QED BY <1>1 DEF IInv, Control, Store, Backed

LEMMA PartsNext == IInv' <=> TypeOK' /\ Control' /\ Store'
  <1>1. TypeOK' => task' \in [Tasks -> TaskRec]
    BY TypePartsNext
  <1> QED BY <1>1 DEF IInv, Control, Store, Backed

LEMMA InitIInv == Init => IInv
  <1> SUFFICES ASSUME Init PROVE IInv
    OBVIOUS
  <1>1. task \in [Tasks -> TaskRec] /\ \A t \in Tasks : task[t].at = "idle"
    BY Names DEF Init
  <1>2. DiskTyped
    BY DiskValues DEF Init, DiskTyped
  <1>3. StoreTyped /\ HintsTyped /\ RestTyped
    <2>1. 0 \in 0 .. GroupCount /\ 0 \in 0 .. MaxFaults
      BY StreamAssumption
    <2>2. StoreTyped
      BY DEF Init, StoreTyped
    <2>3. HintsTyped
      BY <2>1 DEF Init, HintsTyped
    <2>4. RestTyped
      BY <2>1 DEF Init, RestTyped
    <2> QED BY <2>2, <2>3, <2>4
  <1>4. ReadsWindow /\ GatesExact /\ WritersExact
    BY <1>1, Names DEF Init, ReadsWindow, GatesExact, WritersExact
  <1>5. Backed
    BY DiskValues DEF Init, Backed, UnlinksAlone, RecordKept, GoneIsStale, StaleHarmless,
           BitsBacked
  <1> QED BY <1>1, <1>2, <1>3, <1>4, <1>5, Parts, TypeParts DEF Control, Store

LEMMA StepIInv == IInv /\ [Next]_vars => IInv'
  <1> SUFFICES ASSUME IInv, [Next]_vars PROVE IInv'
    OBVIOUS
  <1>1. TypeOK /\ Control /\ Store
    BY Parts
  <1>2. Control' /\ Steady
    BY <1>1, ControlStep
  <1>3. TypeOK'
    BY <1>1, <1>2, TypeParts, TypePartsNext, DiskTypeStep, StoreTypeStep, HintsTypeStep,
       RestTypeStep DEF Control, Store, Backed
  <1>4. Store'
    BY <1>1, <1>2, WriterStore, CalmStoreStep, CrashStore DEF Steady
  <1> QED BY <1>2, <1>3, <1>4, PartsNext

\* The inductive invariant of the streaming tasks and the sparse store.
THEOREM Invariance == Spec => []IInv
  BY InitIInv, StepIInv, PTL DEF Spec

\* Every variable keeps its type: a task only ever fetches groups the object
\* has, and no decode turns a deleted file into one.
THEOREM TypeCorrect == Spec => []TypeOK
  <1>1. IInv => TypeOK
    BY DEF IInv
  <1> QED BY <1>1, Invariance, PTL

\* A group marked present in the record is in the sparse file, for any object,
\* any windows and any number of evictions, salvages, moves and restarts, as
\* long as no extern record was retired under a decode.
THEOREM MarkedIsStored == Spec => []BitsBacked
  <1>1. IInv => BitsBacked
    BY DEF IInv
  <1> QED BY <1>1, Invariance, PTL
=============================================================================
