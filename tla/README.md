# A TLA+ verification project for EpixNet

EpixNet is a peer-to-peer network for web sites ("xites"): signed content,
stored as content-addressed objects, fetched from and served to other nodes over
several transports. This directory holds TLA+ models of its core, the TLC
configurations that check them on small instances, and TLAPS proofs of the
properties that matter most. Paths below are relative to `src/crates/`.

Every definition is translated from the Rust source; `PROJECT.json` maps each
one to the lines it stands for, lists the hazards the properties are aimed at,
and gives for every property a mutation of the code that breaks it.

## 1. Inventory of the system

### The data path (the core, modelled here)

| Component | Source | State | Operations | What is hard |
|---|---|---|---|---|
| Swarm scheduler | `epix-edx/src/sched.rs` | order of missing groups, cursor, in-flight set, per-peer load, strikes and cool-downs, batch futures, idle budgets | `fetch_growable`: refill, assign and split, race duplicates, apply an outcome, idle step, admit a joiner | peers join and fail in the middle, requests race their own duplicates, links are shared with other fetches, the loop must end |
| Client fetch | `epix-edx/src/fetch.rs` | slice sink, range guard, verified prefix | stream a range, verify group by group, write into the store | early stop, partial success, dropped futures |
| Upload governor | `epix-edx/src/choke.rs` | per-peer accounts, per-second byte bucket, cached unchoke set | note connect / disconnect, credit, decide, rebuild | cached ranking, eviction of accounts, a clock read outside the lock |
| Serving loop | `epix-edx/src/server.rs` | one loop per link, handler tasks, three nested permit pools | accept, gate, decide, queue, encode, stream | permits on every exit path, cut links, batched requests under one lock |
| Connection multiplexer | `epix-edx/src/conn.rs` | waiter map, two bounded lanes, closed flag, cancel set | open a stream, ping, receive, cancel, shut down; reader and writer tasks | four tasks and two lanes racing a dying socket and dropped futures |
| Object store | `epix-blob/src/store.rs` | redb index (OBJECTS, SLABS), slab files, sparse files, external files, eviction holds | insert, remove, pin, evict, compact, read, revalidate, adopt, materialise, open after a crash | transactions of several threads around file I/O, stale scans, torn and lost writes |
| EDX runtime | `epix-runtime/src/edx.rs` | object claims, streaming gates and windows, sessions, foreground counter and flag | Range reads, read-ahead, moov warm-up, completion, file and batch downloads, moves into the xite | six kinds of task on one object by design, each resuming after network waits on state it read before |

How they interact: the runtime opens links (`link.rs`, `noise.rs`), wraps each in
a multiplexed connection and runs a serving loop on it. A page load or a download
becomes a swarm fetch; the scheduler asks peers for ranges through the
multiplexer, and `fetch.rs` writes verified groups into the object store. On the
other side the serving loop asks the governor, reads the store and streams
frames back through the same multiplexer. The foreground flag is shared by the
fetching half (which raises it) and the serving half (which yields to it).

### The xite path (modelled here)

| Component | Source | State | Operations | What is hard |
|---|---|---|---|---|
| Xite updates | `epix-ui/src/state.rs`, `epix-xite/src/xite.rs`, loops of `epix-runtime/src/lib.rs` | content.json on disk and in memory, files, deferred updates, bad files, `updates_in_flight` | sign, publish, receive a push, pull its body, resync, defer, retry, commit, pause, restore | pushes and passes land files in place in one directory with nothing between them; pushes get lost; restarts |
| User content | `epix-node/src/lib.rs`, `epix-ui/src/state.rs`, `epix-content`, `epix-chain/src/lib.rs` | child contents, their data files, merge files, signer cache | write a record, sign, push, list and pull, retry, archive, merge | versions applied out of order, signers looked up on a chain that may be away, files judged by counts |
| On-demand clone | `epix-node/src/lib.rs`, `epix-ui/src/state.rs` | entry, peers, `xites.json`, `in_flight`, `clones_in_flight`, staged content | ensure, wait, race for content.json, core passes, commit, retry, remove, restore | visits join each other, an update or a deletion meets a clone in the directory, restarts in the middle |
| Optional files | `epix-ui/src/state.rs` | switches, consents, files held and pinned, one bulk pass, retention pass, sweep | passes and rounds, retry loop, prompts, cap, pins, deletions | a pass looks at its mandate only between files, the cap deletes what a promise fetches |
| Backup and restore | `epix-ui/src/backup.rs` | archives, unfinished `.part` files, `restore-pending/` and its plan, the node's own files | create, upload, delete, stage a restore, cancel, apply at boot | requests share the staging directory without a lock, the node writes while it is packed, it may die while the plan is applied |

A visit clones a xite (`XiteClone`), its user content is joined (`UserContent`),
and from then on updates reach it by push or pass (`XiteUpdate`); its optional
files come and go by the reader's promises (`OptionalFiles`). Every file of these
arrives through the EDX fetcher (`FileStream`), which runs swarm fetches
(`SwarmFetch`) into the store. `Backup` stands apart: it packs and replaces the
files all of this rests on.

### The rest

`PROJECT.json` lists every component with its sources. In short: feeds
(`epix-feed`), store-and-forward (`epix-propagation`), the peer registry
(`epix-peer`), the protocol registry (`epix-protocol`) and the DHT (`epix-dht`)
enter the models as open choices (any peer may be found or asked at any time, a
hint may start a pass at any time or never). The BitTorrent engine is a second
transport of the same shape. Wire formats, Noise, blob formats, the database
compiler, the search filter and crypto code are data conversion or cryptography.
Discovery, the overlay transports, the rest of the UI and the launchers are I/O
and platform glue.

### What makes each core component correct

* **Scheduler**: no group is asked for twice at once by the window or forgotten;
  a group counts as fetched once, and only when its verified bytes are stored; a
  peer that was struck out returns only by earning it; every fetch returns.
* **Governor and serving loop**: accounts survive while their peer is connected;
  the cached ranking never serves or chokes the wrong peer; the byte cap of a
  second holds; no permit leaks; every accepted request is answered.
* **Multiplexer**: no call waits on a dead connection; a stream that ends
  normally has lost and reordered nothing; every call ends.
* **Store**: a record always addresses its own bytes, through every interleaving
  and crash; a reader never gets another object's bytes; compaction changes
  nothing anyone can see; eviction never takes what is pinned, held or external;
  a pin holds; a group marked present is in the file, and only a whole object
  becomes a file of a xite.
* **Streaming**: a player that keeps asking is served; a fetch that ends gives
  back its claims, guards, holds and gates.
* **Xite updates**: a content.json is committed only over the files it declares;
  the newest version is adopted in the end; no error path blocks later pushes.
* **User content**: nothing archived stays or comes back; nothing unsigned
  spreads; a signed record is never lost; nodes converge.
* **Clones**: a stored content.json is never ahead of its files; an interrupted
  clone is taken up again; a deleted xite stays deleted.
* **Optional files**: what is promised is fetched and kept; what is switched off
  stops.
* **Backup**: a restore gives back the archive, and what it replaces can be had
  back.

## 2. The modules

| Module | Models | Role |
|---|---|---|
| `FetchContract` | the doc of `Swarm::fetch` and `FetchReport` | abstract specification of one fetch |
| `SwarmFetch` | `sched.rs`, the effect of `fetch.rs` | the scheduler |
| `SwarmFetchProofs` | | its proofs and its refinement of `FetchContract` |
| `Choker` | `choke.rs` | the governor, as operators on its record |
| `UploadServer` | `server.rs`, foreground guard of `epix-runtime/src/edx.rs` | serving side composed with `Choker` |
| `UploadServerProofs` | | its proofs, those about `Choker` among them |
| `ConnMux` | `conn.rs`, `FrameSink` of `server.rs` | one connection, both ends |
| `ConnMuxProofs` | | its proofs |
| `SlabStore` | `store.rs`, slab half | the store, its threads, its crashes |
| `SlabStoreProofs` | | its proofs |
| `FileStream` | fetch tasks of `epix-runtime/src/edx.rs`, guards of `fetch.rs`, sparse half of `store.rs` | one object being filled, read, moved and evicted |
| `FileStreamProofs` | | its proofs |
| `Replicas` | | the nodes of one xite, shared by the next two |
| `XiteUpdate` | update path of `state.rs`, `resync_loop`, `propagation_loop` | root content.json between nodes |
| `XiteUpdateProofs` | | its proofs and, in its second part, those of `UserContent` |
| `UserDirectory` | | what the nodes have of one user directory on disk, and its invariants |
| `UserContent` | `sync_included_content`, pushes of child contents, merge sweep, `verify.rs`, `record.rs`, `merge.rs`, signer cache | one user directory between nodes |
| `XiteClone` | `OnDemand`, `clone_xite_with_progress`, `remove_xite`, `restore_xites` | one xite appearing at and leaving a node |
| `XiteCloneProofs` | | its proofs |
| `OptionalFiles` | optional passes, retention, cap of `state.rs` | the optional files of one xite |
| `Backup` | `backup.rs`, `AppState::with_data_dir` | archives and restores of a node's data |
| `BackupProofs` | | its proofs |
| `MC...` | | one per specification: its instance for TLC |

### SwarmFetch

The fetch is one async task, so the loop is a program counter (`cut`, `assign`,
`idle`, `idle_wait`, `wait`, then `done` or `aborted`) and each action is what
the task does between two awaits. `CutSlice`, `AssignBatch`, `SplitBatch` and
`EndSlice` are `Window::refill`; `PrimaryOk`, `PrimaryCap`, `PrimaryGivesOut`,
`RaceWon`, `RacerErrs` and `RaceDry` are the arms of `race_batch` with the
bookkeeping of `apply_outcome`; `IdleAbort`, `WaitForClose`, `IdleWait`,
`IdleTimer` and `IdleJoin` are `idle_step`; `AdmitJoiner` is the join path.
The environment interleaves anywhere: cool-downs end, verified bytes reach the
store (`StoreCommit`), other swarms use the links (`LinkTraffic`), the dialer
sends handles or closes its channel (`Dialer`). A batch is a record in `futs`.
Durations and latency estimates are abstracted: an armed timer may fire at any
time and every choice made by a latency estimate is open.

### Choker and UploadServer

`Choker` keeps one record, since the code keeps one struct behind one mutex;
each method is an operator from record to record (to a set of records where hash
order decides who is evicted). `UploadServer` has the accept slots (`link`), the
request a loop holds while it waits for a permit (`held`), the handlers (`st`)
and the three permit counters. A handler reads the clock (`ReadClock`) and takes
the governor's lock (`DecideRange`, `LockMany`) in separate steps, as the code
does (`server.rs:1011` to `1023`, with store I/O awaited in between); `MaxLag`
bounds how far the clock moves in between. So rulings may come out of the order of
their readings; `late` is a history variable, the seconds that a ruling with an
older reading went back over (`Overtaken`). `GetMany` decides its items one by one
under a lock it keeps (`DecideItem`). `StartPlaying`, `Raise`, `StopPlaying`,
`Lower` are the two halves of creating and dropping a foreground guard: count and
flag are separate atomics.

### ConnMux

The client's request side (`Check`, `Register`, `Send`, `Recheck`, `Recv`,
`Abandon`), its writer and reader tasks, `Shutdown` and `DropHandles`; a socket
with bounded buffers that may die; and the server's reply side, which sends the
frames of a stream over the priority or the bulk lane. Each lock, atomic access
and await is a step. A deadline is a step that may happen at any time.

### SlabStore

A write transaction is one step and every other part of a method is a step of
its own, of one of several threads; a thread's locals (`th[t]`) are what the
method has read so far and may be stale. Sizes are in objects: a slab file is
the sequence of objects appended to it and an offset is an index, so a torn
append is a trailing `Junk`. `Crash` keeps what was synced, may tear the append
under way and, within `MaxLosses`, may lose a synced tail; `OpenIndex` and
`Reconcile` are `open_with`. Choices made with care:

* redb refuses every transaction after one failed with an I/O error, so a failed
  commit has no continuation of its own: it is the `Crash` step.
* Eviction holds are counted in the code and a set in the model: a second hold
  only makes the first last longer.
* `pin` has a cheap check before its transaction; the pin takes effect at the
  transaction and the check only returns early, so they are one step.
* LRU stamps only choose victims, so the victims are an open choice.
* Of the sparse half, what changes records is present: an incomplete object
  (`part`) and one that is a file of a xite (`extern`). Their bytes are not.

### FileStream

One object, declared at one or more paths. On disk: its record (none, sparse with
its present groups, extern), the sparse file, the outboard tree and the files of
the xite. In memory: `sparse_writers`, the claim slots, the holds, the gates of
`Streaming`, and one task of each kind (`read`, `ahead`, `warm`, `complete`,
`batch`, `file`, `move`, `check`). `FetchStep` is what the six fetching tasks
share: plan, session (`PeersFor`), `claim_object`, the two halves of
`ensure_sparse`, decodes (`WriteStart`, `WriteEnd`), and `ObjClaim::drop`. A swarm
fetch is a task that lands any of its groups in any number of decodes and may
give up between them, which is what `SwarmFetch` and `FetchContract` promise and
no more. `Abandon` is a request dropped for a faster peer: the decode of what had
arrived goes on detached. `Materialize`, `GuardMove`, `Rename` and `CommitExtern`
are `Store::materialize` cut where other tasks can come in between. A file that
was unlinked and recreated is another file: a decode that still has the old one
open (`stale`) writes into nothing.

### XiteUpdate

A task of a node is a pushed version (`updates_in_flight` admits one per version)
or a pass. A push goes through the steps of `apply_inbound_update` and
`finish_inbound_update`: the version is marked in flight (`ApplyInbound`, from
`Deliver` or, for a version without an inline body, from `PullBody`), staged
(`Stage`) or refused, which has to unmark it (`StageFails`), committed at once when
no file is missing (`inline`), synced (`Sync`), fetched, landed, and announced,
which unmarks it. Other tasks come in between any two of these. The handler runs
in a spawned task (`epix-edx/src/server.rs:479`), so no cut connection drops
it halfway.

`Check` is where the directory is hashed again, `FetchFile` and `MissFile` land the
files in place, `Land` is `finalize_root_update`: `CommitToDisk`, `CommitFails` or
`Defer`. `CommitFails` is the write of content.json failing (`state.rs:5134`): the
new files stay under the old content.json and nothing is deferred. `Adopt` is the
second half of `commit_root_update`: the write of content.json and the change of
the entry in memory are separate steps with a lock wait between them. `Crash`
forgets everything in memory and adopts what is on disk, as `restore_one_xite`
does.

`tangled` and `unwritten` are history variables. The first says that two tasks of a
node were at work on different versions at once, or that a restart cut an update
short; the second names the version whose commit could not be written, until one
is. `UntangledConsistent` says what the directory holds outside the first case and
through the second; the first case has a counterexample (`XiteOverlap.cfg`).
`Adopted` and `UriReleased` are stated for all cases.

### UserContent

Two content.json files (the users' and one user's), the data file the second
declares and the merge file of signed records, on several nodes. Tasks: pushed
contents, the listing pass (`StartPass` to `FetchFiles`), the merge sweep
(`OpenMerge`, `Copy`, `WriteMerge`) and the user or the owner who signs. Whichever of
them stores a content.json calls `add_content`, which holds no lock: `adds` is the
call a task is in, and its steps are the verification against the parent on disk
(`AddContent`), the write (`WriteContent`), the scan by a new parent's cutoff
(`ScanArchived`) and the removal (`RemoveChild`). `crossed` is a history variable: a
call for the parent overlapped another call on the node. `Verifies`, `IsArchived`, `RecordOk` and
`MergeOrset` are the rules of `epix-content`; `Resolves` is the signer lookup
with its cache, empty while the chain is away. JSON, certificates and sizes are
abstracted to what the rules decide.

### XiteClone

A caller goes through `ensure_xite`, `OnDemand::ensure` (work or wait), the Tor
gate, the race for content.json over `RaceSlots` connections, passes over the
core files, and the commit. `RetryTick` is the loop that takes up interrupted
clones. An update pass and `remove_xite` (three steps) work in the same directory;
`Crash` restarts from `xites.json` and the disk. `mixed` is a history variable:
another writer landed files during a clone.

### OptionalFiles

The switches of a xite and of the node, the prompts, the bulk pass with its EDX
step and rounds, the retention pass, the retry loop, the cap sweep in three steps
(scan, delete one by one, end), and a user who may move anything at any time.
A pass reads its mandate (`Mandate`, `KeepMandate`) exactly where the code does:
between files and between rounds. A switch takes effect at once and starts its pass
only when the settings are saved (`due`, `Saved`); between two directories of a retry
nothing is in flight, and another task's pass may come first (`left`, `RetryNext`,
`RetrySkip`).

### Backup

Requests are threads that make an archive (`Open`, `Pack`, `Seal`) or stage a
restore (`StartRestore`, `Stage`, `Save`, which is again `Open` to `Seal`, then
`Commit`); `Cancel`, `Delete` and `Upload` are single steps. The boot is `Apply`
(or `ApplyNothing`), `Place`, `Normalize`, `Sweep` and `Load`, and `Restart` may come
between any two of them. A removal may fail and the code goes on: `remove_dir_all` of
the staging directory may leave some of its files, with or without its plan
(`Scraps`, in `Discard` and `StartRestore`), and that of a replaced tree some of the
tree (`stuck` in `Apply`). Archives are taken to be honest: the files of an entry are
of the component its manifest names, as in every archive this code writes. A content
is the file and the moment it was written for, so that the history `gone` (what a
restore destroyed that its safety backup had to hold) can be compared with the
archives.

## 3. The runs

All runs use two workers; each ends in minutes.

| Run | Instance | Shows |
|---|---|---|
| `swarm_fetch` | 3 groups, 1 peer and 1 joiner with staggered holdings, shared links, fair | `TypeOK`, `LedgerExact`, `ReportExact`, `RacersHoldBatch`, `NoStrandedGroup`, `RevivalEarned`, `FetchReturns`, `ImplementsContract` |
| `upload_governor` | 3 peers for 2 tracked accounts and 2 general slots, page and bulk requests, credit, 2 seconds, readings up to a second old | `ConnsPaired`, `CacheSound`, `CapHeldInOrder`, `ChokedOnlyUnderContention` |
| `upload_permits` | 2 links of one peer over an overlay, one permit of each kind, batched and control requests, a foreground fetch and a pause, fair | `PermitsExact`, `Answered` |
| `conn_mux` | 2 streams, every queue of capacity 1, a reply of two frames, pings or none, fair | `NobodyStranded`, `StreamComplete`, `CallsEnd` |
| `slab_store` | 2 objects, 2 threads, slabs of 2, 3 slab ids, 5 calls, 1 crash, 1 loss | `TypeOK`, `OpenAligned`, `SlabAddressed`, `ReadsHonest`, `CompactionInvisible`, `EvictionSpares` |
| `file_stream` | 3 groups, two read windows, 2 paths, media or not, two requests overlapping, 1 fault, fair | `BitsBacked`, `Delivered`, `Settles` |
| `xite_update` | owner and one node, 2 files, 3 versions of which one is too large for a push, a size limit, 1 restart, pause or failed write, fair | `UntangledConsistent`, `UriReleased`, `Adopted` |
| `user_content` | 2 nodes, 2 versions of each content, one good and one stray record, 1 upset, fair | `ArchivedGone`, `StraysStay`, `Converged` |
| `xite_clone` | 1 seeder, 2 files, 2 versions, a visitor and the retry loop, 2 faults, fair | `StoredWhole`, `Released`, `GateOpens` |
| `optional_files` | 2 files of 2 units in 2 directories, cap of 1 unit or none, 2 rounds, 2 moves of the user, fair | `PromiseKept`, `PassStops` |
| `backup` | 2 threads, 5 files of 2 components, an older node's archive at hand, 2 requests, 1 edit, 2 crashes, restarts or failed steps (removals too) | `SafetyNet`, `RestoreExact` |

One run checks something the repository says and the code does not do; TLC finds
the violation. `PROJECT.json` quotes the lines under "findings".

* `user_content_kept` (`RecordsKept`): a merge sweep during a chain outage knows no
  signer, so none of the stored records verifies; one peer answers, the number of
  records has changed, and the shrunken set is written. `merge.rs` says the merge
  never removes a version, `state.rs` that it is always safe to run. (`Converged`
  holds all the same: the next sweep brings the records back from a node that
  still has them.)

### Counterexamples

Six more statements of the repository fail in the models. Their properties stand
beside the ones that hold, and each has a configuration with which TLC shows the
violation (`tlc -config UploadCap.cfg MCUploadServer` and so on); they are not among the
runs, whose properties say how far each statement does hold.

* `UploadCap.cfg` (`CapHeld`): a page request of second 0 is ruled on after one of
  second 1. `decide` rolls the bucket whenever the reading differs from the last
  one (`choke.rs:281`), backwards too, so second 0 starts again from an empty bucket
  and admits more than the cap, which `choke.rs:22` says first-paint bytes never
  pass. `CapHeldInOrder` is what remains: the cap holds for every second no older
  ruling went back over.
* `UploadChoke.cfg` (`ChokedOnlyIfOutnumbered`): the set is marked dirty only if the
  asking peer was not active as of the reading given (`choke.rs:270`). A reading
  older than the last rebuild still finds a peer active that the rebuild left out,
  and it is choked although slots are free; `choke.rs:46` says that with fewer
  competing peers than slots nobody is ever choked. `ChokedOnlyUnderContention` is
  what remains: outside the epochs an older ruling went back over, a connected peer
  is choked only if the set fills the general slots.
* `XiteDeferral.cfg` (`ServesConsistent`): files are replaced in place before the commit
  (`state.rs:5389`), and a deferral leaves them: the node serves new files under the
  old content.json until the rest arrives. `state.rs:5656` says it serves a consistent
  version either way.
* `XiteOverlap.cfg` (`MarkerTrue`): between `files_needed` and the rename of content.json,
  and between the rename and `update_content`, another update runs. A content.json is
  committed over a file another version has replaced, or versions 3 and 2 reach the
  disk in one order and the memory in the other; passes compare with memory, so
  nothing repairs it before a restart. `state.rs:5607` calls content.json the
  completeness marker.
* `UserRevocation.cfg` (`RevocationHolds`): a user's version is verified against the old
  parent and written after the new parent's scan (`xite.rs:391` to `402`). It stays:
  `apply_archived` acts only on entries that changed, so applying the parent again
  does nothing.
* `OptionalHelp.cfg` (`HelpKept`): the cap sweep spares distributed xites and retention
  units but not `optional_help` directories (`state.rs:7422`). With a cap set, and
  the default is 10 percent of the disk (`state.rs:1435`), it deletes their files and
  the retry loop fetches them again, for ever; the comment at `state.rs:7397` wants
  just this loop avoided, and `state.rs:12798` counts these directories among the
  promises. `Promised` therefore counts of a helped directory the files the cap
  spares, and all of them when there is no cap.

### Known deviations

The models also contain the following, found by TLC or by reading for a property.
They have no run of their own; the properties above are stated so that they hold
beside them, and `PROJECT.json` lists most of them as hazards.

* `sched.rs:872`: refill cuts only the first groups of the order, so when their
  holders are exhausted a fetch aborts although a healthy idle peer holds a later
  group; the doc of `Swarm::fetch` (line 978) says it returns when no schedulable
  peer can supply a remaining group.
* `epix-runtime/src/edx.rs:1348`: a foreground guard that ends while another
  starts can store `false` last; the flag is then down while a guard lives, which
  the test comment at line 4606 excludes.
* `conn.rs:264`: a `request_stream` future dropped while it waits for room in the
  lane leaves its waiter in the map for the life of the connection; the comment
  at line 98 says this is what `StreamRx` prevents.
* `store.rs:731`: an `insert_bytes` under way when its object is created and
  pinned by another path writes a record with no reference over it; `pin` (line
  1494) promises eviction never reclaims it. A `revalidate` (line 1752) that reads
  a location just freed by a compaction removes a good object, pinned or not.
* `store.rs:1846`: `retire_extern` deletes a record and its tree without looking
  at `sparse_writers`. A decode then in flight (the record was sparse when it
  began and moved since) marks groups on whatever record is made next.
  `BitsBacked` leaves these histories out (`torn`).
* `store.rs:1047`: an eviction between the two halves of `ensure_sparse` unlinks
  the files of a record about to be inserted. Every write to it fails until
  something reads a marked group and revalidates; an incomplete record without
  marked groups stays (`Wedged` in `Delivered`).
* `store.rs:890`: `materialize` checks that the object is complete before it
  registers the guard that keeps eviction away. Evicted and started again in
  between, a partial file is moved into the xite and recorded as complete; the
  error message there (line 884) says only a whole object becomes a file. With
  `xfile[p] \in {Gone, Groups}` as invariant `FileStream` shows it.
* `backup.rs:671`: a node that dies between the first file of a restore and the
  removal of its plan applies the plan again at the next boot: the trees and files
  just placed are deleted, and nothing is staged to replace them. The node then
  makes itself a new identity. The archives still hold everything (`SafetyNet`).
* `backup.rs:471`: a second restore, or a cancel, removes the staging directory of
  one under way, which goes on, recreates it and writes its plan over the files it
  has left. The comment at line 443 says the presence of the plan means the staging
  completed. `RestoreExact` is stated for restores that were not disturbed.
* `backup.rs:343`: two requests of one kind in one second write the same `.part`
  file; the archive, a safety backup perhaps, is unreadable (`spoilt`).
* `backup.rs:471` and `674`: a `remove_dir_all` that fails is ignored and not counted.
  What it leaves of the staging directory is applied with the next plan, what it
  leaves of a replaced tree stays among the restored files. Nothing is lost by it
  (`SafetyNet`); `RestoreExact` is stated for restores without such a failure.
* `state.rs:5134`: a commit whose write fails leaves the new files under the old
  content.json with nothing deferred. The next pass finds the version again and
  commits it (`Adopted`); until then the node serves the mixture.
* `verify.rs:581`: a version whose timestamp equals the archive cutoff is refused
  (`<=`), while `xite.rs:473` deletes only a strictly older one. A node that
  stored it keeps it and the others refuse it, so they never agree. `ArchivedGone`
  is stated for what the removal promises (`>=`), and is proved for all cutoffs,
  equal ones too; the instance of `user_content` has its cutoffs between the
  timestamps, because with one on a timestamp `Converged` fails.
* `xite.rs:401`: a node with an archived content.json left over (`UserRevocation.cfg`)
  never agrees with the others: the exception `Leftover` in `Converged`.
* `state.rs:13070`: the retry loop's clone, spawned before `remove_xite` took the
  entry, registers and saves the xite again; the comment in `remove_xite` says it
  stays deleted across restarts.
* `state.rs:12632`: with `full_retention` on, a xite whose on-demand switch is set
  and whose help-distribute switch is not belongs to neither retry loop, so a
  file missed once is not tried for again. `Promised` leaves the case out.
* `state.rs:12522`: the reader's consent is recorded after the switch is saved; a
  switch turned off in between leaves the consent behind.
* `state.rs:10592`: a sweep that drops one record and gains another finds the same
  count and writes nothing, for as long as the dropped one is on disk (the
  exception in `Converged`).
* `state.rs:2863`: `xites.json` is written in place; a crash in the middle of the
  write leaves a file that does not parse. The models take the write as whole.

**Bounds.** Every bound is a named constant of its module. They are small but each
is above the point where the interesting case appears: two holders of one group
(races and splits), more peers than accounts (eviction), fewer permits than
requests, lanes of capacity 1 (every send can block), slabs of two objects (a
slab that is partly dead, so that compaction moves something), three slab ids
(a freed one, a full one and an open one) and 5 calls (insert, remove, evict or
compact, against an insert or a read). `DeadNum` 0 makes every sealed slab worth
compacting, which gives compaction the most to do; the proofs hold for every
value.

In the xite models: two nodes are enough for every race of a push, a pass and a
retry at one node, which is where the state is; a third would only relay. Two
files, of which one changes in every version and one in some, make a directory
that can be whole for one version and torn for another. Three versions let an
update overtake a deferred one. Faults (restarts, outages, deletions, refusals,
evictions) are counted by one constant per module; `MaxTasks` and `LetIn` bound
how many tasks of a node overlap, two being what every property needs to go
wrong. `MaxLag` 1 is enough for rulings out of order: a reading is either of the
second of the last ruling or not. `upload_governor` leaves out links cut under their
loop, which `upload_permits` has, and lets only one peer earn credit (`Bounded`). The
mutants show that each property can fail within these bounds.

**Symmetry** is used only on safety runs, over values the module does not tell
apart: requests in `upload_governor`, objects and threads in the slab runs,
threads and name slots in `backup`.

**Deadlock** is checked except in the `ConnMux`, `SlabStore`, `XiteUpdate`,
`FileStream` and `OptionalFiles` runs, which really may stop: all calls have ended
and the connection is closed; all bounded calls are spent and the store is idle;
every version is signed and adopted; the player and the user do nothing more.

**Fairness.** It is on what the code's runtime polls or what a timer bounds. It is
weak except where two things must alternate, and where it touches the network it
says only that the network does not fail for ever.

* `SwarmFetch`: the loop takes a step when it can (tokio polls a ready task; the
  idle sleep ends), and some batch in flight answers, stalls or hits its cap
  (each request has a deadline). Nothing is assumed of the dialer, other swarms,
  cool-downs or the store.
* `UploadServer`: a loop holding a request takes a permit or times out, a handler
  goes on (queue wait and stalled sends have deadlines). Nothing is assumed of
  peers, of players or of the clock.
* `ConnMux`: tasks that can run are polled and callers poll what they wait for.
  Nothing is assumed of deadlines, errors, shutdowns or abandonment.
* `FileStream`: some task that can go on does (`Work`), and so do the read, the
  move and the check among them. Nothing is assumed of players and downloads that
  ask; failures are bounded by `MaxFaults`.
* `XiteUpdate`: tasks go on; the resync loop, which ticks every five minutes, begins
  a pass again and again between its retries (strong), in the end asks a peer that
  has a newer version, and in the end fetches a file that a peer offers again and
  again (strong). Nothing is assumed of pushes, hints and retries, so `Adopted`
  shows what the loop alone guarantees.
* `UserContent`: tasks go on, both loops of a node come round (strong: they wait for
  each other under `MaxTasks`), the chain comes back. `Converged` speaks of the time
  after the last push.
* `XiteClone`: callers, the retry loop (every few seconds), the update pass and a
  deletion under way go on. `GateOpens` asks for a seeder that stays reachable.
* `OptionalFiles`: passes, sweep, both ticks of the retry loop, a save under way and a
  confirmed grant go on; a retry reaches its next directory before another task's
  pass does, if not every time (strong: the gap between two directories is a few
  instructions). Nothing is assumed of the user.

## 4. The proofs

TLC checks the instances above; TLAPS checks the following for every value of the
constants that satisfies the named assumptions. Those say that sizes, limits and
bounds are naturals (positive where the code divides by or counts down from
them), that a peer has a class, a reply at least one frame, a window a first and a
last group and a version a manifest, that the sets of files and streams are finite
where the code counts them, that the registry and the xite's tree are one component,
that later versions of a user's content have later timestamps and that the nodes do
not start with a content their users' content.json archives, and that the reserved
values are not objects, threads, tasks or requests
(`ConstantsAssumption`, `PeersAssumption`, `ChokerAssumption`, `ServerAssumption`,
`NoReqAssumption`, `SlabAssumption`, `MuxAssumption`, `StreamAssumption`,
`CloneAssumption`, `XiteAssumption`, `UserContentAssumption`, `BackupAssumption`). The
bounds on faults, requests and versions are constants like the others, so a theorem
holds however many there are.

Each proof module has the same layout: the inductive invariant `IInv` as a
conjunction of named parts, lemmas about the operators and the records, one lemma
per action (or group of actions) that says the step keeps `IInv`, the theorem
`Invariance == Spec => []IInv`, and the results read off it. Each `IInv` was
checked by TLC on an instance before it was proved.

### SwarmFetchProofs

`IInv` is `TypeOK`, `LedgerExact`, `ReportExact` and four facts without which a
step could break them: a handle in the channel has a roster slot waiting for it
(`SlotsInv`); the set of batches is finite, no batch is empty and every primary is
in the roster (`LedgerInv`: the ledger counts batches); the order lists a group
once, misses no needed group that somebody holds, and has nothing needed before
the cursor (`OrderInv`: this is what makes the cursor safe to advance and a
joiner's groups reachable); what is left of the slice is needed and not yet
booked (`SliceInv`: the slice is cut in one step and handed out in later ones).

* `Invariance`: `Spec => []IInv`; from it `TypeCorrect`, `LedgerCorrect`,
  `NothingStranded` (`NoStrandedGroup`) and `ReportCorrect`.
* `RacersCorrect` (`RacersHoldBatch`). A race's targets are a prefix of a ranking
  (`FirstFew`), so that there are at most `MaxDuplicates` of them is a counting
  argument: the rank maps the set one to one into `1 .. MaxDuplicates`.
* `RevivalsEarned` (`RevivalEarned`), an action property: of all the steps that
  write a fail counter, only a delivery and the last-peer probe lower one.
* `Refinement`: `Spec => ImplementsContract`, the scheduler implements
  `FetchContract` with `missing` the remaining groups, `stored` the groups
  present and `status` read off the program counter.

### UploadServerProofs

Permits are counted: a counter equals the number of handlers in the states that hold
one (`PermitsExact`), so every step that moves a handler is an argument about a
finite set that gains or loses one element. It rests on `HeldProper`: the request a
loop holds while it waits is one of its own that is still waiting, so no request is
started twice. `FetchesExact` does the same for foreground guards: the counter is
the number of guards alive (the flag beside it is not, see the deviations), and so
is never decremented below zero.

That an account counts its serve loops (`ConnsPaired`) is not inductive alone.
Making room in the table evicts accounts; `Tracked` says that an account not in the
table has no connections, so an account made anew never starts below the truth. That
eviction spares connected peers is proved of the operator (`Choker`'s `Touched`), for
whatever order a hash map yields its victims in.

`CacheSound` bounds the unchoke set by a ranking: the peers ahead of a peer number
less than the slots. The lemmas on rankings (`Ranks`) show that such a set has at
most that many members, and all members when there are no more candidates than
slots; the second half is what `ChokedOnlyUnderContention` needs. `Spared` carries it
from the moment the set is built to the moment it is used: unless a ruling went back
over the reading it was built with, a clean set leaves a connected peer out only when
the general slots are given or the peer was quiet then, and a request of a quiet peer
with a later reading makes the set dirty before it is looked at.

A handler reads the clock before it takes the lock, so rulings come in any order of
their readings, and every theorem is for every `MaxLag`. `BucketFollows` ties what was
admitted for a second to the bucket: for a second that nothing went back over (`late`),
the bucket still holds it while it is the last second ruled on, and nothing was admitted
for later ones. The exception is needed: without it the two properties are the ones
`UploadCap.cfg` and `UploadChoke.cfg` show violated.

* `Invariance`, `TypeCorrect`, `PermitsCorrect` (`PermitsExact`),
  `ConnectionsPaired` (`ConnsPaired`), `CacheCorrect` (`CacheSound`),
  `BucketCapped` (the bucket itself never holds more than the cap), `CapKeptInOrder`
  (`CapHeldInOrder`) and `ChokingContended` (`ChokedOnlyUnderContention`, an action
  property).

### SlabStoreProofs

"A record addresses its own bytes" is not inductive: it needs to know where the
next append goes. `IInv` adds: the one unsealed slab is the highest of the index
and nothing lies on disk beyond it (`IndexInv`, `OpenInv`), so a slab id is
never used for two files; the open file is as long as the tracked length, plus
one while a thread is between its append and its commit (`AlignInv`, `LockInv`);
records point below the indexed length at bytes of their own object, or past the
end of a file that lost its tail (`RecInv`); a reader's remembered location still
holds its object if it holds anything, and a compaction's list covers every
record still in the slab it will drop (`ThreadInv`). The last part is the heart
of compaction: new records go only to the open slab, which is above every victim.

* `Invariance`: `Spec => []IInv`; from it `TypeCorrect`, `OpenAlignment`
  (`OpenAligned`), `Addressing` (`SlabAddressed`) and `HonestReads`
  (`ReadsHonest`).
* `InvisibleCompaction` (`CompactionInvisible`) and `SparingEviction`
  (`EvictionSpares`) are action properties proved from the same invariant.

### ConnMuxProofs

That nobody is stranded is a race of two flags: a caller registers, then looks at
`closed`; a task that stops raises `closed`, then clears the map (`FlagRaised`).
That a reply is complete needs to know where every frame of a stream is. While a
caller expects frames, the Data frames of its stream are numbered without a gap:
those received, those in its channel, perhaps one parked at the reader, then those
on the wire, then those in the lane of its class, up to the last one sent
(`ChannelExact`, `PipeExact`). The frame marked last is the one numbered `NFrames`
(`FramesHonest`), and there is one request per stream, so one sender
(`RequestedOnce`). A gap opens only when the socket dies, and then nothing behind
it reaches the reader.

* `Invariance`, `TypeCorrect`, `NoCallerStranded` (`NobodyStranded`) and
  `RepliesComplete` (`StreamComplete`).

### FileStreamProofs

`sparse_writers` counts exactly the decodes and the moves (`WritersExact`), and an
eviction that unlinks runs with nobody counted (`UnlinksAlone`). So a decode keeps
its record unless `retire_extern` took it (`RecordKept`), a decode whose file is
gone is known to write elsewhere (`GoneIsStale`), and such a decode meets no sparse
record with a file it could mark (`StaleHarmless`). Without the last part a
decode could mark groups on a record made after it had opened its file; `torn`
histories are where it does (section 3).

* `Invariance`, `TypeCorrect` and `MarkedIsStored` (`BitsBacked`).

### XiteCloneProofs

The in-flight mark admits one clone at a time (`OneClone`). Outside `mixed`
histories the clone finds the directory as it left it: no content.json while it
races for one or has one staged, else the one it resumes (`CallersPlaced`), and it
commits the version it fetched for (`CallersProper`). An update pass works for a
signed version (`UpdateServed`).

* `Invariance`, `TypeCorrect`, `ClonesApart` (`OneClone`) and `CloneStoresWhole`
  (`StoredWhole`).

### XiteUpdateProofs

For a node whose tasks never overlapped on different versions: the tasks at work
are all for one version (`SameVersion`), one about to commit with nothing missing is
still right about that (`LandTrue`), one that has committed has its version on disk
over its files until it is done (`AdoptTrue`), memory differs from disk only with a
task about to adopt (`MemTrue`), and with nothing at work or deferred the files are
those of `Placed`, the version on disk or the one whose write failed (`RestTrue`);
together they are `Settled`. That tasks of the same version do no harm to each other is
part of it: they land the same contents. A commit that fails keeps all this because the
version it leaves behind is remembered; the next commit of the node, of any version,
has checked the directory anew. `OwnerAhead` (nothing is anywhere before the owner
signed it, and nothing is at work on the owner) makes signing a step that disturbs no
update.

* `Invariance`, `TypeCorrect`, `OwnerLeads` (`OwnerAhead`) and `AtRestConsistent`
  (`UntangledConsistent`).

The second part of the module is about `UserContent`, as an instance (`User`): a
user's directory is kept up to date by the same pushes and passes, and the two
specifications share their nodes (`Replicas`) and the names of tasks and pushes. The
properties come from `UserDirectory`, which `UserContent` extends too. Its theorems name
`UserContentAssumption` as their hypothesis and use nothing of `XiteUpdate`.

A user's content.json is verified against the parent on disk, written later, and a
parent removes the contents it archives after it was written; other calls of the node
may come between any two of these steps. `ArchivedGone` holds on a node whose calls for
the parent never overlapped another call (`crossed`), and `NodesOk` is what makes it
inductive: there, a call for the parent is the only call (`Apart`), a user's content
about to be written is newer than the cutoff of the parent on disk, the copy a new
parent is compared with is the one it replaces, and a scan is by the parent on disk
(`Fresh`). It also has to be known that whatever is stored, carried or pushed is a
version of its own path and that a parent is always there (`Stored`, `InTransit`,
`UserTasksOk`). Without the exception the property is the one
`UserRevocation.cfg` shows violated.

`StraysStay` needs to follow a record through a merge, which reads, waits for peers
and writes later: the records a task has gathered contain no stray but the node's own
(`UserTaskOk`), because inbound records are verified each time they are merged, with
the signers known at that time or none.

* `UserInvariance`, `UserTypeCorrect`, `ArchivedStaysGone` (`ArchivedGone`) and
  `StraysContained` (`StraysStay`).

### BackupProofs

That a destroyed content is in an archive has to be known before it is destroyed.
`IInv` says (`Net`) that every content a plan may still destroy, one of its
components that is not newer than its stamp, is kept: in a readable archive, or in
one the user deleted (`PlanPaid`). Before there is a plan, the safety backup owes
these contents, first from its list or its `.part`, then from the sealed archive
(`SavePays`), and its `.part` is its own (`PartOwn`). A restart in the middle of a
boot applies the plan again, over files the plan itself has placed: what was staged
came out of a readable archive, so destroying it loses nothing (`AllKept`). The
copy of the legacy registry puts an old content under a new name of the same
component, which is why the debt is counted by component and not by file. All of
this holds until two requests share a `.part` (`Secured`; see section 3).

That a restore gives back its archive needs that one which is still alone finds
only its own files in the directory, from the first entry (`StagesAlone`) to the
plan (`PlansAlone`) and through a clean apply (`PlacedExact`). A removal that leaves
something behind (`Scraps`) only shrinks what is staged, so the debt of the plan does
not grow; it makes the restore that meets the remains not alone, and one whose tree
could not be cleared not clean.

* `Invariance`, `TypeCorrect`, `NothingLost` (`SafetyNet`) and `RestoresExactly`
  (`RestoreExact`).

### Only model-checked

`FetchReturns`, `Answered`, `CallsEnd`, `Delivered`, `Settles`, `Adopted`,
`UriReleased`, `Converged`, `Released`, `GateOpens`, `PromiseKept` and `PassStops`
are liveness under fairness, outside this prover. `RecordsKept` and the properties of
the counterexamples are violated (section 3). Every other property of a run, and with it every invariant that
holds, has a theorem.

## 5. Not modelled, and why

* Latency estimates, pacing, LRU order: heuristics; the choices they make are
  left open, so the properties hold whatever they choose.
* The token bucket of `pace.rs`: its promise is statistical.
* Frame and message encoding, Noise, hashing: a group is verified or it is not.
* The control handlers of the server: they read the store and answer, one action.
* `Pool` in `conn.rs`: nothing outside its tests calls it.
* Adoption of external files, the reservation bound, quota arithmetic and the hash
  trees of the store: an object is complete or not, a group verifies or not.
* Dialing, the link pool and `GetMany` of the runtime: a session is there or fails.
* Bundles, patches, certificates, size rules and the database behind user content.
* The UI's HTTP and WebSocket layer and its commands: they end in the operations
  modelled here; what remains is conversion and display.
* Everything else the tables in section 1 do not name, with reasons in
  `PROJECT.json`. The workspace has some 95,000 lines, of which the map covers
  about a ninth: the state machines that several tasks share. Most of the rest is
  parsing, views, cryptography, tests of formats and platform code, in which there
  is no state for a model checker to explore.

## 6. Plan

Done: (1) `SwarmFetch`, `FetchContract`, their proofs; (2) `Choker`,
`UploadServer`; (3) `ConnMux`; (4) `SlabStore` and its proofs; (5) `FileStream`;
(6) `XiteUpdate`; (7) `UserContent`; (8) `XiteClone`; (9) `OptionalFiles`;
(10) `Backup`.

The safety properties of (1) to (8) and of (10) are proved; those of (9) are
liveness. What would be worth proving next is about the operators more than about the
runs: that `Decide` admits a first-paint request whenever the bucket has room, and
an abstract specification of eventual agreement that `UserContent` and `XiteUpdate`
both implement.

Modules that would come after: `GetMany` and the link pool of the runtime, the
BitTorrent engine, the propagation log.
