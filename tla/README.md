# SubaSync in TLA+

A TLA+ model of SubaSync, a peer-to-peer folder synchroniser, with TLC runs that
check it on small instances and TLAPS proofs for every value of the constants.
Paths below are relative to the repository (`src/` in `PROJECT.json` is its root).

| module | what it is |
|---|---|
| `ChunkTransfer` | abstract specification of one multi-source file transfer |
| `SwarmDownload` | `run_swarm_download`: worker threads, job queue, peer slots |
| `PathUpdate` | abstract specification of what a call does to one path |
| `FileSync` | how one path comes to hold announced content: download, conflict, accept, force |
| `DirGuids` | the two tables of directory GUIDs, as values, one operator per call |
| `DirGuidRegistry` | the scan, the commands, downloads and restarts that change those tables |
| `PeerConnections` | discovery, dialing, binding and losing connections |
| `Requests` | requests for chunks and listings over those connections, and their callers |
| `Watches` | the watched directories: commands, the watch loop, `watches.json` |
| `ShareIndex` | the index of shared files, the scan that keeps it up, serving chunks of it |
| `Conflicts` | the conflict queue, the preview of a conflict, the ignore rules, their mutexes |
| `*Proofs` | theorems about the module they extend |
| `MC*` | constants for TLC; each `.cfg` names the run |

## 1. The system

One process is one peer. It runs

- one **io thread**, the only thread of the asio `io_context`. Every handler of
  `Connection` and every `PeerManager::handle_message` runs there, one at a time,
  as do the accept loop and the 2 s connect timer of `MeshEngine`;
- the **CLI thread**, which reads commands and runs them to completion;
- the **watch thread** (`MeshCLI::watch_loop`), which syncs each watched directory
  every interval;
- for each download a pool of **swarm workers**, a refresh thread that looks for new
  providers and a progress meter.

Locks nest in the order `share_index_mutex_`, `watch_mutex_`, `dir_guid_mutex_`,
`PeerManager::m_`; `conflict_mutex_` and `ignore_mutex_` are leaves, except where the
code locks one of them twice (below). A swarm has two mutexes of its own.

### Components, their state and their operations

| component | state | operations | interacts with |
|---|---|---|---|
| swarm downloader (`swarm_downloader.cpp`) | job queue, counters, flags, peer slots, per-chunk attempts and states | take, acquire, fetch, requeue, complete, add peer, join | file download (call and result), requests (fetch callback) |
| file download (`MeshCLI.hpp` 911-1700, 4071-4116) | the share path, its staging file, the archive | download, verify, retry, place, register, queue, accept, force | swarm, share index, conflicts, watch loop |
| conflicts (`MeshCLI.hpp` 3480-3850, 3990-4069, 4118-4230, 4370-4440) | the queue, the staged preview and the stage directory, the ignore rules | queue, accept, ignore, stage, unstage, add and remove rules | file download |
| directory GUIDs (`peer_manager.cpp` 279-500, `MeshCLI.hpp` 3855-3949, 5021-5321) | path/GUID maps, GUID records, cache, dirty flag, `dir-guids.json` | scan, assign, forget, register, load, save, reconcile | listings (which run the scan), watches |
| peer connections (`peer_manager.cpp`, `connection.cpp`, `mesh_engine.cpp`) | `peers_`, `connections_`, `in_progress_connects_`, each `Connection` | discover, dial, accept, announce, bind, read, write, close, destroy | every request goes over a registered connection |
| requests and listings (`peer_manager.cpp` 586-809, 1013-1149; `MeshCLI.hpp` 4841-4912, 1702-1760) | pending handlers by request id, promises of the blocked callers | request, answer, time out, aggregate | io thread answers, other threads wait |
| watches (`MeshCLI.hpp` 1804-2162, 2872-3303) | watch records, next run, origin, trusted peers, `watches.json` | add, set, remove, run, save, load | file download, listings, GUIDs |
| share index and serving (`peer_manager.cpp` 338-361, 500-585, 909-1011; `MeshCLI.hpp` 4450-4560, 4680-4720, 5269-5321) | hash to entry, path to hash | scan, share, register, list, serve a chunk | listings (which run the scan), downloads |
| settings, chat, engine start and stop, logging, command line | see section 7 | | |

### What is hard here, and what makes each component correct

- *Swarm*: several threads sleep on two condition variables, one of which is tested
  against flags that the **other** mutex guards; failures, the end and a late provider
  race. Correct means: no chunk lost or doubled, no slot leaked, no worker left asleep,
  the verdict and the reason right, and the call returns.
- *File download*: two threads run the same code on the same staging path with no lock;
  the existence check, the transfer (minutes) and the rename are far apart; renames,
  copies and archiving fail. Correct means: only verified content is registered, no
  local file is overwritten, staging is tidy, calls return.
- *Directory GUIDs*: two tables under two mutexes, updated by three activities, stored
  in a file that is written only when a flag says so. Correct means: the two maps are
  inverse, the cache is backed by records, a skipped save loses nothing.
- *Connections*: duplicate connections, a `close()` and a destructor that both report the
  loss of a **peer** rather than of a connection, announces of third parties on the same
  socket. Correct means: the tables agree, only live connections are registered, a
  connection stands for the peer at its other end.
- *Requests*: late answers, silent peers, connections lost between lookup and sending,
  answers after a timeout. Correct means: a handler runs once and when it should, none is
  left behind by a chunk request, a request reaches the peer it is for.
- *Conflicts*: downloads of two threads queue while commands accept, stage and ignore;
  previews are files that outlive the state pointing at them; two mutexes are locked
  again by their holder. Correct means: no conflict twice, no preview lost or left over,
  nothing stuck that the code does not lock for good.
- *Share index*: a cache that nothing invalidates, filled by two threads from files the
  user changes between the reading of hash, size and chunk. Correct means: a request gets
  the content it names while the file is left alone, and scans catch up with changes.
- *Watches*: the watch thread and the CLI thread work on copies of a watch while the
  other thread changes or removes it. Correct means: removed stays removed, no peer is
  trusted unasked, the file keeps up, every watch gets its turn.

`PROJECT.json` lists every hazard at its line with the properties that would catch it.

## 2. Plan

Order: what moves users' files first, then what names and finds them.

1. `ChunkTransfer`, `SwarmDownload`, refinement, proofs - done.
2. `FileSync` (uses the promise of `ChunkTransfer` for the transfer), its abstract
   specification `PathUpdate` and the refinement, proofs - done.
3. `DirGuids`, `DirGuidRegistry`, proofs - done.
4. `PeerConnections`, proofs - done.
5. `Requests` (composes with `PeerConnections`, whose specification it implements),
   proofs - done. A listing by GUID, path or hash of one peer is a `ListCalls` call: the
   requests differ only in their argument.
6. `Watches`, proofs - done.
7. `ShareIndex`, proofs - done; `FileSync` starts with any hashes in the index already.
8. `Conflicts`: queue, previews, ignore rules and both mutexes, proofs - done.
9. Theorems for every invariant a run checks - done.
10. For each liveness property, and for the promise the code does not keep about dials, the
    part that needs no fairness, as theorems - done for all but the swarm's
    `DownloadReturns`, which would need a measure of its sleeping workers.

Runs stay at one or two per component (two where one would need assumptions the other
must not make: `FileSync`); bounds are the smallest at which every action
fires and each mutant of section 4 is found.

## 3. How the modules correspond to the code

### SwarmDownload

A step is one critical section of a worker or the local work between two. `pc[w]` names
the place: `take` (line 199), `acquire` (121), `block` between the predicate of
`peer_capacity_cv.wait` and its sleep, `capacityWait`/`jobWait` asleep, `fetch` (241),
`missing`/`corrupt`/`received` for what came back, `commit` (280), `giveUp` (235).
Separating `acquire` from `block` is what lets a notification be lost, as in the code.
`notify_all` follows its unlock at once and is part of the same step. Replies of a peer
and the result of a write are nondeterministic. `Replies` and `DiskOutcomes` say which
are possible. Left out: statistics, the meter, the chunk's bytes.

`ChunkTransfer` is what the caller relies on: chunks are written in some order and the
call returns once, `succeeded` only with all of them and `failed` only without.
`SwarmDownload` implements it with `written` the chunks whose state is 1 and `outcome`
the verdict.

### FileSync

One path, its staging path, and inodes, since a thread goes on writing through an open
stream after another thread renamed or removed the name. Each step is one file-system
call or one critical section: `Lookup` (index), `CheckDestination` (existence and hash of
the file there), `OpenStaging` (truncating open), `WriteChunk` (from all providers, or
from the trusted ones in the retry), `Verify` (hash of the staged file), `Mismatch` (the
one retry), `Place` (rename, else copy), `Register`, `QueueConflict`; `BeginAccept`,
`ArchiveExisting`, `RemoveConflict` for `conflict accept`; `Purge` for `sync force`.
`LocalEdit` is the user, who writes the path only while every call is at one of
`EditPlaces`. Contents are `h` (what the peers announced), `bad`, `zero` (truncated) and
`local`. The index may name any of the hashes from the start, as `ShareIndex` allows. A
conflict that is dropped leaves the thread at `hung`: see `Conflicts` and section 6.

`PathUpdate` is what a caller may rely on for the path: a call puts the content it was
asked for into an empty path, or leaves the path alone, or (a copy cut short) leaves a torn
file and reports failure; it reports success only with that content there or the hash
shared already; an accept archives what it takes away; no ignored hash becomes a conflict.
With one thread `FileSync` implements it: `file` is the content of the inode at the path
(`AtPath`), `phase` the part of the call (`Phase`), and staging, streams, the check of the
hash, the retry and the copy are invisible. With two threads it does not (`FileSyncRace`).

### Conflicts

An item is a path with the hash offered for it; a key is what a command names, a path, a
hash or a directory, with the items a command finds for it (`Match`) and those an ignore
rule covers (`Rule`: the path itself, not what is below). A download of either thread goes
`differs`, `queue`, `insert`: the ignore test of the download, that of `add_conflict`, and
the insertion. Commands run on the command line thread: `Accept` takes a copy of the
matches, `ForceDownload` tries one (its download is `FileSync`), `ClearAccepted` drops its
preview, `Drop` its entry; `Ignore` and `IgnoreAgain`; `Stage`, `BeginPreview`,
`PreviewFails` or `PreviewVerified`, `PointAtPreview`; `Unstage`. A critical section that
calls nothing is one step. The two that call what locks the mutex again end at `relock`
and `saving`, with `conflictOwner` or `ignoreOwner` held and no step leading on. Left out:
providers and timestamps, `list` and `view` (they only read), the text of `ignore.json`.

### ShareIndex

A hash stands for its content. `disk` is the share directory, `entries` and `hashAt` are
`shared_files_by_hash_` and `path_to_hash_`. A scan (`BeginScan`, `Visit`, `EndScan`) holds
`share_index_mutex_` (`owner`) throughout; `Visit` passes over a file whose recorded size is
its size. `HashFile`, `Measure` and `Register` are the three moments of
`share_single_file`, which the share command (`Share`) reaches without the mutex. `Deliver`
is the end of a download. `Ask` copies the entry of a request under `m_`, `Respond` reads
the file after that. `clock`, `changed` and the `at` of an entry are history: they say
whether a file changed since it was hashed. Left out: the directories of the listing
(`DirGuids`), a share root that is one file.

### DirGuids and DirGuidRegistry

`DirGuids` gives each table after one call as a value or a set of values (hash-table
order and random draws are choices). `DirGuidRegistry` runs them: the scan of
`index_share_root`, `guid assign` and `guid forget`, directories made by downloads,
stop, crash, load and apply. A step is one critical section, so another activity can run
between a lookup in one table and the update of the other. Left out: origins, printed
hints, the text of the JSON file.

### PeerConnections

One peer, seen from inside; the remote peers are the environment and run the same code,
which is where `Announces` comes from: a peer's own announce is the first thing
`Connection::start` sends and the only one with the default TTL. A `Connection` goes
through `open`, `broken` (a write failed and closed the socket, the read handler is
pending), `closing` (the reverse), `closed` (only posted sends hold it) and `gone` (after
the destructor). `Close` and `Destroy` both call `OnDisconnected`. Left out: addresses,
forwarding of announces (no state changes here), the bytes queued for writing.

### Requests

`Requests` EXTENDS `PeerConnections`: its next-state relation is a step of the
connections (`ConnectionStep`, which also drops what was under way on a connection that
broke) or a step of a call or an answer that leaves the connections alone. A caller is on
another thread than the handlers, so the lookup of the connection with the registration
of the handler (`Register`), the second lookup with the sending (`Send`) and the wait
(`Wait`, `Return`, `TimeOut`, `Cancel`) are separate steps. `left` is
`AggregateContext::pending`, `fired` counts the runs of the call's own handler. An answer
to a chunk request uses the connection of the request, an answer to a listing whichever
connection the peer has then. Left out: the listed items, and requests of other peers to us.

### Watches

`watches`, `due` with `before` (the watches whose `next_run` has passed, and which of them
before which) and `file` are the state; `pc` and `copy` say what each of the two threads is at and which copy of a
watch it runs. A command changes the watches in one step under `watch_mutex_`, then
`Save` (snapshot and truncation), `Write`, and a run of the copy (`List`, `StoreOrigin`,
`Sync`) on the command thread. `Pick` is one turn of `watch_loop`. Which trusted peer
answers a listing and which origin its root entry names are choices. `active_path_for_guid`
is any mapping, chosen anew by each command. `granted` and `gone` are history: which
peers a command named for which directory, which ids were missing when the file was last
written. Left out: entries without a GUID (files of older versions), the intervals
themselves, `set_directory_origin`, printing.

## 4. The runs

Every property of a passing run has a mutant in `PROJECT.json`: a plausible bug in one
mapped definition under which TLC finds the property violated in the same configuration.

| run | what it asks | bounds and why they suffice |
|---|---|---|
| `Swarm` | `JobsAccounted`, `SlotsAccounted`, `NoStuckWaiter`, `FailureIsGenuine`, `RetriesBounded`, `NoFetchAfterStop`, `DownloadReturns`, and `ImplementsTransfer` with its liveness | 2 chunks, 2 workers on the 1 slot of a provider, 1 late provider: workers queue, sleep and are woken by each of the four notifiers; retries reach the budget |
| `FileSyncAlone` | `VerifiedWhenRegistered`, `RetryRepairs`, `OldCopyKept`, `ImplementsPathUpdate` | the command line alone, two hashes of which one is ignored, providers of which only the trusted are honest, failing transfers and torn copies, accept and force, one edit by the user before the check of the path |
| `FileSyncShared` | `SettledIsWhole`, `StagingIsTidy`, `CallsReturn` | both threads and one content, honest providers, one edit while no transfer runs; two chunks, so that a file can be half written |
| `GuidChain` | `MapsAgree`, `CacheBacked`, `CleanMeansSaved` | root/a/b, a watch on a, 3 own and 1 foreign GUID, one command, one change on disk, one stop or crash: every pair of activities overlaps |
| `Requests` | `HandlerRunsOnTime`, `ChunksLeaveNothing`, `RequestsReachThePeerMeant`, and of the connections `BoundToTheOtherEnd`, `TablesAgree`, `RegisteredIsAlive` | two peers, room for one, two connections alive at a time: duplicates, overflow, late destructors; one chunk request and one listing of all peers, each at any moment |
| `Watches` | `OnlyNamedPeersAreTrusted`, `RemovedStaysRemoved`, `FileHoldsTheWatches`, `DestinationsApart`, `WatchesRun` | one saved watch and a second id, two GUIDs, two peers, one path; two commands and one crash: each command meets a run of an old copy, another command's result and a half-written file |
| `ShareIndex` | `ServedAsAsked`, `IndexCatchesUp` | two files, three contents of which two have one size, scans by both threads, the share command, downloads, and two changes: a file changes between any two of hashing, measuring, registering and serving |
| `Conflicts` | `QueuedOnce`, `PreviewsAccounted`, `StuckOnlyByRelock` | two contents offered for one path, named by the path, the directory above and one hash; two ids and two names of previews, one perhaps left by an earlier run |
| `FileSyncRace`, `ConflictsAccept`, `GuidShift`, `ConnectionsStuck` | a promise of the documentation the code does not keep | section 6 |

Each `TypeOK` (`RequestsTypeOK` includes that of the connections) is checked with the
component's main run. Deadlock is checked for
`Requests`, whose timer always ticks; the other runs model calls that end or are
bounded, so they may stop.

Bounds that are not the code's: `MaxEdits`, `EditPlaces`, `MaxArchived`, `Inodes`
(FileSync), `MaxChanges` (ShareIndex), the number of `Ids` and `Files` (Conflicts; a
queue that is full takes no more, and a name is made of the second, so two previews of
one second share it),
`MaxDiskSteps`, `MaxCommands`, `MaxRestarts`, the number of GUIDs (DirGuidRegistry; a
GUID is never drawn twice, as with 128 random bits), `MaxDials` and the number of
`Conns` alive at a time (PeerConnections),
each call made once (Requests), `MaxCommands`, `MaxRestarts` and the number of `Ids`
(Watches; an id is 64 random bits and never drawn twice). `FileSyncAlone` uses a view that forgets the
content of inodes nobody can reach. Symmetry is used only where the specification
treats the elements alike and no liveness is checked: own GUIDs; peers and connections.

### Fairness

- Swarm: weak fairness of each worker's steps, since the scheduler runs runnable threads;
  strong fairness of the two steps that lock `peer_capacity_mutex`, since a waiter for a
  mutex gets it although others keep taking it. `fetch` is fair because the fetch
  callback times out after 10 s. Nothing is assumed of spurious wakeups or late
  providers.
- FileSync: weak fairness of each call's steps; the transfer returns because
  `DownloadReturns` says so. No call has to be begun.
- Conflicts: weak fairness of each thread's steps; no command has to be given. A mutex is
  held over several steps only by a thread that waits for itself, so nobody waits unfairly.
- ShareIndex: weak fairness of the steps of a scan, a registration and a response, and
  strong fairness of `BeginScan` for one thread: somebody goes on asking for listings, and
  a thread that waits for `share_index_mutex_` gets it although the other takes it too.
  Nothing is assumed of downloads, the share command or the user.
- Connections (only in `ConnectionsStuck`): the timer ticks and a dial returns.
- Watches: weak fairness of the steps of both threads, of each watch becoming due, and of
  the steps of a run: its listings wait 5 s at most for an answer and its downloads
  return (`DownloadReturns`). That a run always returns is an assumption where a conflict
  is dropped (`ConflictsAccept`). No command has to be given.

## 5. What is proved

All by TLAPS for every value of the constants, from the named assumptions beside the
`CONSTANTS`: `SwarmAssumption` is the early return of lines 40-85; the others say that the
special values are not members, that the structure is a tree, and that the chunks of a
file, the known peers and the files of a share are finite sets, which the counts need.

- `SwarmDownloadProofs`. The invariant is `TypeOK /\ IInv`. The properties are not
  inductive: that no sleeper is stuck needs that a worker sleeps only while every listed
  peer is full (`SleepersSeeNoSlot`) and slots are exactly the fetches (`SlotsAccounted`);
  that a failure is genuine needs that it was raised with a chunk that no worker holds
  (`StopsForAReason`), since a worker holding a chunk may still complete it; counting
  needs `JobsApart`. Proved from it: `SlotsNeverLeak`, `LostWakeupIsHarmless`,
  `FailuresAreGenuine`, `VerdictsAreRight`, `NothingStartsAfterStop`, and
  `PoolImplementsTransfer`, the safety part of the refinement. `JobsAreAccounted` adds
  that `active_jobs` counts the workers with a job (`ActiveCounted`, inductive by itself).
  `RetriesAreBounded` needs `BudgetInv`: the bound on the attempts of a chunk is not
  inductive by itself, for a worker may still hold a chunk that has spent the budget; a
  chunk that has spent it has stopped the download, and a peer that joins only raises it. `RoundRobinFindsTheSlot`:
  whatever the cursor and however the list grew, the probing loop meets the free slot that
  ended the wait, so `acquire_peer_state` does not run off its end.
- `FileSyncProofs`. `StagingNeverLeaks` for any number of threads.
  `AloneRegistersWhatItVerified` and `AloneKeepsOldCopy` for one thread, from
  `AloneInv`: from the check on, the path stays empty, and what was verified is still at
  the staging path when it is moved. Their hypotheses (one thread, no edits from the check
  to the registration; for the second an archive that works) are necessary, as
  `FileSyncRace` shows for the first and section 6 says for the others.
  `AloneRetryRepairs`, from `RetryInv`: the open stream is the file at the staging path,
  and each chunk written in the trusted attempt is right, since opening truncates.
  `SharedSettlesWhole` for any number of threads that share a staging file, from
  `WholeInv`: a file that is not whole has a writer that put the content where it has
  written so far. A second writer truncates it, but then it is such a writer itself.
  `AloneImplementsPathUpdate` is the refinement, step by step: each action of `FileSync`
  is an action of `PathUpdate` or leaves its variables alone. It uses `AloneInv` (what is
  moved was verified and meets an empty path) and the same hypotheses.
  `CallsTakeBoundedlyManySteps`, for any number of threads: a call has at most
  2 |Chunks| + 19 steps, and nobody else sets it back.
- `DirGuidProofs`. `TypeOK`, `MapsAgree`, `CacheBacked` and `CleanMeansSaved` together are
  inductive once `TypeOK` says that a step under way carries a known GUID and never the
  root path. Each operator of `DirGuids` has its lemma; the proof of a step cites them.
- `PeerConnectionsProofs`. `CInv` adds to the three properties that an object that does
  not exist is bound to nobody, so a new connection is not registered anywhere. The
  count `Room` is bounded with the library's finite-set theorems.
  Two action properties follow from it. `PeersAreApart`: what one peer sends, forwards or
  loses may make us discover and dial others, and takes no other peer's connection, state
  or dial away; it needs that a connection is bound to its own end, and that forwarded
  announces carry a lower TTL (the peers run the same code). `FailedDialsStay`: once a dial
  has failed only a connection of that very peer ends its wait, never the timer: what
  refutes `AttemptsGoOn` is not an accident of the size of the run.
- `RequestsProofs`. `RInv` says where a call stands (`Stages`) and counts (`Counts`):
  until a call to all peers has ended, `left` is the number of peers it has still to ask
  or to hear from (`Outstanding`). Each step takes one peer out of that set and one off
  the count, or neither; that is the lemma `NotifyCounts`, which `Answer` and `Fail`
  share. `ConnectionsImplemented` carries the theorems on connections over. Proved for
  any number of calls, peers and connections: `HandlersRunOnTime`, `ChunksLeaveNoHandler`,
  `RequestsGoToThePeer`, `RequestsTypeCorrect` (which says that no handler runs twice).
  `CallsTakeBoundedlyManySteps`: a call has at most 2 |Peers| + 4 steps, each its own; answers
  in any order or none, and connections lost meanwhile, neither add nor take away any.
- `WatchesProofs`. `WInv` adds to the four properties that the file's watches and the
  copies that threads run trust granted peers only (`Granted`), that destinations in the
  file are apart as well (`ApartInv`), since a restart takes them from there, and that
  while the file is being written it agrees with the memory up to origins (`FileInv`),
  which is all the watch thread changes. `ChangeKeeps` treats the three ways a command
  makes or changes a watch at once, `CopiesKeep` every step that changes none.
  `SomeWatchIsFound`: the order of `next_run` among due watches stays strict and finite
  (`QueueInv`) through commands, runs and restarts, so it has a least element whenever it
  is not empty. `NoWatchIsOvertaken`: a due watch keeps its place, and each run of another
  brings it nearer; `sync all`, a restart and a change of the watch itself line it up anew.
- `ShareIndexProofs`. `IInv` says that what was recorded of a file, in the index, in a
  request under way or in the hands of a thread, is right unless the file changed since
  (`RecordsAreRight`), and that nothing was recorded in the future (`InThePast`): so a
  change makes every record of its file an old one and needs no look at who holds it.
  Proved: `TypeCorrect`, `AskedIsServed`.
  `IndexOnlyImproves`: while a file is left alone nothing stale is newly recorded of it,
  and once the records under way are through, a right entry stays right and listed.
  `ThreadsTakeBoundedlyManySteps`: a scan visits each file at most once and a registration
  is not set back, at most 4 |Paths| + 4 steps.
- `ConflictsProofs`. `Staging` adds to the two properties that while a preview is being
  downloaded none is staged, since `BeginPreview` discards the one there is, and that the
  entry a command is at is still queued. Proved: `TypeCorrect`, `NoConflictTwice`,
  `PreviewsAreKept`; and `CommandsTakeBoundedlyManySteps`: at most |conflicts| + 3 steps,
  although the other thread queues on meanwhile, since accept works on a copy.

Every invariant and every action property that a passing run checks is stated by a
theorem, and so is the safety part of both refinements.

Only TLC checks the liveness properties: `DownloadReturns`, the liveness of
`ImplementsTransfer`, `CallsReturn`, `WatchesRun`, `IndexCatchesUp` and
`StuckOnlyByRelock` (fairness and `ENABLED` are out of the prover's reach). The part of the
argument that needs no fairness is proved for all constants: a rank that each step of a
thread lowers and no other thread raises (`CallsTakeBoundedlyManySteps`,
`ThreadsTakeBoundedlyManySteps`, `CommandsTakeBoundedlyManySteps`), a place in a queue that
only gets better (`NoWatchIsOvertaken`), a record that only improves (`IndexOnlyImproves`).
What is left to TLC is that a thread that has a step takes it. For `DownloadReturns` the
proved part is `LostWakeupIsHarmless` and `RetriesAreBounded`: nobody sleeps for nothing,
and no chunk is asked for without end.

The properties that only a theorem states stand beside their proofs. Before they were
proved TLC found each of them to hold on the constants of its component's run.

## 6. Where code and documentation part

The violation runs (each a `finding` with its quotation):

- `FileSyncRace`: two threads share one staging file, so what is registered may not be
  what was verified.
- `ConflictsAccept`: dropping a conflict locks `conflict_mutex_` twice in one thread; the
  command never returns. (Locking a `std::mutex` twice in one thread is undefined; with
  glibc the thread waits for itself, elsewhere `std::system_error` may end the command.
  The models take the first.)
- `GuidShift`: `directory_guid_for_path` looks up a directory as if it were a file, so a
  directory is next announced under its parent's GUID.
- `ConnectionsStuck`: a failed dial leaves the peer in `in_progress_connects_` for good.

The models also do the following because the code does, without a run of their own:
`save_ignore_config` locks the `ignore_mutex_` its caller holds (line 3735), so `ignore add`
never returns and `ignore.json` is never written, where `README.md:93` has rules persist;
two threads that download two different contents to one path may leave a mixture of both
there, the later one writing through its stream into the file the other renamed
(`SettledIsWhole` is for one content);
the attempts of a chunk are counted whichever peer failed, so one dead peer can use them
up; a file saved at the path during a transfer is replaced by the rename (`EditPlaces` leaves
that moment out for this reason); a stale index entry makes a sync succeed over other
content; a record displaced by `guid assign` becomes active again at the next listing,
and a restart may then prefer it; a late destructor unregisters a newer connection;
dials under way are not counted against `max_peers`.
In the index, one path is listed for a hash, the last registered (`peer_manager.cpp:352`);
the size is read after the hash (line 4696), so an entry may pair the hash of one content
with the size of the next; a change that keeps the size is overlooked by every scan (line
5308), and so is the pair above (`Overlooked`). Previews of an earlier run stay in the stage
directory with nothing pointing at them (`orphans`), where `README.md:101` has them kept
until accepted or unstaged. An ignore rule for a directory suppresses nothing below it,
although `conflict ignore` of the directory addresses those conflicts (line 3600).
`archive_existing_file` removes the original although neither rename nor copy to the
archive worked (line 4112: the error code of the copy is overwritten), where `README.md:91`
has the old copy archived; `ArchiveOutcomes = {"lost"}` shows `OldCopyKept` violated.
`watch remove peer:/path` drops the whole watch (line 3218), where `README.md:77` has one
source pruned "without touching the rest of the watch". The same directory added from a
second peer at another path makes a second watch unless the destinations are equal
(line 2952), where `README.md:73` has the trust list grow. An origin that is not itself
trusted is forgotten at each start (line 1846). The run of a copy may store an origin into
a watch that meanwhile follows another directory (line 2145).

## 7. What is not modelled

Settings (values with clamps and a file, used by one thread; the other modules take
them as constants), chat (no state), logging, the command-line parser, base64, `utils` and
`protocol` (formatting and codecs without state), the line editor and printing of the CLI,
`server.cpp`, `client.cpp` and `file_index.cpp` (skeletons nothing uses), start and stop of
`MeshEngine` beyond its timer and accept loop (they run once, around everything else; what
may go wrong at the end is a hazard in `PROJECT.json`). Of the modelled components: several
paths of one sync at a time, the removal of emptied directories, addresses and the
forwarding of announces, what a listing contains, origins of directories, watches saved
without a GUID. Each component's note in `PROJECT.json` says what it leaves out. Data races on the swarm's counters are modelled as reads of the
current value.
