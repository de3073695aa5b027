# A verification of the checkpointing system in TLA+

This directory is a formal model of the Go program in this repository: a small
replicated file service (package `ikkat`), the client library for it, and the
checkpoint store that training workers build on the library. It holds TLA+
modules, the TLC configurations that check them on small instances, and theorems
with proofs that TLAPS checks for every value of the constants. The code is the
reference: every definition is translated from it, and `PROJECT.json` ("map")
names the lines.

## 1. Inventory

### The system

Three servers run `StartServer` (`connection.go`). Each keeps a log, a directory
of files and a few tables; one of them has the role Primary and serves clients.
Workers use the client library, a cache of whole files that are written locally
and sent to the primary when they are closed.

    worker ── ServerHandle ── client library ──gRPC──> primary ──gRPC──> backups
    (ml_worker) (server_handle) (client_basics)   (server_basics)  (server_replication)

| component | code | state | operations |
|---|---|---|---|
| File service | `server_basics.go` | `files` (descriptors), `table` (entries: version, lock), `filesPrimes`, `requests` (answers by request id), `openMap` | Create, Open, Close, Read, Write, Delete, TestAuth |
| Log replication | `server_replication.go`, the middle of Close and Write | `log` in memory and on disk, `commitIndex`, `lastApplied`, the files on disk | append, AppendEntries, commit and apply, RequestRecovery, ApplyUpdate, recoverFromLog |
| Heartbeats and election | `server_replication.go`, `connection.go` | `role`, `primaryID`, `lastHeartbeat`, `Alive` flags | StartHeartbeat, SendHeartbeat, MonitorPrimary, electPrimary |
| Client library | `client_basics.go` | `cache` (version, descriptor, dirty, closed, valid), LRU | Create, Open, Read, WriteFile, Commit, Close, Delete, retries and deadlines |
| Checkpoint store | `server_handle.go`, `ml_common/` | none of its own: three kinds of files | SaveTensors, SaveCheckpointMeta, LoadCheckpointMeta, LoadTensors |
| Training worker | `ml_worker/worker.go` | step, tensors | train, SaveCheckpoint, RestoreCheckpoint |
| Coordinator | `ml_coordinator/coordinator.go` | `workers` (alive, last heartbeat, resume step), `snapCount` | RegisterWorker, Heartbeat, MonitorWorkers, TriggerSnapshot |
| Snapshots | `server_snapshots.go` | `s.snapshot` (who has to acknowledge, who has), a file per server and snapshot | InitiateSnapshot, SendMarker, ReceiveMarkerAck, CheckClientInSnapshot |
| Numbers | `common.go` | none | parseNumbers, IsPrime |

### How the parts interact

* A Close or Write at the primary appends to the log, sends the entry to every
  backup from a goroutine each, waits up to a second for a majority, commits,
  applies, and sends the entry again with the new commit index.
* A backup appends what it has not seen (it compares indexes), takes over the
  commit index and applies. At its start it also asks the leader for its files.
* The primary sends heartbeats, one peer after the other. A backup that hears
  nothing for five seconds marks its leader dead and follows the lowest id left.
* The client library retries Create, Open and TestAuth; Close and Commit are
  tried once. The server recognises a retry by its request id.
* A worker saves each tensor under the hash of its contents, then the metadata,
  then a pointer to the latest checkpoint. All of it goes through Create, Open,
  WriteFile and Close; and Close keeps only the numbers in what it is sent,
  because the file service was written to filter numbers.
* The coordinator hears heartbeats, reads the checkpoint of a worker it takes for
  dead, without its lock, and tells a replacement where to resume. Every two
  minutes it asks the primary for a snapshot.
* The primary records its state and the pointers of the workers, then sends a marker
  to every backup from a goroutine each. An acknowledgement goes to whatever snapshot
  `s.snapshot` is by then, and a snapshot that ends sets it to nil.

### What is hard here, and what makes each part correct

`PROJECT.json` ("hazards") lists these at their lines.

* **Replication**: handlers that compute a log index outside the lock; a
  backup that takes an index for an identity; crashes between append, commit and
  answer; a recovery that races entries. Correct means: what was answered with
  success is on a majority of disks, is visible at the primary and stays so
  across a crash and replay; an index names one entry; a request ends.
* **Election**: timeouts that race heartbeats; a leader that steps down without
  choosing another; flags of a restarted server. Correct means: the running servers
  come to follow the lowest one, and heartbeats never make a server follow a higher
  one.
* **File service**: locks that are held across the release of `s.mu`, a Delete that
  forgets a lock others wait for, a request cache that only knows finished requests,
  descriptors that are never freed, state that a restart loses. Correct means: one
  writer per file, no lost update, acknowledged numbers stay, every call ends.
* **Checkpoints**: a crash or a failed call between the several files of a
  checkpoint; two workers racing for one tensor. Correct means: the pointer never
  names what is not saved, a worker that reported a checkpoint has one to resume from,
  no tensor is stored twice, a duplicate is really stored, and a restarted worker
  resumes.
* **Coordinator**: a death that is handled while the worker comes back, late
  heartbeats, a checkpoint that cannot be read, a restart that forgets everybody.
  Correct means: a lost worker ends up dead, whatever revives it on the way.
* **Snapshots**: several at a time with one field for all, markers that fail, arrive
  late or count as acknowledged all the same, pointers that are read while they are
  rewritten, a primary that cannot write its own file.
  Correct means: a snapshot ends, a complete one is recorded by whom it asked, the
  primary records before a backup does, the steps recorded were saved, and a client
  that dies with unsaved data can be told from one that closed.

## 2. Modules

| module | models | proofs |
|---|---|---|
| `Replication` | log replication with a fixed primary | `ReplicationProofs`, `NumberLemmas` |
| `DurableFiles` | what replication promises: abstract specification of `Replication` | `RefinementProofs` |
| `Election` | heartbeats, timeouts, elections, crashes, restarts | `ElectionProofs` |
| `FileService` | the handlers of the primary as threads | through `Client` |
| `Client` | extends `FileService` with the client library and an application | `ClientProofs`, `StoredProofs` |
| `Checkpoint` | workers, over the calls of the file service | `CheckpointProofs` |
| `Snapshot` | snapshots at the primary and the backups | through `Coordinator` |
| `Coordinator` | extends `Snapshot` with the coordinator, the workers it watches and what they save | `CoordinatorProofs` |
| `MCReplication`, `MCClient`, `MCCheckpoint`, `MCCoordinator` | instances for TLC | |

**Replication.** `log` and `wal` are `s.log` and the log file; `files` is what each
server's disk holds, abstracted to the operation that wrote a file and the form of
its contents (absent, empty, as logged, patched by Write). A handler is cut where
another goroutine can interleave: `Begin` computes the index without `s.mu`,
`AppendLocal` appends under it, `Replicate` starts the goroutines, `Commit`, or
`GiveUp` after a second, `Announce` is the second round, `Answer` replies (and in Write
patches the file). `net` is a set, so calls are delayed, reordered and lost (never
processed); a reply that is lost is an acknowledgement that is not counted, which
the order of `Replicate` and `Commit` already allows. `Crash` loses `log` in memory,
`Restart` is `recoverFromLog`. The disk may fail where the code reports or prints it.

**DurableFiles.** Four variables and four steps: a client asks (`Request`), an update
becomes durable (`Store`), files show later updates (`Show`), success is reported
(`Reply`). The refinement mapping takes for durable the entries of the primary's log that
are on a majority of disks, and for shown the update each file of the primary's disk
holds. So an append at the primary or at a backup is a `Store` or a stutter, a commit and
the replay after a crash are a `Show` (a replay shows updates of failed requests
too), a crash shows nothing. Write's patch of the file keeps what is shown.

**Election.** Clocks are one bit per server, `fresh`: an accepted heartbeat is less
than five seconds old. It expires when the leader no longer sends, and a bounded
number of times (`MaxSpurious`) when it does. A heartbeat round visits the peers one
after the other in any order (a Go map); a call that is given up on while the peer is
up, and a crash, are counted by `MaxFaults`. Ids are compared as the code compares them.

**FileService.** A request runs in a thread; an action is a stretch under `s.mu`, a
wait for a file's lock, or a step on the disk. `entries` are the `FileEntry` objects
ever made and `table` says which is the one of a file: after a Delete they differ,
and a thread keeps the object it has found. `hung` is set when Close or Write calls
`getFileEntry` while it holds `s.mu`. Files hold sets of numbers, for that is what
Close keeps. Whether a commit finds a majority is a choice (`NoMajority`); how it is
found is Replication's subject. `log` is `s.log` and `wal` the log on disk: they differ
once a write of the log has failed, for the entry stays in memory. `Fails` is every
other error that the code returns: in Create, in Open, in Write's temporary file and its
copy, in Delete. Whatever an error leaves half done is a choice (`Patch`: any part of the
numbers), except a line of the log cut in the middle, which the replay skips like one
that was not written (`server_replication.go:261-263`).

**Client.** One library call at a time per client; `at` is the request it is at. A
request that is given up on keeps running in its thread. An application takes its
calls from `Plan`, a sequence of sets of calls, which bounds the runs without fixing
their order against the other client's. What a Read returns is any set of numbers, and
it replaces the local copy, as the library does. `OpenClients` are the slots a snapshot
would record in that state.

**Checkpoint.** An action is a call of the file service, so the interleavings are
those of calls; Create is two actions because TestAuth of another worker sees the
table entry (version 1) before the file exists. A call that fails has done nothing, or
what the server did before the answer was lost (`Interrupted`): a Create may have got as
far as the table, a Close may have logged its entry or saved the file. `backlog` holds the log entries of
Closes that found no majority: the next Close that does commits them too. A text is
the numbers in it and whether there is more than numbers (`more`); `Kept` drops the
rest, as Close does.

**Snapshot.** A snapshot is an InitiateSnapshot handler, numbered in the order they
start; its id is what names the files. `Initiate` is the stretch under `s.mu`. Then,
without the lock, the directory is listed (`List`), the pointers are read one after the
other (`ReadPointer`), and the file is written and the goroutines start, or the handler
fails and leaves `s.snapshot` set (`Record`). A pointer that is being rewritten
(`rewrite`, the `os.WriteFile` of apply) gives any number or none; every other gives one
of those it holds. `Complete` and `TimeOut` end the wait. `tasks` are the goroutines and `markers` the calls on their
way: a goroutine may end while its marker is still to arrive, or never arrives. A
snapshot's ten seconds are longer than the five of a marker call, so `TimeOut` waits for
the goroutines. `shared`, `failed` and `torn` are ghosts. Of what a snapshot records this module
has the steps of the workers; the client slots are in `Client`, and the commit
indexes, versions and number sets, which nothing reads, are left out.

**Coordinator.** An action is a stretch under `c.mu` or a call of the file service
between two: `checkDeadWorkers` marks the silent workers, `LoadCheckpointMeta` answers for
one of them, or fails, and `SetResumeStep` writes what it answered to the status there is
then. The fifteen seconds are a bit, `recent`, as in Election. Workers have no Go code
that talks to the coordinator; they do what its comments say. A checkpoint is the
metadata and then the pointer, either of which may fail; the server's rewrite of the
pointer begins and ends (`PointerWritten`), whatever becomes of the worker. `Checkpoint` shows that today
no metadata parse, so that LoadCheckpointMeta only ever fails: here it may also
succeed, with any step that the pointer and the metadata allow, which is what the
coordinator was written for.

## 3. Runs

| run | module | expected | shows |
|---|---|---|---|
| `rep_primary` | MCReplication | pass | One request at a time, three servers, a primary that crashes and restarts: `CommittedOnMajority`, `AckedVisible`, `IndexNamesEntry`, `AckedIsPersisted`, that the protocol implements `DurableFiles` (`ImplementsDurableFiles`), and the inductive invariants of the proofs, `DurabilityInv` and `VisibilityInv` |
| `rep_backup` | MCReplication | pass | A recovering backup, crashes of both servers, disk errors, deletions: a request (`RequestEnds`) and a recovery (`RecoveryEnds`) end |
| `rep_shared_index` | MCReplication | violation | Two Closes of different files share an index: a backup drops one and acknowledges it |
| `el_agreement` | Election | pass | `FollowsNoHigher`, `LeaderOnlyRisesByTimeout` and `LowestLeads` with a crash and restarts or a heartbeat given up on, and an early timeout |
| `el_no_primary` | Election | violation | Servers that follow a leader whose role is Backup: nobody serves |
| `fs_clients` | MCClient | pass | Two clients, retries, exhausted descriptors, a commit without majority or an error of the disk: `OneWriterPerFile`, `VersionedUpdates`, `AckedNumbersStay`, `PrimesAreStored`, and that a snapshot tells of a client with unsaved data (`UnsavedIsCaptured`) |
| `fs_progress` | MCClient | pass | Two clients that may both save, by Close or by Commit, read and delete, an error or a commit without majority, a restart: `CallsEnd` |
| `fs_restart` | MCClient | violation | A Close after a restart drops the numbers saved before it |
| `ck_save` | MCCheckpoint | pass | Two workers, a crash, a failed call: `PointerNamesMeta`, `ReportedHasPointer`, `StoredOnce` |
| `ck_dedup` | MCCheckpoint | violation | A tensor that was created and never written counts as a duplicate |
| `ck_resume` | MCCheckpoint | violation | A worker with a saved checkpoint starts from scratch |
| `training` | MCCoordinator | pass | A worker that crashes and returns under a coordinator that restarts, and two snapshots at a time while pointers are rewritten: `RecordedIsSaved`, `LostIsDead`, `CompleteIsRecorded`, `RecordedFirst`, `SnapshotEnds` |

Every property of a passing run has a mutant in `PROJECT.json`: a plausible bug in
one definition that makes TLC find the property violated in that run. The mutated
forms stand before the definitions they replace.

### Bounds

* *Replication*: three servers (the deployment; two in `rep_backup`, where a
  majority is both) and three mutating requests or two. Three requests on one file
  give an entry before and after the one in question; the loss of an acknowledged
  entry needs two. `rep_primary` has two crashes, so that a restart is itself followed
  by one, and only Close: with no server marked dead and a disk that works, Write
  commits by the same steps and differs in the form of the file alone, which no property
  of that run reads. `rep_backup` and the theorems of section 4 have both.
  `rep_backup` gives up the second backup to afford restarts of both, disk errors and
  deletions with liveness.
* *Election*: three servers. One fault, a crash with restarts or a call given up on, and
  one early timeout already meet in one run, with liveness. `NoHigherLeader` and
  `RisesByTimeout` are proved without these bounds.
* *Client*: two clients and one file, where every lock is contended; two numbers, so
  that an overwrite is seen; two threads; three descriptors, of the code's 1000, so
  that they run out; two attempts of the code's three (one in `fs_progress`, where a
  retry of the same request finds the same locks); one failure, of a commit or of the
  disk. With two files and two
  handlers an index is shared, and acknowledged numbers are lost as in
  `rep_shared_index`; `fs_clients` keeps to one file, where the lock serialises Closes.
  In `fs_progress` both clients may hold the file for writing, and each may close or
  commit while the other waits for the lock.
* *Checkpoint*: two workers, one tensor name with two contents, two checkpoints of the
  code's ten, one crash and one failure at any call. Two checkpoints suffice for a
  pointer that names an old and a new step and for a tensor that did not change.
* *Coordinator*: one worker (workers share nothing but the loop over the dead, which
  goes on whatever happens to one of them), two checkpoints, two snapshots at a time,
  one id of the coordinator's besides the operator's. `Budgets` bounds what may happen, as
  three alternatives the initial state chooses from: a training with three starts, two
  crashes, a restart of the coordinator, an early timeout and two heartbeats, and no
  snapshot (`Watching`); a snapshot of a training whose worker may crash and start again
  (`Recording`); two snapshots across a restart of the coordinator (`Restarting`). A
  snapshot only reads what training writes, so they need not meet in one behaviour with
  every disturbance; `RecordedSaved` is proved without these bounds.

`CHECK_DEADLOCK FALSE` is set everywhere because bounded runs stop: the
application has made its calls, the training is over, nothing is left to fail.

### Fairness

* `Replication!Fairness`: a handler goes on (its wait has a timeout of a second),
  a recovery that has been answered ends (its RPC has a deadline), a crashed process
  is started again. Nothing is assumed of the network.
* `Election!Fairness`: the loops of a running server go on, a call ends, and a
  heartbeat that is not given up on is processed. Nobody promises a restart.
* `Client!Fairness`: threads and the library go on. Deadlines are not in it: `CallsEnd`
  says a call ends without them. It is weak fairness for each thread, which is enough
  for the locks because a client makes finitely many calls.
* `Coordinator!Fairness`: a snapshot's handler goes on and a marker call ends, both by
  their timeouts (a marker need not arrive); the coordinator's loop goes on, the calls it
  makes of the file service end, heartbeats that were sent arrive, and a worker that is
  silent is so for fifteen seconds in the end. Nothing is assumed of workers, operators
  or the restart.
* `Checkpoint` has no liveness property; `LiveSpec` is there so that the
  counterexamples of the two violation runs are runs in which workers go on.

## 4. Proofs

Every invariant and every action property that a passing run checks is also a theorem.
The statements are for all values of the constants that satisfy the `ASSUME`s of the
modules (finitely many servers, at least one client and file, bounds that are numbers),
so for any number of servers, workers, clients, files, threads, snapshots, crashes and
failures. Where one needs more it is a named assumption of the theorem.

| theorem | module | statement |
|---|---|---|
| `Typing` | ReplicationProofs, ElectionProofs, CoordinatorProofs, CheckpointProofs, ClientProofs | `Spec => []TypeOK` |
| `DurabilityInvariant` | ReplicationProofs | `OneAtATime => (Spec => []DurabilityInv)` |
| `Durability` | ReplicationProofs | under `OneAtATime`, what was answered with success is on a majority of disks |
| `IndexUnique` | ReplicationProofs | under `OneAtATime`, an index names one entry in the cluster |
| `Acknowledged` | RefinementProofs | under `OneAtATime`, an acknowledgement that is counted is an entry on the backup's disk |
| `VisibilityInvariant` | RefinementProofs | `OneAtATime => (Spec => []VisibilityInv)` |
| `Visibility` | RefinementProofs | under `OneAtATime`, what was answered with success is never undone on the primary |
| `Refinement` | RefinementProofs | under `OneAtATime`, `Replication` implements `DurableFiles` |
| `NoHigherLeader` | ElectionProofs | nobody follows a server with a higher id |
| `RisesByTimeout` | ElectionProofs | only the monitor replaces a leader by a higher one |
| `RecordingOrder` | CoordinatorProofs | the primary records a snapshot before a backup does (`RecordedFirst`) |
| `Completeness` | CoordinatorProofs | a complete snapshot that ran alone was recorded by whom it asked (`CompleteIsRecorded`) |
| `RecordedSaved` | CoordinatorProofs | a step recorded from a pointer that was read whole was saved (`RecordedIsSaved`) |
| `PointerIsLast` | CheckpointProofs | a pointer names saved metadata only (`PointerNamesMeta`) |
| `PointerStays` | CheckpointProofs | once a checkpoint was reported there is a pointer to a saved one (`ReportedHasPointer`) |
| `TensorsStoredOnce` | CheckpointProofs | a tensor is stored at most once (`StoredOnce`) |
| `Exclusion` | ClientProofs | two handlers never hold one file that nobody asked to delete (`OneWriterPerFile`) |
| `NoLostUpdate` | ClientProofs | a version moves only in an update that had read it (`VersionedUpdates`) |
| `SeenIsStored` | StoredProofs | under `Undisturbed`, the numbers the server keeps in memory are in the file (`PrimesAreStored`) |
| `AnsweredStays` | StoredProofs | under `Undisturbed`, the numbers of an answered Close stay (`AckedNumbersStay`) |
| `SnapshotTells` | StoredProofs | under `Undisturbed` and `WritesThenCloses`, a snapshot tells of unsaved data (`UnsavedIsCaptured`) |

*Durability.* `CommittedOnMajority` is not inductive: an acknowledgement has to mean a
durable copy. `DurabilityInv` adds that the primary's log in memory is the one on disk
and positions are indexes (`PrimaryLog`), that what backups hold and calls carry comes
from that log and that a backup's log is never longer than the index of its last
entry (`BackupLogs`), and that the request being served is the last entry and its
acknowledgements are copies (`RequestIsLast`). The delicate step is `AppendEntries`:
a backup that takes the entry for a duplicate (`entry.Index <= len(s.log)`) has an
entry with at least that index, hence, as the request is the last, that entry. The
assumption `OneAtATime` is where the code's guarantee ends: requests served one
at a time, no peer marked dead, no disk error, backups that do not restart, no
Delete. Without the first, `rep_shared_index` is the counterexample; section 5 has
the others. The proof needs no bound on backups, files, requests or crashes.

*Refinement.* That a file never shows an older update needs more than durability: the
primary must apply its log in order and miss nothing. `VisibilityInv` says that the log
has the requests in the order they came (`LogInOrder`), that a file shows an entry of
the log, an applied one while the primary is up, and none older than any it has applied
(`ShownIsLogged`), and that a request that is about to be answered was applied. The two
steps that matter are `Commit` and `Restart`, and they are one lemma, `ApplyAll`: both
apply all of the primary's log, from the first entry it has not applied or, after a
crash, from the beginning. The replay is the delicate case, for it shows the files at
older updates on the way; that it ends no earlier than where it began is because what a
file showed is in the log (`ShownIsLogged`), which is on disk before it is applied.
Each action of `Replication` then maps to a step of `DurableFiles` (`VisibilityStep`), and
the theorem follows from the two invariants.

*Coordinator and snapshots.* A step is one of the snapshot protocol or leaves its
variables alone, so each invariant about the protocol is shown once per action of
`Snapshot`. The number a new snapshot gets is the count of those that have started; it
is fresh because they are `1 .. n` (`StartedInOrder`, `Next0IsFresh`), which is counting
in finite sets. `RecordInv` says that whoever sends or awaits markers has recorded the
snapshot, so no marker arrives before the primary's file is there, however late it is.
For `CompleteIsRecorded` an acknowledgement has to mean a delivered marker, and what
makes it mean something else is another snapshot: `AloneInv` says that one which is not
`shared` meets no other, nor a goroutine of another, while it runs (`RunsAlone`), that a
marker is on its way or delivered (`MarkersArrive`), and that an acknowledged one is
delivered or failed (`AcksCount`). `SavedInv` follows a step on its way from the worker's
metadata through the rewrite of the pointer (`PointersSaved`) to what a handler has read
of it, which later rewrites do not change, and to the file of the snapshot (`ReadSaved`).

*Checkpoint.* The hazard is that a Close of the pointer writes more than it was sent:
what the server remembers of the file (`primes`), and the entries of Closes that found
no majority (`backlog`). `PointerInv` says of all four, the file, the memory, the entries and
the Close to come, that the steps they name have closed metadata, and `ReportedInv` that
what was reported is in the first three, so that a file that is there is never left
without a step. That the pointer keeps the older steps is only a means here, and no
promise of the code (section 5). `FilesStay` (nothing leaves the table or the disk) is why
what one call made is there for the next. `TensorInv` says that whoever has made the file
of a tensor is alone with it and its version is 0, which is what the race of two workers
for one tensor comes down to.

*File service and client.* `HandlerInv` is four invariants. `TypeInv` adds to `TypeOK` what
makes it inductive: a thread that is past its beginning has a descriptor that exists, a waiting client
has a thread of its own that is not idle, ids in use are below the next one. `LockInv` is
the lock of one object; `ObjectInv` says that handlers of a file nobody asked to delete
have found the same object, so the lock of the object is that of the file. With a Delete
they need not, and `OneWriterPerFile` excepts it. `VersionInv` carries the comparison under
the lock to the update. None of it is disturbed by clients that give up or by restarts.

*What is stored.* `Undisturbed` is where the code's guarantee ends: one file, for entries of
several share indexes (`rep_shared_index`); no restart, which forgets the numbers
(`fs_restart`); no library Commit, because Write logs its own data only and a later entry
drops the others. The constants of `fs_clients` satisfy it. `IdsInv` says that a Close is
sent once and its id was never answered, so the request cache never stands in for it;
`WriterInv` that the one writer's entry is the last of the log and contains the numbers
seen, at whatever position the log is after a write of it has failed; `SeenInv` that
these are in the file, and what was answered is among them. A commit or a write of the log that fails leaves its entry in memory, and a later commit applies
both in order: the proof needs that the later entry is last and holds all that was seen
(`AppliedLast`).

*What a snapshot tells.* `WritesThenCloses` asks the applications not to read, for a Read
that finds the lease over takes the descriptor, and not to write after they may have
closed, for a Close they gave up on takes it later (section 5). Then `WritersInv` says
that a client that may write holds its descriptor, and after a Close has it or its data
were seen. For that the descriptor an Open answers, at once or to a retry from the request
cache, must be the client's own and of the mode it asked for (`AnswersInv`), and a
Close must carry what is unsaved (`CallsInv`).

*Election.* The inductive invariant is that a server believes itself alive and
follows nobody higher. The lowest id in a finite set of numbers exists by
induction, which `NumberLemmas` gets from the library.

*Only model-checked*: liveness (`RequestEnds`, `RecoveryEnds`, `LowestLeads`, `CallsEnd`,
`LostIsDead`, `SnapshotEnds`), for the prover does neither fairness nor ENABLED. What
the theorems with an assumption say is checked by TLC under that assumption too, and the
runs that expect a violation show what happens without it.

## 5. Disagreements between the code and what it says

Five are runs (section 3). Others that the models show, each with a counterexample
found by TLC when the constants allow it:

* A client whose Close missed its deadline and that closes again, after the first
  Close took effect, makes `Close` call `getFileEntry` while it holds `s.mu`
  (`server_basics.go:656`, and `Write` at 1003): the server stops, where the code means
  to answer "already closed". So does a client whose Read found its lease over, which
  takes the descriptor from it, and one whose descriptor number belongs to another client
  after a restart of the server. `fs_progress` reaches both, and `Client!CallsEnd`
  therefore excepts `hung`: what it shows is that nothing else keeps a call from ending.
* `commitIndex` counts positions, so of two Closes with one index the second is
  answered with success and never applied (`AckedVisible` fails with two handlers).
* `s.commitIndex = logEntry.Index` (`server_basics.go:770`) is no maximum: of two handlers
  that find their majorities in the other order the second moves the commit index back,
  and backups are told the lower one. Nothing here claims that it only grows.
* An entry whose `appendToDisk` fails stays in `s.log` (`server_basics.go:719-724`). The
  next entry then has an index one higher than its place on disk; after a restart
  `len(s.log)` counts what is on disk, and a new entry gets that index again. So
  `IndexNamesEntry` is checked and proved for disks that work only (`OneAtATime`).
* The pointer of a worker accumulates the steps of all its checkpoints, in the order of a
  map (`server_basics.go:702-707`), where `server_snapshots.go:279-280` says it contains
  "the last committed step" and `ml_common/checkpoint.go:56-58` that it tracks "the latest
  committed checkpoint": a snapshot and a restart may find any step that was saved.
* The pointers are read without a lock (`server_snapshots.go:292`) while apply truncates
  and rewrites them (`server_replication.go:365`): such a read may give no step, or a
  part of one that was never saved, where `server_snapshots.go:282` says "an accurate
  point-in-time view". `RecordedIsSaved` excepts these reads. (A read that overlaps a
  rewrite counts as one instant within it: it returns some of the old, the truncated and
  the new bytes, all of which `FirstNumbers` allows.) An apply whose write fails half way
  is only printed and leaves a truncated pointer behind; that is not modelled.
* A backup that restarts after a full recovery has more entries in its log file than
  the primary counts (`server_replication.go:396` empties the log in memory only), and
  takes new entries for duplicates.
* Write takes a majority of the servers believed alive (`server_basics.go:1066`).
* A backup that received entries out of order applies one before its commit, and
  never holds the earlier one; Write's patch of the file after the commit is not
  replicated; Delete is not logged, so an earlier entry applied later brings a file back.
* A failed write of the log is acknowledged (`server_replication.go:470`).
* An old primary that follows a lower server keeps its role: two servers serve
  (`server_replication.go:103`; `OnHeartbeat`, which would reset it, has no caller).
* TestAuth answers version 1 for a file that is only being created, and for one whose
  Create failed, for want of descriptors or of the disk: SaveTensors takes it for stored.
  (`ck_dedup` shows the same of a Create that worked.)
* Two snapshots at a time take each other's acknowledgements: a snapshot may complete
  before its own markers have arrived, and one that should have completed times out.
  `CompleteIsRecorded` therefore speaks of snapshots that ran alone, and of those it
  excepts a backup whose marker call failed, which counts as acknowledged.
* A coordinator that restarts gives out the ids of its snapshots again, and their
  files are overwritten.
* A replacement that registers before its predecessor was declared dead is told step 0
  (`coordinator.go:113`), and so is one whose predecessor's checkpoint could not be read.
* Reading a file with unsaved data asks the server and overwrites the local copy
  (`client_basics.go:350` looks at `Valid` only).
* A client that writes to a file after a Close it gave up on is not a writer for a
  snapshot, which `CheckClientInSnapshot` takes for a clean close.

## 6. Not modelled

* Number parsing and primality beyond what Close keeps: `parseNumbers` is a choice of
  numbers, and `IsPrime`, `modExp` and `mulMod` have no caller. Path checks, messages and
  logging; `checkStragglers` and the dashboard, which only report.
* The clean-up loops: `cleanupRequests` and `cleanupLeases` are never started, so the
  request cache never forgets, and a lease expires only when a Read finds it old.
  `HandleWrite`, `OnHeartbeat` and `retryWrite` have no caller.
* Input files, which are only read; AppendFile, which is WriteFile to the state kept.
* The eviction of cache entries at 20 files, and the change of leader in the client
  (`reconnectToLeader`).
* The order of `meta.mu` and `s.mu`: actions are whole stretches under `s.mu`, so the
  deadlock between Read with an old lease and Close is described as a hazard only.
* What a snapshot records of versions, number sets, commit indexes and tensor counts:
  nothing in the program reads them.
* The generated protocol code, and the three drivers under `test_server_*`.

## 7. Plan

1. Done: replication with durability and a refinement proved, election, file service
   with clients, checkpoints over the service, snapshots and the coordinator; every
   invariant and action property of the runs proved.
2. An abstract register of numbers per file that `Client` implements for one file: with
   `SeenInv` and `VersionInv` the steps that matter are proved already.
3. Weaker assumptions: several files that are closed one at a time in `Undisturbed`, and
   backups that restart in `OneAtATime`, as far as the code allows.

## 8. Running it

    tlc -workers 2 -config rep_primary.cfg MCReplication
    tlc -workers 2 -config el_agreement.cfg Election
    tlc -workers 2 -config fs_clients.cfg MCClient
    tlc -workers 2 -config ck_save.cfg MCCheckpoint
    tlc -workers 2 -config training.cfg MCCoordinator
    tlapm ReplicationProofs.tla
    tlapm RefinementProofs.tla
    tlapm ElectionProofs.tla
    tlapm CoordinatorProofs.tla
    tlapm CheckpointProofs.tla
    tlapm ClientProofs.tla
    tlapm StoredProofs.tla
