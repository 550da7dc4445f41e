# SOLTA: TLA+ models of a cosmic-ray detector, its event store and its database

SOLTA is an iOS app that turns a covered phone camera into a cosmic-ray
detector. A frame with a few bright pixels is an *event*: the app shows the
image, scores it and stores it under the user's login in Firebase, where the
history screen lists it. The repository holds the app (12 Swift files in
`trial 3/`) and the source of the libraries it links (`Pods/`), among them two
complete programs: LevelDB, in which the Firebase client keeps its writes on
disk, and nanopb, which encodes messages. There are no tests in the repository.

The difficulty lies in two threads of the app that share properties without a
lock; in callbacks, writes and uploads that outlive the screen, the connection
and the process; and, inside LevelDB, in a background thread, lock-free
readers, compactions and crashes at any point.

Paths below are relative to `src/SOLTA/trial 3/` unless they start with `Pods`;
`db/`, `table/`, `util/` and `include/` are those of `Pods/leveldb-library/`.

## Inventory

| Component | State | Operations | Hard behaviour | What makes it correct |
|---|---|---|---|---|
| Frame scan (`DetectionVC.captureOutput`, 251-275) | cached geometry, count of bright pixels | sample every second pixel, compare with 3/4 of the threshold, window on the count | format change, raw pointer, threshold read per pixel | reads stay in the buffer; the count is that of the sampled bright pixels |
| `DetectionVC` | session, timer, threshold per mode and its copy, flux, counters, shared `cgimage` | `viewDidLoad`, `viewDidAppear`, `captureOutput`, main-queue block, `updateThreshold`, `stopCollectingDidTap` | imageQueue against main thread, late timer, Stop with work in flight | no event lost or doubled; image and score of a record are right up to a known error; the threshold rises only for a reason |
| `FirebaseHelper`, `Detection` | `detections`, shared `image` | `addDetection` and its completions, `getImage` | url set long after the other fields, failed uploads, equal keys | a record with a url is complete |
| `HistoryVC` | rows | `populateCells` (listener) | fires for cached, pending and server data; casts that trap; rows repeat | casts never see an incomplete record; every record has a row |
| Login (`LoginVC`, `LoginHelper`, `SetNameVC`), navigation | Google user, Firebase user, stack of screens | sign-in, its error, late completion, segues, relaunch | repeated taps, ignored errors, nothing is dismissed | a user behind every screen that unwraps one; one camera |
| Realtime Database client (`Pods/FirebaseDatabase`) | pending writes, cache, listens, outstanding puts | set, acknowledge, listen, reconnect, restore | crash between steps, lost acknowledgements, resending | writes on disk reach the server; nothing shown disappears |
| Cloud Storage client (`Pods/FirebaseStorage`) | upload tasks | `putData`, `downloadURL` | failure, crash while uploading | a URL only for a stored image |
| LevelDB: write path (`db/db_impl.cc`) | queue of writers, memtables, log | `Write`, `MakeRoomForWrite`, `TEST_CompactMemTable`, background call | groups, hand-over of the queue, waiting on a shared condition | batches whole and in order, nobody waits for ever |
| memtable (`db/skiplist.h`) | links, height | `Insert`, iterator | readers without locks, relaxed loads | a reader misses nothing that was there |
| versions, compactions (`db/version_set.cc`, `db/db_impl.cc`) | levels, pointers, seeks, snapshots | flush, pick, move, merge, `CompactRange`, reads | the mutex is released in a merge; snapshots keep old entries | the tree is the map `db.h` promises |
| files, recovery (`db/db_impl.cc`, `db/version_set.cc`) | logs, tables, MANIFEST, CURRENT | `Open`, `Write`, `LogAndApply`, `DeleteObsoleteFiles` | crash between any two calls, failing calls, open iterators | a synced write survives; a file in use exists |
| log files (`db/log_writer.cc`, `log_reader.cc`) | bytes, fragments | `AddRecord`, `ReadRecord` | block ends, torn and damaged records | what is read was written, what is dropped is reported |
| tables (`table/*`, `util/bloom.cc`) | blocks, index, filter | `TableBuilder`, `Table::InternalGet` | shared prefixes, shortened index keys, damage | a lookup finds the entry or reports an error |
| iterators (`two_level_iterator.cc`, `merger.cc`, `db_iter.cc`) | position, direction | `Seek`, `Next`, `Prev`, both ends | change of direction in four layers | a cursor over the visible keys |
| cache (`util/cache.cc`) | lists, table, references | `Insert`, `Lookup`, `Release`, `Erase`, `Prune` | entries in use at the limit | counters and lists agree; freed once |
| environment (`util/env_posix.cc`) | queue of work, limits, lock table | `Schedule`, limiter, `LockFile` | signal against push; `fcntl` semantics | work runs once in order; limits are kept; one owner |
| nanopb (`Pods/nanopb`) | message, stream | `pb_encode`, `pb_decode` | submessages encoded twice, packed arrays, older readers, cut messages | what is sent arrives or is refused |
| `DetectionHelper`, `AppDelegate`, `InfoVC`, `HistoryTableViewCell`, the other pods | - | unused copy of the detector, start-up, static screens, headers of closed libraries | - | - |

Interaction: AVFoundation calls `captureOutput` on the serial `imageQueue`; an
event is sent to `DispatchQueue.main` as a block that calls
`FirebaseHelper.addDetection`, which starts an upload and three `setValue`
calls; these run on the database client's queue, the upload's completions set
the `url`. `HistoryVC` listens to `users/<login>`. The database client keeps
pending writes and its cache in LevelDB (through `APLevelDB`), whose writers,
background thread, log, tables, cache and environment call each other as the
table's order suggests. `PROJECT.json` lists the hazards line by line with the
properties that cover them.

## Modules

| Module | Models |
|---|---|
| `FrameScan` | the arithmetic of one frame, and its reference definition |
| `Detector` | one `DetectionVC`: main thread, imageQueue, camera, clock |
| `EventStore` | `addDetection`, the listener of `HistoryVC`, the database and storage clients, the services, several devices of one login |
| `AppScreens` | sign-ins, segues and screens, rows and images of the history |
| `KVStore` | abstract: the map with snapshots of `include/leveldb/db.h` |
| `VersionSet` | the pure part of `db/version_set.cc`: lookups, what a compaction takes and makes |
| `LSMTree` (extends `VersionSet`) | memtables, levels, flushes and compactions, reads, snapshots, `CompactRange`; implements `KVStore` |
| `WriteQueue` | writers, condition variables, background thread |
| `SkipList` | inserting writer and lock-free readers, link by link |
| `LRUCache`, `PosixEnv`, `FileLock` | cache; work queue and limiters; lock file |
| `DBFiles` | files, manifest, CURRENT, recovery, crashes, failing calls |
| `LogFormat` | log writer and reader over one file |
| `InternalKeys`, `Block`, `Table`, `Iterators` | key orders; a block; a table file; the stack of iterators (each extends the one before) |
| `Nanopb` | encoder and decoder |
| `DetectorProofs`, `EventStoreProofs`, `WriteQueueProofs`, `SkipListProofs`, `DBFilesProofs`, `LSMTreeProofs` | theorems about the module of that name |
| `ConcurrencyProofs`, `DatabaseProofs` | theorems about what `MCConcurrency` and `MCDatabase` check |
| `MCDetector`, `MCEventStore`, `MCLSMTree`, `MCDatabase`, `MCConcurrency`, `MCStorage` | constants of the runs |

Definitions named "Broken variant" are plausible bugs; each is put in the place
of the definition after it to see that a property notices. `Spec` never uses
them.

`MCConcurrency`, `MCDatabase` (`LSMTree` and `DBFiles`) and `MCStorage` check
several components that share no state in one state space: the variable `part`
names the component whose steps are taken, the others stay in their initial
state. A state of such a run is a state of one component.

### Detector

Main-thread actions are the view callbacks, the button, `updateThreshold` and
`recordDetection`, the block of lines 308-321. imageQueue
runs `captureOutput` (213-251), one `scanPixel` per sampled pixel, and for an
event `countEvent`, `updateFlux`, `renderImage`, `dispatchBlock`, each a point
where the other thread may act; otherwise `ignoreFrame`. Both threads recompute
the shared `timeElapsed` and `flux` (284-285 and 388-389); `updateFlux` does it
load by load and store by store (`readClock`, `storeElapsed`, `loadEvents`,
`loadElapsed`, `storeFlux`), with `fluxPC` and `reading` as each thread's place
and operands, so an old clock value or an old quotient may overwrite a newer
one. `updateThresholdDecide` (390-394) reads `flux` again after that; `mainPC`
keeps the main thread from doing anything else in between. The camera delivers a
frame when the queue is free and discards it otherwise
(`alwaysDiscardsLateVideoFrames`).

What is abstracted:
- time is in whole seconds; `flux` is kept as the pair (events, seconds) it was
  computed from, so that the comparison with 1/10 is exact;
- an image is the number of the frame it was rendered from; 0 is the placeholder;
- 3/4 of the threshold is compared exactly (`4 * intensity > 3 * threshold`);
- the plane width of the luma plane equals the buffer width, as for every
  biplanar format; formats of one width may differ in height and row length, and
  a read outside the buffer gives any byte;
- `isFlat`, `accData`, the brightest point, sounds, the photo album and printed
  text are left out: no decision depends on them. The `DORMANT` case is
  unreachable (line 210 sets `RUNNING`), `updateAcc` is never scheduled and
  `droppedFrame` never called;
- Swift makes racing accesses undefined; for the word-sized properties and the
  reference `cgimage` the model takes the outcome a 64-bit ARM build has, the old
  or the new value.

The view is left by Stop alone; the storyboard has no other way out. Leaving does
not invalidate the timer, so `updateThreshold` goes on.

### EventStore

For each device the state has the client's memory (`sharedQueue`, `observing`),
its disk (`userWrites`, `acked`, `acking`, `cache`, `loaded`) and its connection
(`applied`, `inbox`). `userWrites` is the whole log of the device: the writes
still on disk are those after `acked`; those up to `applied` the server has
applied on this connection.

`addDetection` is one action (it runs without interruption on the main thread);
`putDataCompleted`, `downloadURLCompleted` and `completedWithError` are its
callbacks. `set` is `FRepo set:`. An acknowledgement is two actions, since it is
two disk operations: `ackUserWrite` removes the write (`FSyncTree.m` 197) and
`applyUserWrite` caches it unless a listener is active (203,
`FPersistenceManager.m` 123-135). The process can die between them if
`CrashInAck` is TRUE. `observe` is `populateCells`: the server answers with the
tree, ahead of acknowledgements the client holds back for it (`putsToAck`).
`reconnect` loses what the connection carried and sends listens first and then
every unacknowledged write (`restoreState`). `crash` keeps only the disk.

What is abstracted: the tree is cut to one login; values are the detection they
come from; the server never rejects a write (there are no rules in the
repository); every detection has an image (its only caller passes one); the
local cache is not evicted (10 MB of records without images); the listener is
never removed, as in the code; the services are external, modelled from what
the clients expect: writes of one connection are applied in order, listeners
are told before the writer.

### AppScreens

`screens` is the stack of presented controllers; nothing is ever dismissed, UIKit
presents on the top one only. `didSignInFor` starts a Firebase sign-in whose
completion may come late, after another one, or with an error. `HistoryEvent` is
the closure of `populateCells`: at every event, whatever changed, it appends every
record to the array the listener captured, so rows multiply. `getImage` returns the shared image before its download has
finished. A cancelled Google dialog traps (`LoginVC.swift` 39 unwraps the user
without looking at the error); the model has the trap, no document says
otherwise, so no property speaks of it.

### LevelDB

`LSMTree` takes what `DBImpl` does while it holds `mutex_` as one action. A merge
is two actions, start and installation, since `DoCompactionWork` releases the
mutex in between; the smallest snapshot is read at its start and the flush of a
full memtable falls into it, as in the code (`db_impl.cc` 917). Sizes are numbers of entries;
thresholds are constants. `ApproximateOffsetOf` has the grain of `table.cc` 258-283: a
table counts by data blocks of `BlockEntries` entries, found through index keys that
`ShortestSeparator`, the choice of the user comparator, may have shortened.
`KVStore` keeps the updates made, in order, and tells the value of a key by the number of the
update that put it; `LSMTree` gives it its history of writes, so that the refinement says
which write a read returns. `ImplementsKVStore` is `KVStore!Spec` with a
refinement mapping that computes the abstract map from the newest entries in
memtables and levels.

`WriteQueue` keeps condition variables explicit: `awake` holds the waiting
threads that were signalled, so a lost wakeup shows as a call that never
returns. The leader's log write happens without the mutex and may fail; then
only a failed sync records a background error, as in the code. A compaction takes at
least one file out of level 0 and may leave others there.

`SkipList` makes each load of a link and each publication of a node a step;
`max_height_` is loaded without a barrier, so a reader may get any value the
variable has had. Heights are chosen freely. The arena is left out.

`DBFiles` has the disk as logs, tables, manifests and CURRENT with what of each is
synced; of the rest a crash keeps any prefix. Creating, renaming and deleting
are atomic and durable (a file system assumption). `FailWrite` is a `Write` whose `AddRecord`
or `Sync` of the log fails (`db_impl.cc` 1224-1246): the database goes on after the first and
stops after the second. What a failing append does to the log is the subject of
`LogFormat`; here it leaves the records behind it such that a reader may or may not find
them (`found` is "maybe"), and `Readings` are the contents a replay may come up with. `Open` is several actions
and can crash or fail inside. An iterator is a version that stays pinned. A
version is the set of its tables; order and levels are the subject of
`LSMTree`, the bytes of `LogFormat` and `Table`.

`LogFormat` has a file as the sequence of physical records with their places.
A fault cuts the file, damages a payload, or lets an `Append`, that of a block's trailer
included, write only a part. Where the reader looks at bytes that were not written as a header it may see any
length and type, among them those it passes over without a report
(`log_reader.cc` 232-250: a length beyond the end of the file, zero length and type). A
header that was written is not damaged; a checksum is a flag and never matches by accident.

`Table` and `Iterators`: keys are sequences of small digits, an offset inside a
block is the index of an entry, an offset in the file counts bytes with small
field widths. Any call of the file may fail while a table is written; one
entry of a data or index block may be damaged when it is read, with and without
checksums verified. The iterators keep the layering of the code, one operator
per method and layer. Compression is not modelled: the pod is built without
Snappy.

`LRUCache`, `PosixEnv` and `FileLock` are close to the code. The loops of the cache
(`Resize`, its chains, the evictions of `Insert` and `Prune`) are functions of the number of
rounds; an eviction takes an entry off the LRU list, so there are no more rounds than entries
on it. In `FileLock` the
system's lock belongs to a process and is lost when the process closes any
descriptor of the file.

### Nanopb

A C structure is a function from tags to entries. Widths are scaled (a byte has
4 bits, a varint group 3), so that every overflow and truncation is in reach. A
callback of the application may write something else in the second pass.
Pointer fields are not decoded, as in the build.

## Runs

| Run | Bounds | Distinct states | Shows |
|---|---|---|---|
| `detector_safety` | 2 frames handled out of a dark one and two formats whose sample fades when the threshold rises, 1 late, 5 s (one firing of the timer) | 158,822 | `EventAccounting`, `ScoreBracketed`, `ImageOfOwnOrLaterEvent`, `ScanCountsBrightPixels`, `AtMostOneEventAfterStop`, `TypeOK`, `EveryEventRecorded`, `BlindForever` |
| `detector_races` | 2 frames handled out of three layouts, two of one width, 10 s (two firings of the timer) | 2,195,853 | `ReadsInBounds`, `ThresholdPaidByEvents` |
| `eventstore_safety` | 2 devices, 1 detection, 2 faults | 521,590 | `ServerUrlImpliesComplete`, `CastsAreSafe`, `DeliveredMeansCurrent`, `ViewNeverShrinks`, `TypeOK` |
| `eventstore_liveness` | 1 device, 1 detection, 2 faults | 10,940 | `WritesReachServer` |
| `eventstore_ackcrash` | 1 device, 2 faults, crash inside the acknowledgement | | `ViewNeverShrinks` is violated |
| `database` | levels: 6 writes of 2 keys (deletions of one), 4 levels, 2 entries per memtable, 1 per output file and data block, sizes asked for three keys, reads that charge seeks, no `CompactRange`; files: 3 writes, 2 crashes, 1 failing call (an append or a sync of the log included), file numbers up to 10 | 998,977 | `LevelsDisjoint`, `SmallerLevelIsNewer`, `ApproximateSizesBounded`, `FilesInUseExist`, `SyncedWritesSurvive`, `OpenDatabaseIsComplete` |
| `lsm_implements` | 3 writes, 1 snapshot at a time, 1 `CompactRange`, reads | 26,864 | `ImplementsKVStore`, `CompactRangeReturns` |
| `lsm_gap` | 5 writes, 1 `CompactRange` | | `LevelsDisjoint` is violated |
| `lsm_splitkey` | 3 writes, 1 snapshot, 1 entry per output file | | `SmallerLevelIsNewer` is violated |
| `concurrency` | three calls of `Write` or `TEST_CompactMemTable` in eight mixes, 1 fault; 3 keys, heights up to 2, one reader; cache of 3 in 2 shards, 3 insertions; 3 items of work, 3 openers, limits 1 and 1; 3 threads in 2 processes; 5 screens, 2 sign-ins, 2 accounts, 2 launches | 167,592 | `BatchesAppearWhole`, `AnsweredMeansLogged`, `EveryCallReturns`, `ReadersMissNothing`, `CacheAccounting`, `LimiterAccounting`, `ScheduledWorkRuns`, `OneHolderPerProcess`, `ScreensAreServed`, `RowsCoverRecords` |
| `storage` | tables of 3 entries, damage anywhere, 1 memtable key and 1 written later; 3 records of 3 lengths in blocks of 10 bytes, 1 fault; messages with up to 2 fields set, cut anywhere, two descriptors | 352,786 | `LookupsAreRight`, `IteratorIsACursor`, `OnlyWrittenRecordsAreRead`, `NothingIsLostSilently`, `WholeMessagesArrive`, `TruncationOnlyLosesFields` |
| `log_afterfailure` | 3 records, 1 failing `Append` | | `AcknowledgedRecordsAreRead` is violated |

Why the bounds are enough. Detector: with two frames one block waits while another
event is rendered; one firing of the timer raises the threshold in the middle of a scan,
and the ten seconds of `detector_races` hold two, so one
rise that was paid for and one that is paid for by the same events through a race; a frame of one
layout may follow one of another with the same width.
EventStore: two faults are what it takes to lose a listener and then a
write. LSMTree: six writes with two entries per memtable fill level 0 twice and
push files down two levels while another flush falls into the merge; three
writes suffice for a snapshot between two versions of a key and a deletion
above both. WriteQueue: three threads are a leader, a follower and one that
arrives while they log. SkipList: a reader and two inserted nodes around its position, with a
taller and a lower tower. DBFiles: three writes put one in a table, one in the
older log and one in the newer one when the machine stops, a second crash falls into
the recovery from the first, and a failing append has an acknowledged write on either side. LogFormat: a
block holds a header and a payload of three bytes, so records end before, in and
behind a trailer. Iterators: three entries give two data blocks with a deletion
above a value; every sequence of calls of any length is covered, since positions repeat.
Nanopb: two fields set next to each other show order, oneof replacement and
a cut between or inside them.

Every behaviour of the models ends once frames, writes, time and faults are used
up, which is why the runs do not check deadlock; that nobody is stuck before
is the subject of `EveryCallReturns`, `ScheduledWorkRuns`,
`CompactRangeReturns`, `WritesReachServer` and `EveryEventRecorded`.

What the violated runs show:
- *A crash inside an acknowledgement loses the field locally.* The disk holds it neither
  as a write nor in the cache. The window is two consecutive disk operations. All other runs
  exclude it (`CrashInAck = FALSE`), so their results hold up to that window.
- *A memtable flushed into a gap overlaps what a merge installs.* `CompactMemTable` may
  run in the middle of a merge (`db/db_impl.cc` 922), and `WriteLevel0Table` (521) asks
  the current version where the memtable fits. The inputs of a merge that
  `CompactRange` started need not be connected: a memtable with a key between two of
  them fits the output level, and the output then spans it. Two files of that level
  overlap and a lookup finds only one, although `db/version_set.cc` 742 says there is no
  overlap. The inputs of a compaction that `PickCompaction` chose are connected, so
  without `CompactRange` (`database`, `MaxRangeCalls = 0`) the levels stay disjoint.
- *A user key split over two files lets an older entry come first.*
  `DoCompactionWork` may end an output file between two entries of a user key
  that a snapshot keeps; `PickCompaction` (`db/version_set.cc` 1310) then takes only
  one of the two files, and the newer entry moves below the older one, against
  the comment that entries of a smaller level are newer. `lsm_implements` shows
  the refinement for files large enough that no key is split.
- *After a failing `Append`, acknowledged records can be lost.* The writer counts
  bytes that did not reach the file (`db/log_writer.cc` 107), the next records
  straddle what the reader takes for a block boundary; `DBImpl::Write` treats only a
  failing `Sync` as a reason to stop (1224), while `include/leveldb/options.h`
  194-196 promises that an acknowledged write survives the crash of the process.

What the passing runs say about the races of the app: a late block can record the
image of a *later* event, never of an earlier one or of a frame that was none; the
score may use an outdated threshold, within the bracket; the threshold can leave
the detector blind for good, and `BlindForever` states that it does not recover. One set of
events can pay for more than one rise: an old clock value that `captureOutput` stores while
`updateThreshold` computes makes the flux look higher than it is. `ThresholdPaidByEvents` bounds
the damage, at most one step for each of the two stores an event makes. And
`captureOutput` (232) does not notice a frame of the same width and smaller size; that is the one
case `ReadsInBounds` excepts (`ShrunkUnnoticed`), and only there does the scan leave the buffer.

Seen while modelling, without a property of its own:
- `addDetection` prints the error of a failed upload (`FirebaseHelper.swift` 180-188) and does
  not try again: the record stays without `url`, and the history skips it;
- after a failing append of the log `DBImpl::Write` goes on, and the reader may skip records
  acknowledged later, some of them without any report (`log_reader.cc` 232-250). The
  promises about synced writes and about reported damage are therefore stated for logs no append to which failed;
- a second `LockFile` in a process that holds the lock closes its descriptor and
  with it drops the process's `fcntl` lock, so another process can then open the
  database (`include/leveldb/env.h` 111 promises it cannot); within a process
  the lock table holds (`OneHolderPerProcess`);
- `droppedFrame` (`DetectionVC.swift` 352) is no method AVFoundation calls, so
  dropped frames are not counted;
- `NewDB` does not sync the first manifest before it sets CURRENT;
- `pb_check_proto3_default_value` compares only the first entry of an array of a
  submessage; a proto2 extension with the value zero is not encoded;
  `allbits >> (32 - (n & 31))` is undefined for a multiple of 32 required fields;
  `pb_decode_tag` reports a tag that is cut short as the end of the message;
  a static field is decoded by its type whatever the wire type says;
- rows of the history repeat at every event of the listener, and a row may show the image of
  another record of the account (`RowsCoverRecords` says that no record lacks a row and whose the rows
  are, not that there is one row per record).

### Fairness

`Detector`: weak fairness of imageQueue, of the rest of an `updateThreshold` under way and of
the blocks on the main queue, since a dispatch queue runs what it was given and the
run loop serves it. None for the user, the camera, the timer or the clock.
`EventStore`: weak fairness of the client's queue, of the services on a
connection that lasts, of the callbacks of an upload, and of the restart of the app
(the writes on disk can reach the server only if someone opens the app again). None for
faults, detections or the history screen.
`WriteQueue`: weak fairness of each thread and of the background thread: a thread that
holds no condition variable to wait for is scheduled, a mutex is granted in the end. None for
spurious wakeups, faults, or the call itself.
`PosixEnv`: weak fairness of the background thread. `LSMTree`: weak
fairness of the background thread and of the thread inside `CompactRange`, also
while it forces the memtable out; none for writers and readers.

## Proofs

All theorems hold for every value of the constants, under assumptions on them:
`BoundsAssumption`, `FramesAssumption` (a row in memory is at least as long as the width,
and the buffer has all rows; several layouts may have one width), `ConstantsAssumption`; for the components in
`MCConcurrency`, `ListParameters`, `CacheParameters`, `EnvParameters` and `AppParameters`
(finitely many openers and records; limits, charges, hashes and the capacity are natural
numbers; at least one shard and one bucket; keys that follow the head of a list); for the
levels, `LevelsAssumption` (two levels at least, positive sizes, blocks and factors) and
`LSMAssumption` (keys are integers, fewer writes than sequence numbers, a separator of two keys lies
at or behind the first and before the second); and that
`NULL`, which stands for a null pointer, is no value of what it may replace
(`NullIsNoValue` of `DBFilesProofs`, `NullIsNoTable` of `LSMTreeProofs`; no entry, edit
or set of them). TLC evaluates the assumptions on the constants of the runs.

| Theorem | Inductive invariant and why |
|---|---|
| `DetectorProofs!TypeCorrect` | `TypeInv` adds what types alone do not give: an event being handled has a bright pixel |
| `NoEventLostOrDoubled` | inductive with `TypeInv`: each action moves an event from one term of the sum to the next |
| `ThresholdNeverOverpaid` | `TimerInv`: the threshold moves in steps, at most one per period of the timer, and while `updateThreshold` is under way (`DecideInv`), the value its next step takes from `timeElapsed` or `flux` is its own, and so computed after the last date served, or was just stored there by `captureOutput`, and that store pays for the step (`PaidAhead`; `Stores` counts them, two per event). The bound, 20 per event, is over all interleavings of the loads and stores of the two threads |
| `NoReadOutOfBounds` | `ScanInv`: during a scan the cached geometry is that of some frame of the same width as the frame at hand, and the point is inside it; `IndexInBuffer` for the arithmetic. No assumption on formats: several layouts may share a width, and a read is in bounds unless the buffer shrank with the width unchanged |
| `ScoresBracketed` | `CopyInv`: the copy of the threshold lies between the initial and the current one as soon as a frame was seen; with `ThresholdNeverLowered` |
| `StopIsPrompt` | `StopInv`: after Stop the session does not run, and as long as the frame in flight is still being scanned no event has been counted since |
| `ImagesAreOfEvents` | `ImageInv`: the shared image is that of the last event rendered, whose number is the counter or, between counting and rendering, one less; needs `EventFramesKept`, which follows an event from imageQueue through the main queue to its record |
| `ScansCountBrightPixels` | The count of a finished scan is bracketed, not exact, as the timer may raise the threshold between two pixels; the layout is the frame's own. `CountInv`: the count lies between the numbers of sampled points visited so far that are bright under the current and under the initial threshold (`BrighterUnderLower`); the set of visited points grows by one per step (`ScanAddsPoint`), by cardinality theorems instead of induction |
| `BlindStaysBlind` | no state predicate: a step that leaves the threshold above every sample keeps it there (`NextBlind`), since samples are bytes and the threshold never falls |
| `EventStoreProofs!TypeCorrect` | `WriteIdsOK`: acknowledged writes were applied, applied ones are in the log, an ack in flight names an applied one |
| `UrlIsLast` | `OrderInv`: everywhere a url can be on its way (upload running, shared queue, disk, server) the other fields of its record are ahead of it. It needs the order of the log, not of time: a crash drops a whole suffix |
| `ListenersGetCurrent`, `RecordsCastSafely`, `ShownStaysShown` | `ClientInv`, device by device: acknowledgements arrive in the order of the writes (`AcksInOrder`), and the trees the cache will go through as the inbox is read (`Path`) only grow (`OnlyGrows`), end in the server's and have a write before its acknowledgement (`Heard`), and have every write that left the disk (`NothingForgotten`). The last two assume `~CrashInAck`; `eventstore_ackcrash` is why |
| `WriteQueueProofs!BatchesAreAtomic`, `AnswersAreLogged` | `WriteInv`: `QueueInv` (behind the first writer all wait unanswered), `GroupInv` (the group is a prefix its leader may answer for), `LogInv` (its record is the last of the log), `DataInv` (what lies beyond `last_sequence_` is of the group being inserted, the rest is of answered writes, all of each), `BeforeInv` (sequence numbers follow the order of calls). Any number of threads, any batches and sizes; a batch's entries are counted through the bijection between places in the group and sequence numbers (`NumbersOfEntries`) |
| `SkipListProofs!NothingIsSteppedOver` | `SkipInv`: `ListInv` (every level is an increasing list whose nodes are in the level below), `InsertInv` (the writer is linked below its level and knows the link to cut above it), `ReadersInv` (a search stands on a node of its level before its key, and between it and the node it has seen nothing is missing that was there at its start) |
| `ConcurrencyProofs` | carries these three over to `MCConcurrency`, and proves of its formulas: |
| `LockTableExcludes` | `TableInv`: a thread between insertion into and removal from the lock table is the only one of its process there, and the process is in the table; the system's lock plays no part |
| `LimitsAreKept` | `LimiterInv`: the counter of a limiter and the number of threads that hold a share of it add up to the limit; `ShareTaken` needs the second test of the counter |
| `CacheIsBalanced` | `CacheBalanced`: for every shard, `Good`, that is `Counted` (an entry's references are the handles of clients and the cache's one; the LRU and in-use lists hold each cached entry once; the usage is the sum of their charges; the deleter ran for exactly the entries without references) and `Finds` (every bucket lists the cached entries that hash to it, once each, and no two have equal keys). Both are stated of the state a method works on, so that they hold between its steps: `FinishErase` turns the cache's reference into a handle and gives that back, `Resize` moves whole chains (`MovedChain`), the loops keep them round by round (`EvictionsKeep`). `Kept` says that other shards are not touched |
| `UserBehindEveryScreen`, `RowsShowTheRecords` | `AppInv`: a stack over one `LoginVC` in which only the last screen may run a camera; a Firebase user exists once any later screen does; each screen's rows are the records its listener was told of |
| `DBFilesProofs!NothingInUseIsDeleted`, `SyncedWritesAreFound`, `OpenFindsEverything` | `FilesInv`, below |
| `LSMTreeProofs!LevelsStayInOrder` (`MaxRangeCalls = 0`) | `LevelsInv`, below |
| `ApproximateSizesStayBounded` (`MaxRangeCalls = 0`) | `EntriesInv`: an entry is in one file, a file in one level, and the memtables are newer than all tables; so the sums of `ApproximateOffsetOf` count a union of disjoint sets (`OffsetsCountEntries`), and the files after the first one past the key add nothing (`FilesBeforeCount`). Of a table what is counted (`Counted`) lacks at most the last block before the key (`PassedButForABlock`: a shortened index key stays between the blocks it separates, `IndexBetweenBlocks`, and a block ends near every entry, `BlockEndNear`) and has nothing behind it, and it grows with the key (`PassedIsBelow`) |
| `SmallerLevelsStayNewer` (`MaxRangeCalls = 0`, `MaxSnapshots = 0`) | `NewerInv`, below |
| `TreeImplementsMap` (`MaxRangeCalls = 0`, `MaxSnapshots = 0`) | `LatestInv`, below: the refinement, step by step. The map's `updates` are the writes made to the tree, and the value of a key is the number of the update that put it, so the theorem says that a read gives the last write of its key (`ReadsHistory`) |
| `DatabaseProofs` | carries the theorems of `DBFilesProofs` and, but for the refinement, of `LSMTreeProofs` over to `MCDatabase` |

`FilesInv` says of the disk (`DiskInv`) that CURRENT's manifest, cut at any length a crash may
leave, describes a database: tables that exist and are synced, and logs from a number on, which
together have every promised write in a place where any reader finds it (`SurelyRead`) and each sequence number
once. A write is promised when it was acknowledged after a sync and no append to its log had failed
before; behind a failed append a reader may find anything of what follows or nothing, so nothing is promised there. The rest is why
every step keeps that. Of an open database (`OpenInv`): file numbers are fresh; each
memtable is its log; what the manifest may say after a crash is never more than the
memory knows (`ManifestInv`, which distinguishes an edit appended, synced and installed);
outputs have the data of what they replace and are pending (`WorkInv`); the edit under way has
numbers at least those of the manifest (`EditInv`). Of `DB::Open`: what the replay has turned
into tables so far (`ReplayInv`), and the snapshot that becomes the only record of a new
manifest before CURRENT names it (`SnapshotInv`). `DB::Open` refuses a database only if an edit
follows the piece of a failed one in the manifest (`CorruptInv`), which the flush after a failing edit of a merge
brings about; `SyncedWritesAreFound` holds there too, since it is about the disk. TLC finds `FilesInv`
true in all 945,872 states of `DBFiles` within the bounds of `database`.

`LevelsInv` and `NewerInv` say why a flush in the middle of a merge does no harm. A
compaction that `PickCompaction` chose has inputs *without a gap* (`Gapless`): its files
cover every user key between the smallest and the largest, because level 0 takes files until
none outside touches the range (`InputsOfLevel0`: the restarts of `GetOverlappingInputs`
come to an end), and parents and expansion add files that touch it. So a memtable flushed
during the merge, which overlaps no file of the level it goes to or of any level above, lies on one side
of all inputs (`FlushedFileIsBeside`), and of the outputs, which lie within them.
`LevelsInv` keeps that (`InputsStand`), the binary search of `FindFile` finds what is
there (`FindsFile`), and every file charged for a seek is one of the version (`Charged`).
`NewerInv` adds that what is not an input is newer than the inputs or has none of their
keys (`OthersAreNewer`), and that no user key is split between two files of a level above 0
(`KeysBeside`). The hypotheses are needed: `lsm_gap` breaks the first theorem with one
`CompactRange`, `lsm_splitkey` the second one with one snapshot.

`LatestInv` is about what a lookup must still find. The memtables and tables hold only
entries that were written, and *retain* (`Retains`) of every key the newest one, unless that is
a deletion and nothing of the key is left. A merge drops an entry behind a newer one of its key
(`OlderIsDropped`), and a key's newest entry only if it is a deletion with nothing below
(`NewestIsKept`, `NothingBelow`); all else comes out in some output
(`MergedInPieces`). So of a running merge `Forgets` says: where the newest of the inputs is
missing from the outputs, the outputs have nothing of the key, and the tables nothing older. A
flush in between brings newer entries only (`FlushForgets`), and so the installation keeps
`Retains` (`MergeRetains`). Of level 0 a larger file number means newer data (`Level0IsNewer`).
With `NewerInv` it follows that `ForEachOverlapping` lists every file that has the key, the newest data first
(`ProbesInOrder`, from `FindsFile` and by induction over the levels), so that the first
file to answer in `Version::Get`, and the first of memtable, immutable memtable and version
in `DBImpl::Get`, gives the newest entry (`VersionGetAnswers`, `LookupAnswers`), which is the last
write of the key or stands for its deletion (`ReadsTheHistory`). Hence a step of the tree that is no
`Write` leaves the map as it is, and `Write` is its `Put` or `Delete` (`StepOfTheMap`).
TLC finds `LatestInv` true in all 3,659 states of a tree with 5 writes of 2 keys (deletions of one, as in `database`), 4 levels and 1 entry per output file.
The theorem assumes `NullIsNoTable`: `NULL`, no entry and no memtable in the code, is
neither an entry nor a set of them. Snapshots and `CompactRange` in the refinement are left to the
run `lsm_implements`, as the refinement itself can only hold with them for files large enough.

`UrlIsLast` covers detections with equal keys of any number of devices; the run has one
detection, so that case is proved and not model-checked.

Only model-checked:
- the liveness properties (`WritesReachServer`, `EveryEventRecorded`, `EveryCallReturns`,
  `ScheduledWorkRuns`, `CompactRangeReturns`): fairness and ENABLED are beyond the prover;
- `ImplementsKVStore` with snapshots held or calls of `CompactRange` (`lsm_implements`);
- the properties of `storage`: `Block`, `Iterators`, `LogFormat` and `Nanopb` define recursive
  operators, which are out of the prover's reach.

## Plan

Done: all modules above, and the proofs listed.

Next, in this order:
1. `ImplementsKVStore` with snapshots, under a hypothesis on output files that excludes a split key.
2. A composition of `Detector` and `EventStore` through `addDetection`.
3. `RepairDB`, which rebuilds a manifest from the files that are there.

## Not modelled

- Declarations: most of the repository's implementation lines are headers of the Firebase
  pods, of GTM and of Google's sign-in, whose code is not in the repository or is called by the app
  only in the few ways `AppScreens` and `EventStore` take from it. All `.c` and `.cc` files together
  are a third of the lines counted; the modules map about half of them, and nearly all of the
  app's decisions.
- `RepairDB`, `DumpFile`, `db/c.cc` and the tools: no code of the app or its pods calls them.
- Encodings, checksums, hashing, allocation and formatting in LevelDB's `util/` and
  `db/dbformat`, `db/version_edit`, `db/write_batch`: data the models abstract.
- Firebase: queries, transactions, priorities, presence, authentication's inside; Firestore
  (configured, never used); GTM.
- The app: `DetectionHelper` (an earlier copy of the detector no screen uses), `InfoVC`,
  `HistoryTableViewCell`, layout, sounds, the location manager (its result is only
  printed), `logOut` and `eraseDetections` (called by no screen).
