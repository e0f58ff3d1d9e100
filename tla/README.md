# TLA+ verification of diffkeeper

DiffKeeper is a flight recorder for a filesystem: `diffkeeper record` runs a
command, watches a directory, and keeps every version of every file it sees
change; `export` restores the directory as of a moment, `timeline` lists the
recorded writes. This directory models the recorder and the components beside
it, model-checks them with TLC on small instances, and proves the central
properties with TLAPS for all instances.

## The system

| Part | Source | State | Operations |
|---|---|---|---|
| record session | `main.go` `runRecord` | database handle, session start | open, record start, run command, sleep 200 ms, flush, stop, close |
| filesystem watcher | `main.go` `startFSRecorder` | inotify watches, event in hand | receive event, watch new directory, read file, log |
| journal | `pkg/recorder/journal.go` | keys `l:<time>:<random>` | `LogEvent` (not synced) |
| processor | `pkg/recorder/worker.go` | iterator over the journal | put object, write metadata, delete journal key |
| content store | `pkg/cas/store.go` | keys `c:<cid>`, `m:ref:<cid>` | put, get, references, garbage collection, statistics |
| read side | `main.go` `runExport`, `runTimeline` | output directory | choose versions, clean paths, write files, list offsets |
| eBPF manager | `pkg/ebpf/manager_linux.go` | probes, ring readers, channels | `NewManager`, `Start`, two consumers, `Close` |
| BPF programs | `ebpf/diffkeeper.bpf.c` | two ring buffers | emit a record, or drop it |
| profiler | `pkg/ebpf/profiler.go` | samples, averages | record, flush, hints |
| BTF loader | `pkg/ebpf/btf_loader_linux.go` | cache directory | look up, download, extract |
| chunker | `pkg/chunk` | rolling hash | next chunk, reassemble, verify |
| Merkle trees | `pkg/merkle` | tree cache | build, prove, verify |
| diffs | `pkg/diff` | none | compute, apply |
| metrics | `internal/metrics` | counters, gauges, HTTP server | observe, serve |
| configuration, helpers | `pkg/config`, `internal` | none | parsing, validation |

How they interact. The watcher goroutine turns a file event into a journal
entry. The processor goroutine scans the journal and, per entry, writes the
object, then the metadata record `m:<path>:<time>`, then deletes the journal
key; each write is synced, the journal's are not. `export` and `timeline` read
only metadata and objects, never the journal. `runRecord` owns the database
and closes it without waiting for either goroutine. The eBPF manager runs
beside all this; nothing reads its channels.

What is hard about it: a crash between any two of the three writes; unsynced
journal entries; errors and retries of single writes; an iterator over a
journal that grows; a file that changes between the event, the read and the
timestamp; a bounded event queue; directories that appear while they are
watched; several sessions on one state directory; a shutdown that waits for
nobody; `Start` racing `Close`; a consumer blocked on a full channel; a state
directory inside the watched tree; an export that fails half way or is repeated
into the same directory; a BTF cache that several processes fill at once.
`PROJECT.json` lists these hazards line by line with the properties that
cover them.

## Modules

**Recorder** is the pipeline: session, journal, processor, database. The
database is four maps (`journal`, `cas`, `meta`, `sessionStart`) plus
`unsynced`, the journal entries committed since the write-ahead log was last
synced. Pebble's log is sequential, so any synced commit syncs all earlier
ones, and a crash keeps a prefix of `unsynced`. Only journal entries are
written unsynced, so nothing else need be in it. Each database write is an
action: `PutChunkWithHash`, `SetMetadata`, `DeleteJournalKey`; `ProcessError`
is a failure of any of them. `BeginPass`, `NextEntry`, `EndPass` and `Idle`
are `processorLoop`. `OpenStore` ... `ExitProcess` follow `runRecord`;
`Crash` may happen at any point, and `OpenStore` may follow. A file's content
is a model value, its hash and its compressed form are tagged values, so that
reading one for the other is seen. `logged`, `lost` and `startFailed` are
history variables.

**VersionHistory** is what the pipeline promises, with no database in it: a
version is accepted, then published once and for good, or lost in a crash
together with all later unpublished ones. `Recorder` implements it under the
mapping in `Recorder!History`.

**FlightRecorder** extends Recorder with the directory tree, the kernel's
bounded event queue and the watcher goroutine. `WriteFile`, `RemoveFile` and
`MakeDir` are the environment; `ReceiveEvent`, `AddWatch`, `ReadFile`,
`LogCaptured` and `StopWatching` are the goroutine; `LogCaptured` takes the
`LogEvent` step of Recorder. The calls of the goroutine may fail: a watch that
cannot be added, a file that is there and cannot be read, an event that cannot
be logged; the code ignores each error. `unseen` remembers the files whose last
change raised no event, or whose event was dropped by the queue or by such an
error, with no further event of the file still to be handled.

**CASStore** is the store with its reference counts and garbage collector,
used by one caller in any order of calls. A reference record is a counter and
a set of files, which the code updates separately. `BeginGC`, `Collect`,
`EndGC` and `FailGC` are a collection, one deletion at a time; `foretold` is
what `GetStats` would have reported when it began.

**EbpfManager** is the manager as `runRecord` drives it. The two streams
(write events, lifecycle events) share their definitions and differ where the
code does, in how the channel is closed. `CloseManager` and `CancelContext`
are the deferred calls; `Start` runs in a goroutine of its own.

**Export** is the read side over the records a recorder leaves: `ExBegin` opens
the store, parses `--time` and chooses the versions; `ExWriteFile`, `ExBlocked`
and `ExWriteFails` are one turn of the loop, in any order, as the loop ranges
over a Go map; `ExFinish` is its end. Exports may be repeated into one output
directory, with more recorded in between. A path is a sequence of dots,
separators and names, so that `cleanPath` is modelled by what it does.

**SelfCapture** is a session whose state directory may lie below the watched
one. It keeps of a file only whether the command or the database writes it:
`ScNotify` is the event that a commit to the database then raises. Reading,
logging and processing may fail, and some contents can never be stored.

**Chunker** drives `RabinChunker.Next` byte by byte (`NextByte`, `NextEof`,
`NextReadError`) with the rolling hash in machine words that wrap (`Base`,
`WordBytes` and `Mod` are 256, 8 and 2^61 - 1 in the code, and constants here),
and has `SplitFile`, `ReassembleChunks` and the chunk checks as operators.
`ckLost` counts the bytes that a `Next` which returned a read error had taken
from the input.

**Merkle** has the tree cache, proofs and verifications; a hash is the term it
is computed from. The tree itself is a library, modelled from its use.

**Profiler** is the moving average and the hot path scores, in exact fractions.
**Metrics** has one action per atomic operation of `ObserveStorageSavings` and
`ObserveChunk`, and `Serve` with its goroutine and with clients that may stall,
for which `Shutdown` waits without limit. **BTFLoader** is `LoadSpec` in
several processes that share a cache directory and may be killed. **DiffChain**
is the special-casing of empty data in `pkg/diff` over chains of versions.

**RecorderProofs**, **FlightRecorderProofs**, **ExportProofs**, **AgentProofs**
(eBPF manager, BTF loader, profiler, metrics, self-capture), **DataProofs**
(chunker, diffs), **HashProofs** (the chunker's rolling hash) and
**MerkleProofs** (content store, Merkle trees) hold the theorems; **Induction**
holds the induction principles they share. **MCFlightRecorder**, **MCExport**
and **MCChunker** give the values that a configuration cannot write down.
**MCComponents** puts the parts that share no state into one instance: `active`
names the part that moves in a behaviour, so their state spaces add up and do
not multiply.

Definitions such as `DropOnError`, placed before the definition they vary, are
slips the code could have. No specification uses them; they show that each
property notices a fault.

## Model checking

| Run | Configuration | Result | Shows |
|---|---|---|---|
| recording | `MCFlightRecorder.cfg` | pass | watcher, journal and processor over a changing tree: nothing lost, dangling or rewritten; a stale read is followed by another; refinement of VersionHistory; a noticed change becomes visible |
| components | `MCComponents.cfg` | pass | the parts below, each on its own |
| drain_at_exit | `RecorderExit.cfg` | violation | the session can end with an undrained journal |
| wall_clock | `RecorderWallClock.cfg` | violation | equal clock readings merge two versions |
| new_directory | `MCFlightRecorderNewDir.cfg` | violation | changes in a new directory are missed |
| removed_file | `MCFlightRecorderRemoved.cfg` | violation | removed files are restored |
| timeline_pick | `MCExportPick.cfg` | violation | the offset timeline prints lies before the write |
| self_capture | `SelfCaptureTimeline.cfg` | violation | the recorder records its own database |
| hash_window | `MCChunkerWindow.cfg` | violation | with a window beyond a word the hash is not the window's |
| merkle_proof | `MerkleProof.cfg` | violation | the proof of a CID other than the first is refused |
| padded_root | `MerkleIntegrity.cfg` | violation | a list with its last CID repeated passes for the list |
| ebpf_flow | `EbpfManagerFlow.cfg` | violation | the ring buffer stops being read |

`recording` checks of the pipeline that a record's object is there and is what
was logged (`MetadataBacked`), that what no crash took is in the journal or
published (`NoVersionLost`), that a crash takes a tail (`CrashTakesOnlyTail`),
that history only grows and what export shows of the past never changes
(`AppendOnly`, `PastIsFrozen`), and `ImplementsHistory`; of the watcher
`StaleReadIsFollowed` and `LatestIsCurrent`; and under fairness
`DrainedWhileRecording` and `ChangeBecomesVisible`, which hold behind a content
that can never be stored as well.

What `components` checks of each part:

* Export: a successful export is the moment asked for (`ExportIsTheMoment`);
  after any failures and repetitions each file is a whole recorded version or
  one whose write failed (`EveryFileIsAVersion`); without I/O errors export
  fails only on an unusable time or on records that clash (`FailsOnlyOnClash`).
  `ExportIsTheMoment` leaves open what a destination shared by two paths holds:
  `cleanPath` can map two recorded names to one, and the map's order decides.
* Chunker: the chunks are the input, in order and without overlap, but for the
  bytes that failed reads dropped (`ChunksAreTheInput`). `Next` drops what it
  has collected when a read fails, and the offset goes on without it: after
  an error, offsets are too small by the bytes dropped so far, so that
  "Byte offset within the file" (`streaming.go:15`) holds only up to the first
  error. The one caller stops there. Sizes are bounded (`ChunkSizesBounded`),
  splitting is invertible and swapped chunks are noticed (`SplitRoundTrips`).
  With a window of at most 8 bytes the hash is the window's
  (`ShortWindowRolls`); with a longer one, the default of 64 included,
  base^(window-1) has wrapped to 0 and the hash is of every byte since the
  chunker was made (run `hash_window`, theorem `HashCoversWindowOrAll`).
* Merkle: no foreign CID is accepted, whatever proof it comes with, and the
  proof of a tree's first CID is (`ProofVerdict`); of the others' proofs most
  are refused, as siblings are always appended on the right (run
  `merkle_proof`). A root tells lists of one length apart and accepts no list
  with a foreign or a missing CID (`RootIdentifiesFile`), but it does accept a
  repeated tail (run `padded_root`).
* Profiler: `HotOnlyIfBusy`, `HintsFollowEstimates`. A path that falls silent
  keeps its score.
* Metrics: `CountersConsistent` at any moment; the gauges are exact only while
  calls do not overlap (`RatiosExactAlone`), the dedup gauge moving only when a
  chunk is reused; `Serve` ends with its context, unless clients stall for ever
  (`ServeEnds`), and cuts off no request (`NoScrapeCutOff`).
* BTF loader: `TempFilesRemoved`; the cached file is damaged only after a
  broken extraction or an overlap (`DamagedOnlyIfBroken`, `WholeStaysWhole`).
  It is written under its final name, so the damage is permanent. A file that
  was copied to its end parses: what BTFHub publishes is taken to be sound.
* Diffs: `ChainReconstructs`. Store: `CountIsNumberOfFiles`,
  `ReferencedSurvives`; a collection, also one that fails half way, deletes what
  the statistics called unreferenced (`CollectsWhatStatsReport`).
* eBPF manager: no channel is closed twice or sent to when closed
  (`NoChannelPanic`), nothing stays attached (`NothingLeaked`), the consumers
  end (`ConsumersStop`).
* SelfCapture: with the state directory elsewhere the recorder comes to rest
  once the command has ended (`CatchesUp`); with it inside, it never does, as
  long as no read and no log call fails (`NeverRestsInside`).

The time a version is filed under is taken after the file is read. A change in
between leaves the older content under the later time; `StaleReadIsFollowed`
shows that the change has then raised an event of its own that is still to be
handled, so the gap closes, and `LatestIsCurrent` that it has closed when the
pipeline is quiet.

The violations are disagreements between the documentation, comments or tests
and the code; the findings in `PROJECT.json` quote the sentences. One more
needs no run: the eBPF guide promises that a program that cannot be loaded
leaves the recording to the filesystem watcher, and `NewManagerFails` shows in
one step that `runRecord` returns instead; nothing reads the setting
`FallbackFSNotify`.

Bounds of the recording. Three clock readings give a session start and two
events, or three events when writing the start fails; two events are enough for
every pairwise hazard (order, collision, one lost and one kept, one in hand
while the other arrives). One error (`MaxFaults`) suffices because a retry
leaves the state as before it. Crashes and sessions are not bounded by a
counter, only by the clock. Two changes of the tree or failed calls on it
(`MaxOps`) overflow a queue of one event, change a file between its event, its
read and its timestamp, and write below a directory whose watch failed.
`ClockAtBound` excepts from `ChangeBecomesVisible` the states where the clock
has run out before the watcher has logged. One of the three contents can never
be stored. The file in the watched directory first holds one fixed content or
none: nothing reads a file before its first event, so that other contents give
the same behaviours. Symmetry is not used, as the run checks liveness.

Bounds of `components`. Export: three records, two exports and four paths, a
file, a file below it, and two names of dots, so that clashes and shared
destinations occur; a second has two clock readings. Chunker: eight bytes of
two values, one read error, and words scaled from 64, 8 and 61 bits to 8, 2 and
7, which keeps what wraps: base^3 still fits below the prime, base^4 is 2^8.
The requests are a valid one, one whose window does not fit a word, one upside
down and one left to default. Merkle: lists of up to four CIDs have an odd
leaf, which is repeated, and two levels of siblings; the odd node that longer
lists have is left to the proof, which is for every length. Profiler: three
windows. Metrics: two callers, three calls; two clients. BTF: two processes,
four loads. Diffs: six versions. SelfCapture: the journal holds three entries;
`Settles` excepts the states where it is full of entries that can never be
stored. eBPF manager: the ring and the channel of two records fill up within
four.

Fairness. Weak fairness of the processor and of the watcher: the Go scheduler
runs a runnable goroutine, and neither waits for another. Nothing is assumed
of the command, the tree, the kernel's probes, errors or crashes. In
EbpfManager, weak fairness of `Start`, of the consumers and of the deferred
cancel, which does not block. In Metrics, weak fairness of `Serve`, of its
goroutine and of the goroutines that answer requests, each as far as it waits
for no client; no client has to do anything. In SelfCapture, of the watcher and
of a successful step of the processor: it tries again in every pass what is
left, and what can be stored does not fail for ever. Recorder's session steps
are not fair: a command may run for ever.

The clock. `MonotonicClock` says that every reading of the wall clock exceeds
the last, across sessions. `time.Now().UnixNano()` does not promise that; the
run `wall_clock` drops it and shows what then fails. `MetadataBacked` and
`LostOnlyToTwin` do not need it.

## Proofs

TLAPS checks every theorem for all values of the constants. The assumptions are
the named `ASSUME`s of the modules, which TLC evaluates in the runs, and, where
stated, `MonotonicClock`. Every safety property that a passing run checks has a
theorem; `PROJECT.json` lists them.

**Recorder, with any clock.** `TypeCorrect`, and `MetadataAlwaysBacked` from
`StoreInv`. The property alone is not inductive: a crash could take the entry
that backs a record, and a record is written one step after its object.
`StoreInv` adds that an entry in hand is in the journal, that a stored object is
the compression of what its CID hashes, that the object is there before the
record is written, and that the entry behind a record is synced.
`AnyClockInv` adds that an entry which left the journal has left a record under
its key, that no two entries share time and suffix, and that the log is synced
whenever no watcher can run. From the two:

* `LostToTwinsOnly`: what the violation in `wall_clock` leaves of
  `NoVersionLost`. An event that no crash took is in the journal, or its path
  and time have a record with its content in the store, its own or that of
  another event of the same path and nanosecond.
* `CleanCloseKeepsEvents`: what the violation in `drain_at_exit` leaves. A
  session that closes the database leaves every event to the next one; only
  the end of the process between the watcher's start and `db.Close` takes any.
* `PassHasNextEntry`: the iterator's next entry exists and is unique, so
  `NextEntry` is a function of the state, as `iter.Next` is.

**Recorder, with an advancing clock.** `IndInv` adds that times identify
entries, that a journal key goes only after its record is written, that the
unsynced entries are the last ones in order, and that the session start is
known before the watcher runs. From it `NeverLost`, `StartAlwaysPrecedes`,
`HistoryIsAppendOnly`, `CrashLosesTail` and `ExportOfPastFrozen`.

* `NoHoles`: as long as no write failed, export never shows a version without
  every version logged before it, of whatever path, in the middle of a pass and
  after any crash. The invariant is `OldestFirst`: what has left the journal is
  older than what is in it, only its oldest entry can have a record already,
  the entry in hand is the oldest, and what a pass does not see is newer than
  all it has still to visit. One error breaks it for good, as the processor
  goes on with the next entry; hence the premise.
* `Refinement`: `Recorder` implements `VersionHistory`. `LogEvent` accepts,
  `SetMetadata` publishes (or stutters, on a retry), a crash that takes
  something is `LoseFrom` the time of its first victim, all else stutters.

**FlightRecorder.** `WatchedRecorderIsRecorder`: every step of the watched tree
is a step of Recorder or leaves its variables alone, so that what is proved of
the pipeline holds with the watcher in front of it, `WatchedHistory` included.
`FRTypeCorrect`, `StaleReadsFollowed` and `LatestExportCurrent` (both with an
advancing clock) from `FRIndInv`. `StaleReadIsFollowed` is not inductive: a
newest version that is current does not help when the watcher holds stale
content, which it will log later, and a crash may take the newest version.
`Followed` therefore asks for another queued event in the first case and for a
version no crash took in the second.

**Export.** `ExportRestoresTheMoment`, `ExportFailsOnlyOnClash`,
`ExportedFilesAreVersions` from `ExIndInv`: what the running export has written
of what it chose, and which record put each file and directory there. The loop
of `loadMetadataAt` is a fold over a set in any order; `LoadIsHeld` shows that
it chooses the newest record of each path. `StripUpFacts` and `DestInside` show
that `cleanPath` leads out of no directory, for every path `filepath.Rel` can
give (`PathAssumption`).

* `TimelineIsGoodToASecond`: what the violation in `timeline_pick` leaves. An
  export one second after the offset that `timeline` prints for a write
  restores that write or a later one of the path.
* `PastHeldForGood`: what a path held at a past moment never changes.

**Store.** `CountsAreRight`, `CollectorSparesReferenced` from `CountInv`: the
counter is the size of the file list, which is finite. The collector looks only
at the counter, so the second rests on the first. `CollectorFollowsStats` holds
in the middle of a collection and after one that failed: what is deleted and
what is still unreferenced are disjoint and together are what the statistics
reported.

**eBPF manager**, for all sizes of ring and channel. `TypeCorrect`: neither is
ever over its capacity. `ChannelsNeverPanic` from `ChannelInv`: consumers exist
only after `Start`; the write channel is closed only by its consumer's end; the
lifecycle channel's field is cleared when it is closed, and its consumer runs
only while the field is set. `CloseReleasesAll` from `LeakInv`: without a
manager nothing is attached. `RecordsStayInOrder`: records may be dropped in
three places, but the channel, the consumer's hand and the ring hold them in
the order of their production, none twice. `ConsumersCanStop` is the part of
`ConsumersStop` without fairness, from `StopInv`: when `runRecord` has returned,
a consumer in `Read` has a closed reader, one in a send has a cancelled context,
and one that ended, or that `Start` never launched, has its channel closed.

**BTF loader, profiler, metrics, self-capture.** `DamageHasACause` and
`WholeFileKept`, for any processes, from `BtInv`: while no loads overlap, one
process at most is loading, it downloads only into an empty cache and copies
into a file it created (`LoneLoader`), and a partial file has a broken
extraction or a copy behind it (`PartIsBroken`). `NoTempFileLeaks` is inductive
with the types, given finitely many processes. `HotPathsWereBusy` and
`HintsAreCurrent` for all rates between 0 and 1 and all thresholds; the first
rests on `MeanBounded`, a weighted mean is at most the larger value.
`CountersStayConsistent` for any set of callers from `MeAccounts`, which says
what each call under way has still to add; `RatiosExactForOneCaller` from
`MeAlone`; `ServeCutsNothingOff` from `MeServeInv`: idleClosed is closed only
when no request is left, and `Serve` waits for it. `RecorderFeedsItself` is
inductive with the types.

**Chunker and diffs.** `ChunksCoverTheInput` (for any number of failed reads)
and `ChunkSizesStayBounded` from `CkIndInv`, for every `Params` a caller may
give; `SplitAndReassemble` for every input and chunk size; `ChainsReconstruct`
for chains of every length. `HashCoversWindowOrAll` and, from it,
`ShortWindowsRoll` (HashProofs) for every base, word and modulus of which the
code's are one case (`HashAssumption`): with a window of at most a word the
powers stay below the modulus, so evicting the oldest byte is exact modulo it;
with a longer one the power has reached the word's size and wrapped to zero, it
stays zero, and no byte is ever evicted.

**Merkle.** `AcceptedProofsAreSound`, `RootsIdentifyFiles` from `MkIndInv`, for
lists of every length: hashes are terms, so equal roots of lists of one length
give equal leaves, level by level, padding repeats only leaves of the list, and
a proof that appends siblings on the right reproduces a root only from a leaf
of its tree.

How the inductions are done. The library's induction theorems have an operator
as parameter, which the provers cannot instantiate. Induction states them for a
set: a set that has 0 and every successor has all naturals, a family of subsets
that grows by elements has every subset of a finite set; both follow from the
well-foundedness of an ordering. That a recursive function satisfies its
equation is proved by showing, by such an induction, that some function does.

In each proof module a leaf goes to Zenon unless it names SMT or PTL.

TLC checked each inductive invariant on the constants of the runs before it was
proved. The properties that only theorems state (`LostOnlyToTwin`,
`CloseKeepsEvents`, `NextEntryDetermined`, `NoHoleWithoutErrors`,
`RecordsInOrder`, `NoConsumerStuck`, `NextSecondRestores`, `PastMomentsFixed`,
`HashCovers`)
it checked in the same way; they can be added to the configurations of their
modules. `LostOnlyToTwin`, `CloseKeepsEvents` and `NextEntryDetermined` hold
with the constants of `RecorderWallClock.cfg` too.

Only model-checked: the five liveness properties `ChangeBecomesVisible`,
`DrainedWhileRecording`, `ConsumersStop`, `ServeEnds` and `CatchesUp`. Fairness
and ENABLED are outside the prover.

## Not modelled

* Renames, other than as a removal and a creation, and the removal of
  directories; inotify's merging of equal adjacent events, which only makes
  fewer events of the same content.
* Errors in opening the database and in starting the command, other than as
  an early end of the session; Pebble's own failures of a synced commit, other
  than as an error that leaves the database as it was.
* Names and sizes: the JSON encoding, `formatSize`, the timeline's layout but
  for its offsets.
* The URL and names the BTF loader derives from the kernel's release: they
  choose what is downloaded. Files put into the cache by hand: the BTF guide
  advises one for an architecture BTFHub lacks, but `Lookup` shows in one step
  that such a host fails before it looks into the cache.
* Of metrics, the helpers that pass one value to one Prometheus collector; of
  the configuration, reading environment variables into fields. Neither has a
  step in which an order or a failure matters.
* Permission bits, path prefixes and the version string: pure functions that
  no command calls. The demo is a program to record, not part of the recorder.
* Collection on a recorder's own store, and reference records in the export's
  prefix: no command collects or adds references, so no behaviour of the
  program has either. The recorder's objects have no references, and a
  collection would delete them.
