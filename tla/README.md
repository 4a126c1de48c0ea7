# Verification of the single-module acquisition chain

TLA+ models, TLC runs and TLAPS proofs for the program in `src/`: a sender that
streams fixed-size sample frames over TCP, a receiver that validates them and
stores them in segment files, and the tools that check what was stored.  Paths
below are relative to the repository (`src/...`).

Contents: [inventory](#1-inventory) · [modules](#2-modules-and-the-code) ·
[runs](#3-runs) · [findings](#4-what-does-not-hold) ·
[fairness](#5-fairness) · [proofs](#6-what-is-proved) ·
[limits](#7-abstractions-and-what-is-only-model-checked) · [plan](#8-plan)

## 1. Inventory

```
 sender/main.cpp                                receiver/main.cpp
 +---------------------------+        +--------------------------------------------+
 | simulator / --input files |        | acquisition thread (main)                  |
 |   -> encoder -> send_all  |--TCP-->|   recv into slot -> parse -> observe ->    |
 |   -> --save-sent writer   |        |   publish -> notify_one                    |
 +---------------------------+        |        |  CaptureQueue (SPSC ring)         |
                                      |        v                                   |
                                      | capture worker: consumer_slot -> write ->  |
                                      |   release -> flush every 200 -> wait       |
                                      +--------------------+-----------------------+
                                                           v
                   frame_compare, verify_bin  <--  captures/raw/segment-*.bin
```

| Component | State it keeps | Operations | Talks to | What makes it correct |
|---|---|---|---|---|
| Capture queue (`receiver/capture_queue.*`) | slots, two atomic indices | `has_space`, `producer_slot`, `publish`, `consumer_slot`, `release`, `empty`, `size` | shared by the two receiver threads, no lock | bounded FIFO; the threads never touch one slot together |
| Receiver session (`receiver/main.cpp`) | loop position, exit code, `acquisition_done`, `writer_failed`, high-water mark, `writes_since_flush` | acquisition loop, capture worker loop, condition variable, shutdown and `join` | queue, TCP receiver, parser, loss detector, writer | what is stored is a prefix of what was validated; the exit code tells the truth; the process ends |
| Continuity check (`receiver/loss_detector.*`) | `ContinuityStats`, `seen_any_` | `observe` | called by the acquisition thread; read for the metrics row | no anomaly can hide; the counters account for the span |
| Capture files (`common/capture_writer.*`, `common/capture_reader.*`) | open segment, frames written, stream state and buffer; the directory | `write`, `open_segment`, `flush`, destructor; `next`, `open_next_file` | worker, `--save-sent`, `--input`, `frame_compare` | what was flushed can be read back after any failure; no holes |
| Sender session (`sender/main.cpp`, `sender/tcp_sender.*`) | frame index, schedule, socket | connect, encode or read, `send_all`, save, pace | TCP, writer, reader | frames go out whole and in order; early exits report failure |
| TCP byte stream (`receiver/tcp_receiver.*`, `sender/tcp_sender.*`) | bytes in flight | partial `send`/`recv`, accept, close | both sessions | a frame is received whole or the connection counts as broken |
| Frame format (`common/frame.*`, `sender/frame_encoder.cpp`, `sender/data_simulator.cpp`, `receiver/frame_parser.cpp`) | none | serialise, deserialise, validate, classify errors | sender, receiver, tools | round trip; damage is refused, and named rightly |
| CRC-32 (`common/crc32.cpp`) | a constant table | `crc32` | frame format | table algorithm equals the bitwise one |
| Latency statistics, metrics row (`common/latency_stats.*`, `common/metrics.*`) | samples | `add`, `average`, `percentile`, `append` | both sessions | percentile equals its definition |
| Frame comparison (`tools/frame_check/frame_compare.cpp`) | two readers, one frame of look-ahead each, counters | merge by frame id, pairing by position for damaged frames | reader, parser | IDENTICAL exactly for identical captures |
| Generator, binary verifier (`frame_gen.cpp`, `verify_bin.py`) | none | one loop | writer / files | straight-line |
| Multi-module runners (`tools/run_*.py`) | child processes, their exit codes | start, readiness, wait, terminate, report | receivers and senders as processes | the verdict is PASS only if every module passed |
| Logger, option parsing | one mutex | `log`; parse arguments | everything | – |
| Legacy T510 parser (`上位机数据格式文件（旧）/`) | – | – | not built | – |

Hard behaviours: two threads share the ring with plain slot memory and two
atomics; the condition variable is notified without its mutex; the worker tests
"queue empty" and "done" one after the other; a failing disk is reported
through a flag, an exit code and a shutdown; a crash leaves torn frames and old
segments; ids chosen by the peer wrap; a frame crosses TCP in pieces, over a
connection that either end or the network may end anywhere; neither `accept` nor
`recv` has a timeout; the runner is interrupted between any two steps and called
again on the same directory.  `PROJECT.json` lists each as a hazard
at its line, with the properties that cover it or the reason why none does.

## 2. Modules and the code

| Module | Stands for | State ↔ code | Actions ↔ code |
|---|---|---|---|
| `BoundedFifo` | what the queue promises | a sequence and what was taken from it | `Enqueue`, `Dequeue` |
| `CaptureQueue` | the ring and its protocol of use | `slots`, `producer_index`, `consumer_index` as in `capture_queue.h`; `producer`, `consumer`: where each thread is | one operator per member function, with its name; one action per step of each thread |
| `QueueMemory` | the ring under the memory model of C++ | `seen`: the newest value of the other thread's index that each thread has loaded; `synced`: how many of the other's uses of slots happen before what it does next | `ProducerLoads` is `has_space`, `ConsumerLoads` is `consumer_slot`, each on any value not older than the last; `OwnStep`: the steps that load no foreign index |
| `Receiver` | both threads of `receiver/main.cpp` after accept | the shared atomics by name; `main_pc`, `worker_pc`: next step of each thread | one action per step with at most one access to shared data: `CheckWriter` … `Join`, `Poll` … `Block` |
| `LossDetector` | `LossDetector::observe` | `ContinuityStats` by name, ids `IdBits` wide | one branch of `observe` per action |
| `CaptureFiles` | writer, its calling loop, the directory, what the reader gets back | `files`: writer process and length of each segment; `stream`, `buffered`: the `ofstream` | `write`, `flush`, `FinalFlush`, `Exit`, `Crash`, `Restart` |
| `CaptureReader` | `CaptureReader::next` over a list of files | `file_index_`, `frame_in_file_`, `trailing_bytes_`, `error_` by name; `is_open`, `opened`: the stream | `next` enters the loop, `open_next_file`, `ReadFrame`, `ReadTail`, `EndOfInput` are its branches |
| `FrameCompare` | `frame_compare` | `pos`: frames each `Side` has read; `invalid`, `out_of_order` of `SideStats`; the counters of `main` | `Refuse`, `Start`, `Missing`, `Unexpected`, `ComparePair`, `Verdict`; `advance` as in `Side` |
| `FrameChannel` | what a session promises about frames | `transmitted`, `delivered` | `Transmit`, `Deliver` |
| `TcpStream` | the connection and the loops at its ends, `TcpSender::send` and `TcpReceiver::receive_exact` | `wire`: units between the ends; `sent`, `got`: the local counts of the loops; `link`: open, or what ended it | `SendSome`, `RecvSome`: one call of `::send`, `::recv`; `RecvEnds`; `Break`, `Garble`: the network |
| `Sender` | `sender/main.cpp` | `frame_id`, the exit code; `readable`: the frames of `sent_capture` that are in its files; `options` | `Start`, `Connect`, `OpenInput`, `PrepareFrame`, `SendPart`, `Save`, `FinishSender` and the early returns between them; `WriteBack`: what the stream of the `CaptureWriter` writes to the files, at a write, a close or in its destructor; `Killed`: a signal |
| `Session` | both processes and the connection, from startup to exit | `startup`: the receiver before its loop | `StartReceiver`, `Listen`, `Accept`; `Ingest`: recv and the checks after it, for `Receiver`'s `ReceiveFrame` and `RejectFrame` |
| `FrameFormat` | `frame.cpp`, `frame_parser.cpp` | `wire`: what the parser is given | `serialize_frame_into`, `validate_frame`, `parse_frame_into` as operators |
| `Crc32` | `crc32.cpp` | `message` | `kTables`, `EightBytes`, `OneByte`, `crc32` as operators |
| `LatencyStats` | `latency_stats.cpp` | `buckets`, `count`, `total`, `min_us`, `max_us` | `add`; `average`, `percentile` as operators |
| `MultiHost` | roles receiver and sender of `run_multi_host.py`, its processes, the output directory | locals of `main` by name; `child`, `code`: the processes; `captures`, `heard`, `summary`: the directory | `Launch` … `WriteSummary` in the order of `main`; `StopOne`, `StopDone`: `stop_processes`; `RestoreHandler`, `WriteSummary`: the rest of `finally`; `EndUnreported`: an exception leaves it; `Terminated`, `Interrupted`: SIGTERM and Ctrl-C |
| `…Proofs` | theorems about the module of that name | – | – |
| `MC…` | symmetry sets and small inputs for TLC | – | – |

Composition.  A run of the chain is `Session`: it extends `Sender` and
`Receiver`, and answers the receiver's `recv` with `TcpStream` instead of with
any outcome at all.  What is published by the acquisition thread and what was
handed over by `TcpSender::send` are then a `FrameChannel` (`ImplementsChannel`).

`Receiver` does not copy the ring: it instantiates
`CaptureQueue` with `producer` and `consumer` computed from its two program
counters (`ProducerState`, `ConsumerState`) and calls its operators.
`UsesQueue` states that every behaviour of the receiver is then a behaviour of
`CaptureQueue`, which in turn implements `BoundedFifo` (`ImplementsFifo`), so
that the chain abstract buffer – ring – threads is closed by two refinements.

History variables (`accepted`, `received`, `failed_at`, `observed`,
`confirmed`, `samples`, `listened`, `stop_cut`, `unreported`) record what happened
for the properties; no guard reads one, except that the loop index of the acquisition thread, which counts the frames
published, is `Len(accepted)`, and the bound on `observe` is `Len(observed)`.

Frames are model values: the models copy and compare them and nothing else.
The bytes of a slot that recv is overwriting are `Torn`; a frame whose slot
changes while the worker writes it is read as `Torn`.  A slot keeps its old
bytes until recv begins; at that moment it becomes `Torn`.

Definitions named `Variant_…` are plausible mistakes (a dropped check, an
off-by-one, a forgotten reset).  No specification uses them; each property is
shown to fail when one of them replaces the definition it imitates.

## 3. Runs

| Run | Instance | Distinct states | Shows |
|---|---|---|---|
| `capture_queue` | capacity 2 (3 slots), 7 frames out of 3 values | 16 883 | `SlotsDisjoint`, `Conservation`, `RaceFree`, `ImplementsFifo` |
| `algorithms` | 3-bit ids, every sequence of up to 5; durations up to 5 with a limit of 3, up to 4 of them; a CRC of 4 one-bit bytes, messages of up to 16; frames with each field right or wrong | 225 369 | `SpanAccounted`, `NoAnomalyIffConsecutive`, `MissingBoundsLoss`; `PercentileIsExact`; `CrcIsBitwise`; `ParserIsExact` |
| `receiver` | capacity 3, 6 frames of 2 values, flush every 3 | 182 178 | `StoredIsPrefix`, `ExitZeroIsClean`, `OverrunReachesHighWater`, `FlushKeepsUp`, `FailureStopsAcquisition`, `UsesQueue`, `LostNotifyRepaired`, `EndsUnlessWakeupLost` |
| `receiver_tail` | capacity 2, 2 frames | violated | `ExitZeroStoresAll` |
| `receiver_ends` | capacity 2, 2 frames | violated | `ReceiverEnds` |
| `session` | capacity 1, 2 frames in 2 parts, 2 parts in the socket buffers, segments of 1 frame, 11 pairs of command lines | 427 233 | `RefusalsExplained`, `SentCaptureCovers`, `ImplementsChannel`, `SessionEnds` |
| `capture_files` | 4 frames a segment, flush every 2, 9 frames, 3 processes | 7 293 | `ConfirmedIsReadable`, `RunIsPrefix`, `SuccessIsComplete`, `StaleOnlyAfter` |
| `save_sent` | 2 frames a segment, no periodic flush, 5 frames | violated | `SuccessIsComplete` |
| `capture_reader` | up to 3 files of up to 2 frames, torn or not, that open or not | 19 362 | `ReadsInOrder`, `EndMeansAll`, `LocationIsLast` |
| `frame_compare` | two captures of up to 3 of 6 frames, torn or not | 902 286 | `Accounted`, `VerdictIsExact`, `InPlaceDamage`, `MergeIsExact` |
| `compare_unread` | two captures of up to 2 frames, one more in a file that cannot be opened | violated | `ExitZeroComparesAll` |
| `multi_host` | 2 modules, 3 launches, 2 signals in each | 419 377 | `ReadyIsListening`, `NoneLeft`, `SummaryMatchesCaptures`, `ReportedExits` |

Why the bounds are enough:

- `capture_queue`: 7 frames through 3 slots take both indices twice around the
  ring; 3 values distinguish any frame in the ring from its neighbours and from
  the slot's previous contents.  Symmetry over the frames is sound: they are
  only copied and compared, and the run checks no liveness.
- `receiver`: with capacity 3 and 6 frames the ring wraps and fills (exit code
  9); a flush every 3 falls in the middle of the stream and at its end, and earlier ends of
  the acquisition leave one or two frames for the last flush.  Every way in which the network, the parser, a
  write or a flush may fail can be taken at every frame.  Deadlock is checked:
  the only final state is the one in which the process has ended, and
  a worker that sleeps can always be woken spuriously (see finding 2 for the
  fair view of it).
- `algorithms`: 3-bit ids wrap at 8, so that `last_frame_id + 1` and the sum
  of gaps reach the limit; 5 frames combine a gap, a duplicate, a late frame and
  an advance in every order.  Four samples reach every combination of exact
  buckets and the overflow bucket, in any order.  Messages of 16 bytes take two
  rounds of eight, and every length below leaves each possible rest.  In the
  format run, each field that is checked has a right and a wrong value, and the
  rate both limits and what lies beyond them.
- `session`: two parts are the fewest that can be split, joined with the next
  frame and lost separately; a buffer of one frame makes the sender block and
  lets two frames meet in it; a queue of one frame fills.  The 11 command lines
  cover the two usual ones, disagreeing options, a sender that is to send less
  than the receiver expects, and inputs that the sender, the receiver or neither
  refuses.  Both processes may fail at every step that has an early return, the
  sender may be killed at any, the connection may break or go silent anywhere,
  and one unit may be damaged.  With one frame a segment (`SegmentFrames`) the
  writer of `--save-sent` goes on to a new segment, and may cut the old one short,
  before the session is over.
- `multi_host`: two modules give a first and a last; three launches let the
  remains of two earlier ones lie in the directory; a second signal may arrive
  while the first is handled, and either of them in the `finally` clause.
- `capture_files`: two full segments and one frame in a third, two flushes for
  each segment, three processes, so that leftovers of two older captures of
  different lengths lie behind the newest.  The buffer may keep any number of
  half frames after any write.

- `capture_reader`: three files put an empty, a torn or an unreadable one before,
  between and after others.
- `frame_compare`: three ids and two bodies for one of them; damaged frames whose
  id may be below, above or equal to those around; captures of length 3 combine a
  loss with a damage, a repetition and a disorder.  The model reads a capture
  through what the reader delivers of it, which `capture_reader` checks.

`CHECK_DEADLOCK FALSE` stands where what is modelled ends: all expected frames
were published, both processes have exited, the bound on inputs, processes or
launches is reached.

The bounds in the modules are `ExpectedFrames` (an option of the program),
`MaxObserved`, `IdBits`, `MaxFrames`, `MaxRuns`, `MaxFiles`, `MaxUnread`,
`FrameParts`, `StreamSpace`, `MaxSignals`, `MaxValue`, `MaxSamples`,
`MaxMessage`.

## 4. What does not hold

1. **A validated frame may never be stored, with exit code 0** (`receiver_tail`).
   The worker polls the empty queue, the acquisition thread publishes the last
   frame and sets `acquisition_done`, the worker then reads `acquisition_done`
   and leaves (`receiver/main.cpp:200`, `:223`).  The frames in the queue are
   dropped.  `exit_code` is 0 because `frame_count` counts what was received.
   What does hold is `StoredIsPrefix` and `ExitZeroIsClean`: the file is a
   prefix, everything in it is flushed, and no write failed.
2. **The receiver may never end** (`receiver_ends`).  `acquisition_done` is set
   and `notify_all` called without `queue_mutex` (`receiver/main.cpp:336-337`);
   between the predicate and the sleep the notification reaches nobody, and
   `join` waits for ever.  `src/resume/面试准备.md:67` knows of it.  The same
   window at `notify_one` is harmless as long as another notification follows
   (`LostNotifyRepaired`), and it is the only way not to end
   (`EndsUnlessWakeupLost`).
3. **A saved segment may be cut short, with exit code 0** (`save_sent`).
   `open_segment` does not look at whether `close` wrote the rest of the full
   segment, and `open` clears the failure (`common/capture_writer.cpp:32-35`).
   In the capture worker this is harmless only because 200 divides 10000: a full
   segment has just been flushed (`FlushDivides` below).  The `--save-sent` loop
   flushes once, at the end.  So `SentCaptureCovers` promises the whole sent
   capture at exit 0 only if no segment was cut (`Cut`).
4. **Exit code 0 of `frame_compare` does not cover every file** (`compare_unread`).
   `open_next_file` skips a file that cannot be opened and remembers the error
   (`EndMeansAll` says that it does); `frame_compare` asks for the error only
   before the first frame.  What does hold is `VerdictIsExact`, for the frames
   that were delivered.

## 5. Fairness

`FairSpec` of `Receiver` assumes weak fairness of three actions:

- `Acquire`, the steps of the acquisition thread: the operating system
  schedules it; it never waits for a lock.
- `Drain`, the steps of the worker other than waking: it is scheduled and disk
  calls return.  The mutex it takes is taken by nobody else.
- `Arrival`, the outcome of `recv`: the peer sends a frame or the connection
  ends.  The code has no timeout, so without this a silent peer keeps the
  receiver for ever; that is a property of the deployment, and `SessionEnds`
  below says that nothing else may wait so.

`FairSession` of `Session` replaces the last of these by the peer itself:

- `ReceiverActs`, `WorkerActs`: the two threads of the receiver, as above.
- `StartReceiver`, `Listen`, `Accept`: the receiver's startup.  `accept` is
  enabled only once a connection is there.
- `SenderActs`: the sender is scheduled, and a call of `::send` that has room, or
  whose connection is gone, returns.  A dead connection lets `::send` fail after
  TCP's own timeout.
- `Ingest`: `recv` returns when there is data or the connection has ended, and
  the checks after it terminate.

Neither the network nor a signal is fair; a connection may stay silent for ever,
and `SessionEnds` excuses exactly the waits that the code does not bound:
`AcceptWaits`, `RecvWaits`, and `WakeupLost` of finding 2.

There is no fairness on `SpuriousWakeup`: nothing in the standard obliges a
condition variable to wake without a notification.  The counterexample of
`receiver_ends` is found under `FairSpec`.  The other modules are checked for
safety only: the runner has bounded waits (15 s, 3 s), or waits for processes
whose end is the subject of `Session`.

## 6. What is proved

All theorems hold for every value of the constants that the named assumptions
allow; every proof is checked to its leaves.  The assumptions: capacity,
expected count and flush period are positive and `Torn` is not a frame
(`QueueAssumption`, `ReceiverAssumption`); an id has at least one bit
(`DetectorAssumption`, which also says that `2^IdBits` is a natural number
above 1, as the provers have no theory of exponentiation); segment size and
bounds are positive (`FilesAssumption`); the ids of frames are numbers
(`CompareAssumption`); the limits of the statistics are numbers
(`LatencyAssumption`) and a frame has a channel (`FormatAssumption`); the runner has
a module to start (`MultiHostAssumption`); files have numbers of frames and of trailing bytes, and
there may be at least one (`ReaderAssumption`); a frame has at least one part
and the connection room for one (`StreamAssumption`); command lines are well
formed and a segment of the sent capture has a frame (`SenderAssumption`), and the frames they ask for are frames of the
receiver (`SessionAssumption`).

**`CaptureQueueProofs`** – `TypeCorrect`, `SlotExclusion`, `FramesConserved`,
`QueueRefinement`.  `Conservation` speaks of whole sequences and is not
inductive.  `IndInv` says it slot by slot: the k-th slot from the consumer index
holds the k-th accepted frame not yet released (`InRing`), the history of reads
is a prefix of the history of publications (`Delivered`), and the size is the
difference of the two (`Counted`).  `Granted` and `Held` say why the threads need
no lock: a permission that one thread has obtained cannot be taken away by the
other, which only makes more room, or more frames.  The refinement maps
`Publish` to `Enqueue`, `EndRead` to `Dequeue`, everything else to a stutter.

Its second half is about `QueueMemory`: `NoDataRace`, `StaleLoads` and
`MemoryRefinement`.  With arbitrarily old views of the other thread's index, slots stay disjoint, every
frame is read once and in order, and the ring still implements the bounded FIFO.
`IndexOK` ties the indices to the counts of the two threads;
`SeenOK` and `EnoughSeen` say that what a thread has seen is not newer than what
is there and less than one trip around the ring older.  So an old view cannot be
mistaken for a newer one: where the producer sees room there is room
(`RoomIsRoom`), where the consumer sees a frame there is one (`FrameIsThere`), and
the invariant of the ring carries over.

**`AlgorithmsProofs`**, continuity check – `SpanIsAccounted`, `NothingWraps`,
`AnomaliesAreDetected`, `MissingIsBounded`.  `Counted` ties the counters to the history: the span is
the number of advances plus `missing_frame_count`.  As the span is less than
`2^IdBits`, so is the sum.  `NothingWraps` draws the conclusion for every step:
although `Advance` computes modulo `2^IdBits`, an observation adds exactly the
ids that it jumps over, and counts a gap exactly when there are any.
`MissingIsBounded` adds that no id between the first and the last can be absent
unnoticed: with `last_frame_id` as the largest id seen (`LossOK`), an advance by
`d` adds `d - 1` absent ids at most and `d - 1` to the counter, and a late
frame or a duplicate can only fill a hole.

**`AlgorithmsProofs`**, statistics and format – `LatencyInvariance`,
`PercentileExact`, `ParserExact`.  After any number of samples every bucket holds
the number of its samples (`BucketsOK`).  By induction over the buckets, what the
loop of `percentile` has added up is then the number of samples up to a bucket
(`CumulativeCounts`), every rank has a least value with more samples up to it than
the rank (`RankedSample`), and the loop stops there (`LoopStops`).  `ParserExact`
is about any bytes (`WireBytes`), any CRC functions and any number of channels: the
parser takes what `serialize_frame_into` can make (`SerializedParses`), and
`SizesAgree` leaves it nothing else (`ParsedIsSerialized`).

**`AlgorithmsProofs`**, CRC – `CrcExact`: `crc32` is the CRC taken bit by bit, for
bytes of every width, every polynomial and messages of every length.  A byte step
is linear over exclusive or (`ByteStepLinear`) and only shifts a word whose low
byte is zero (`ByteStepShifts`), so one look into the first table is a byte step
(`NextEntryIs`) and the k-th table holds `k + 1` of them (`TablesAre`).  A round
sets four bytes into the word at once: four steps from there are what the four
bytes one after the other would have given (`FourAtOnce`), four more and the other
four bytes make the eight entries of the code (`EightStepsOf`, `EightBytesAre`).
The rest of the message goes on from where the rounds end (`AfterRoundsIs`).

**`ReceiverProofs`** – `QueueIsUsed`, `TypeCorrect`, `StoredPrefix`,
`ExitZeroClean`, `OverrunHighWater`, `FlushesKeepUp`, `FailureIsNoticed`.  Every
step of a thread is a step of the queue or leaves it alone, so `IndInv` of the
queue is reused as it is.  On top: `MainOK` (exit code and position of the
loop), `WorkerOK` (how many stored frames no flush has covered, at each program
counter), `FailOK` (the acquisition is at most one frame ahead of a failed
worker, and none once it is inside the loop body before publishing), `WaterOK`
(the depth never exceeds the high-water mark except between `Publish` and
`RecordDepth`), `EndOK` (what `join` has established).  `TypeCorrect` contains
that exit code 6 cannot occur.

**`CaptureFilesProofs`** – `TypeCorrect`, `ConfirmedReadable`, `RunPrefix`,
`SuccessComplete`, `StaleAfter`, under the hypothesis `FlushDivides`: the flush
period is not 0 and divides the segment size.  `Layout` says which segments are
this process's, that all but the last are full, and in which order older ones
lie; `Opened` says that file and buffer of the open segment hold, together, the
frames that are due in it; `Flushed` says that the counter of the calling loop is
`frames_written % FlushEvery` and that nothing is buffered when it is 0.  A
writer that leaves a segment has a counter of 0, hence an empty buffer, hence
nothing to lose in the unchecked `close`.  Without the hypothesis
`SuccessIsComplete` is false (finding 3).

**`FrameCompareProofs`** – `TypeCorrect`, `FramesAccounted`, `DamageKeepsStep`,
`ExactVerdict`, for captures of any length.  The verdict is about zeros, so the
invariant says what a zero means at every moment: `InvalidCounted` and
`DisorderCounted` for the statistics of a side; `AgreeSoFar`, that without a
counted difference both sides are at one position and agree up to it;
`EqualStaysEqual`, the converse.  `DamageShiftsNothing` is the same argument for
damaged frames: one side goes on alone only if the two frames in hand have
different ids and are both valid (`AloneMeansDifferent`).  `MergeExact` says what
the counters of the report are for two captures without damage.  `MergeSoFar`
says it of the frames passed so far, and needs that what one side has passed lies below
all that the other has left (`Ahead`); ids that increase from frame to frame increase
throughout (`OrderedThroughout`), so the frame with the smaller id is not on the
other side at all (`BelowTheOther`), and each step adds one element to one of the
sets that are counted.

**`CaptureReaderProofs`** – `OrderOfFrames`, `NothingLeft`, `LocationNamesLast`,
for any list of files, each empty, torn or not to be opened.  `OrderOK` says that
what was returned is exactly what lies at or before the position of the reader
(`Passed`), in order; `PlaceOK`, that the reader leaves a file only at its last
frame and passes by no file it can read; `TailsOK`, what `trailing_bytes_` and
`error_` stand for once a file has been left.  At the end the position is behind
every file.

**`SessionProofs`** – `ReceiverInSession`, `FramesInOrder`, `RefusalsAreExplained`,
`SentCovers`, `SessionTypes`, for every number of frames and of parts of a frame,
every size of the connection and of the queue, and all command lines.  The
connection answers `recv` with one of the outcomes that `Receiver` allows, so a
session is a behaviour of `Receiver` and its invariant is used as it is.  On top
of it the units of a session are numbered through (`Base(f) + p`), and
`PositionOK` says that the receiver's buffer followed by the connection holds the
units from the end of the frames taken up to what the sender has sent; if a
break has lost some, they are the last ones.  Then a full buffer holds
the next frame, undamaged if the parser accepts it (`BufferIsNext`), and what is
published is what was sent: a step of the sender or of `publish` is a step of
`FrameChannel`, and everything else a stutter.  `CheckedOK` and `ExplainedOK`
carry what the sender has checked, and how the connection ended, to the exit
codes 3, 4 and 5.  `SentCovers` is about the files of `--save-sent`, not about the
calls that wrote to them.  A sender that was killed, or returned early, may leave
any part of what it saved, and the receiver may have more; the theorem says that
the files never hold a frame that was not sent whole, and that at exit 0 they hold all
that the receiver published.  `SavedOK` says that the files are never ahead of the
loop; the flush of `FinishSender` closes the gap, unless a segment was cut short before (finding 3).

**`MultiHostProofs`** – `ReadyMeansListening`, `NothingLeftRunning`,
`SummaryIsOfCaptures`, `ReportIsTrue`, for any number of modules, of calls into one
directory and of signals.  A call starts only if no module has captures; a
receiver makes its captures before its log, so nothing was heard before the call
either, and whatever lies in the directory is of the last call (`DirectoryOK`).
`ChildrenOK` follows the list of processes through the launch, the readiness loop
and `stop_processes`: whatever runs is in the list, is about to be entered, or was
caught between the two by a signal, and there is at most one such process.
`ResultsOK` and `OverOK` tie the collected codes to the processes and to the
summary.  `SummaryOK` says that a summary is of the last call once that call has
written it, and of an earlier one before; and that one which vouches for
captures (`Vouches`), because it says "passed" or has exit codes of receivers, is
there only when the call that made them is over and has written it.  So when a call
ends without its summary, because a signal came after `finally` had begun or the
write failed, what is left behind still cannot pass for it.

Induction over data.  The library's induction theorems take an operator as a
parameter, which the provers cannot instantiate.  What is needed here follows from a
set of numbers having a least element (`LeastNumber`, proved from the
well-foundedness of the strict subset order on finite sets): the least
counterexample to a statement about buckets or frames has a predecessor that is
not one.  A recursive function is well defined once a solution of its equation is
given, as the counts of samples are for `Cumulative`; the loops of `Crc32` have no
closed form, and their solution is built round by round (`LoopRuns`) and is the only
one (`TwoLoops`).

Every safety property of the runs that pass is proved.  Only model-checked are the
liveness properties (`EndsUnlessWakeupLost`, `LostNotifyRepaired`, `SessionEnds`),
because fairness and `ENABLED` are out of the prover's reach.

## 7. Abstractions, and what is only model-checked

- `Receiver` and `Session` use sequentially consistent atomics.  `QueueMemory`
  says why that is enough for the ring: a thread with an old view of the other's
  index sees less room, or fewer frames, and the happens-before of the acquire
  loads covers every use of a slot.  A load takes its value from one
  modification order for each index, which C++ guarantees.
- `size` and `empty` read two indices.  Each is called by a thread that owns
  one of the two, so one atomic step with one foreign read is exact.
- `queue_mutex` is not modelled: only the worker locks it.
- `receive_exact`, the parser and the checks of rate and module id are their
  outcomes in `Receiver` (a frame, exit code 3, 4 or 5); logging, timing and the
  metrics file are left out except for the values properties speak of (frame
  count, high-water mark, exit code).
- `CaptureFiles` counts in half frames, enough to tell a torn frame from a
  whole one.  A stream that fails is assumed to have written a prefix of what it
  was given and to keep the rest; the standard says no more about it.  A crash
  is a crash of the process; data the kernel holds is safe.  `frames_written /
  frames_per_segment` is exact, as the counters are 64 bits wide and cannot
  reach their limit; the check for wrong frame sizes is left out, as both
  callers pass a buffer of exactly one frame.  Segments are read by number: the
  reader sorts by name, which is the same up to segment 999999.
- `Session`: the header of a buffer is that of the frame whose unit it begins
  with, and the parser notices every other mixture of units (`Parses`); that it
  does is a matter of the CRCs.  Both processes are started with options that
  either agree or differ in the rate.  Files that a process creates at its start
  are writable, otherwise an exception ends it before anything is sent.
- `FrameFormat` takes the CRC as a parameter: `ParserIsExact` says nothing about
  collisions.  `Crc32` says that the CRC is the one that is documented; a word is
  the set of the positions of its ones.  TLC takes bytes of one bit, the theorem
  every width.
- `LatencyStats`: the rank is computed in `double`, exact below 2^50 samples up
  to the rounding of `p`; quantiles are given in thousandths.
- `MultiHost`: `stop_processes` terminates all processes and then waits for each;
  here a process is terminated and has ended in one step, and a Ctrl-C may come
  between any two.  SIGKILL of the runner and a second runner at the same time are
  left out.  A signal may come, and the write may fail, until `summary.json` is
  there (`run_multi_host.py:389-400`).  `check_disk` and a missing
  executable refuse a call before it changes anything, as `PreviousCaptures`
  does.

- `CaptureReader` gets its list of files from the initial state: listing and
  sorting a directory is not modelled, and a file does not change while it is
  read.
- `FrameCompare`: a frame is an id, a verdict of the decoder and a body; two
  frames are the same bytes when all three agree.  Bit error counts, the limit on
  report lines and the reports themselves are left out.  Frames that cannot be
  read are those of a last file.

Not modelled: `frame_gen` and `verify_bin.py` (straight-line, no state outlives
a step); the logger (a mutex around a line); option parsing (its results are the
constants); the text of metrics rows and reports; pacing of the sender, which
decides when and not what is sent; the role `prepare`, and of `report` everything
but the exit check (the numbers are those of `FrameCompare`); the other runners,
which start, wait and stop as `run_multi_host.py` does, on one machine; network
namespaces and NIC counters of `run_optical_loopback.py`; the legacy T510 parser,
which is not built.

## 8. Plan

Modelled, in order of importance: the queue, the receiver, the continuity check,
the capture files and their reader, the session over TCP, the comparison, the
algorithms, the runner.  What is left:

1. `run_multi_local_smoke.py` as a second composition of `MultiHost`'s processes,
   with senders that start when the receivers are ready, if it shows anything new.
