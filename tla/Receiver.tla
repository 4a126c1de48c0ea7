------------------------------ MODULE Receiver ------------------------------
(***************************************************************************)
(* The two threads of receiver/main.cpp once a sender is connected: the    *)
(* acquisition thread (main) receives, checks and publishes frames into    *)
(* the capture queue; the capture worker takes them from the queue, writes *)
(* them to disk and flushes; shutdown sets acquisition_done, notifies and  *)
(* joins.  The queue is the ring of module CaptureQueue.                   *)
(*                                                                         *)
(* One action is one step of one thread with at most one access to data    *)
(* that the other thread may write.  queue_mutex is not a variable: only   *)
(* the worker ever locks it, so that it orders nothing between the two.    *)
(* What CaptureWriter does with a frame is its outcome here: a write or a  *)
(* flush succeeds or fails, and an ofstream that failed stays failed.      *)
(***************************************************************************)
EXTENDS Integers, Sequences

CONSTANTS
  Frames,          \* the wire frames that pass validation
  Torn,            \* the contents of a slot that holds no valid frame
  Capacity,        \* --capture-queue-frames
  ExpectedFrames,  \* --frames
  FlushEvery       \* kStorageFlushFrames

ASSUME ReceiverAssumption ==
  /\ Capacity \in Nat \ {0}
  /\ ExpectedFrames \in Nat \ {0}
  /\ FlushEvery \in Nat \ {0}
  /\ Torn \notin Frames

VARIABLES
  slots, producer_index, consumer_index,   \* capture_queue
  acquisition_done,
  writer_failed,
  queue_high_water,
  frame_count,          \* continuity.stats().frame_count
  exit_code,
  main_pc,              \* the next step of the acquisition thread
  worker_pc,            \* the next step of the capture worker
  in_hand,              \* the frame that storage.write is copying
  writes_since_flush,
  stored,               \* the frames that storage.write took, in order
  flushed,              \* how many of them a successful flush covered
  accepted,             \* history: the frames published, in order
  received,             \* history: the frames read from the queue, in order
  failed_at             \* history: Len(accepted) when writer_failed was set

main_vars == <<queue_high_water, frame_count, exit_code, main_pc, accepted>>
worker_vars == <<worker_pc, in_hand, writes_since_flush, stored, flushed,
                 received>>
shared_vars == <<slots, producer_index, consumer_index, acquisition_done,
                 writer_failed, failed_at>>
vars == <<main_vars, worker_vars, shared_vars>>

-----------------------------------------------------------------------------
(* How the two threads use the queue.                                      *)

\* The acquisition ended while it wanted, or had, a slot of the queue.
Abandoned == exit_code \in {3, 4, 5, 9}

ProducerState ==
  CASE main_pc = "receive"   -> "granted"
    [] main_pc = "receiving" -> "filling"
    [] main_pc = "publish"   -> "filled"
    [] OTHER                 -> IF Abandoned THEN "stopped" ELSE "idle"

ConsumerState ==
  CASE worker_pc = "writing"                        -> "reading"
    [] worker_pc \in {"release", "release_failed"}  -> "read"
    [] OTHER                                        -> "idle"

Q == INSTANCE CaptureQueue WITH
       producer <- ProducerState, consumer <- ConsumerState

Init ==
  /\ slots = [i \in Q!Slots |-> Torn]
  /\ producer_index = 0
  /\ consumer_index = 0
  /\ acquisition_done = FALSE
  /\ writer_failed = FALSE
  /\ queue_high_water = 0
  /\ frame_count = 0
  /\ exit_code = 0
  /\ main_pc = "check_writer"
  /\ worker_pc = "poll"
  /\ in_hand = Torn
  /\ writes_since_flush = 0
  /\ stored = << >>
  /\ flushed = 0
  /\ accepted = << >>
  /\ received = << >>
  /\ failed_at = 0

\* Definitions named Variant_... are plausible mistakes, for checking that
\* the properties would notice them; no specification uses one.
-----------------------------------------------------------------------------
(* The acquisition thread.                                                 *)

\* The head of the acquisition loop: all frames are in, or the worker has
\* failed, or there is a frame to receive.
Variant_CheckWriter_ignores_failure ==
  /\ main_pc = "check_writer"
  /\ main_pc' = IF Len(accepted) = ExpectedFrames THEN "shutdown" ELSE "check_space"
  /\ UNCHANGED <<queue_high_water, frame_count, exit_code, accepted,
                 worker_vars, shared_vars>>

CheckWriter ==
  /\ main_pc = "check_writer"
  /\ \/ /\ Len(accepted) = ExpectedFrames
        /\ main_pc' = "shutdown"
        /\ UNCHANGED exit_code
     \/ /\ Len(accepted) < ExpectedFrames
        /\ writer_failed
        /\ main_pc' = "shutdown"
        /\ exit_code' = 7
     \/ /\ Len(accepted) < ExpectedFrames
        /\ ~writer_failed
        /\ main_pc' = "check_space"
        /\ UNCHANGED exit_code
  /\ UNCHANGED <<queue_high_water, frame_count, accepted, worker_vars, shared_vars>>

Variant_CheckSpace_warns_only ==
  /\ main_pc = "check_space"
  /\ main_pc' = "receive"
  /\ UNCHANGED <<queue_high_water, frame_count, exit_code, accepted, worker_vars,
                 shared_vars>>

\* A full queue ends the acquisition before recv is called.
CheckSpace ==
  /\ main_pc = "check_space"
  /\ \/ /\ Q!has_space
        /\ main_pc' = "receive"
        /\ UNCHANGED exit_code
     \/ /\ ~Q!has_space
        /\ main_pc' = "shutdown"
        /\ exit_code' = 9
  /\ UNCHANGED <<queue_high_water, frame_count, accepted, worker_vars, shared_vars>>

\* receive_exact writes into the slot from its first byte on.
BeginReceive ==
  /\ main_pc = "receive"
  /\ main_pc' = "receiving"
  /\ slots' = [slots EXCEPT ![Q!producer_slot] = Torn]
  /\ UNCHANGED <<queue_high_water, frame_count, exit_code, accepted, worker_vars,
                 producer_index, consumer_index, acquisition_done,
                 writer_failed, failed_at>>

\* A complete frame that passes the parser and the rate and module checks.
ReceiveFrame(f) ==
  /\ main_pc = "receiving"
  /\ main_pc' = "publish"
  /\ slots' = [slots EXCEPT ![Q!producer_slot] = f]
  /\ UNCHANGED <<queue_high_water, frame_count, exit_code, accepted, worker_vars,
                 producer_index, consumer_index, acquisition_done,
                 writer_failed, failed_at>>

\* The connection ended (3), the parser refused the frame (4), or it has the
\* wrong rate or module (5).
RejectFrame(code) ==
  /\ main_pc = "receiving"
  /\ main_pc' = "shutdown"
  /\ exit_code' = code
  /\ UNCHANGED <<queue_high_water, frame_count, accepted, worker_vars, shared_vars>>

Publish ==
  /\ main_pc = "publish"
  /\ main_pc' = "depth"
  /\ frame_count' = frame_count + 1
  /\ Q!publish
  /\ accepted' = Append(accepted, slots[Q!producer_slot])
  /\ UNCHANGED <<queue_high_water, exit_code, worker_vars, slots,
                 consumer_index, acquisition_done, writer_failed, failed_at>>

Variant_Depth_is_free_space == Capacity - Q!size

Depth == Q!size

\* Only this thread writes queue_high_water: the compare-exchange loop sets
\* it to the larger of the two values.
RecordDepth ==
  /\ main_pc = "depth"
  /\ main_pc' = "notify"
  /\ queue_high_water' = IF Depth > queue_high_water THEN Depth ELSE queue_high_water
  /\ UNCHANGED <<frame_count, exit_code, accepted, worker_vars, shared_vars>>

\* A notification reaches the worker only if it is already waiting.
Wake == worker_pc' = IF worker_pc = "waiting" THEN "wait_done" ELSE worker_pc

NotifyOne ==
  /\ main_pc = "notify"
  /\ main_pc' = "check_writer"
  /\ Wake
  /\ UNCHANGED <<queue_high_water, frame_count, exit_code, accepted, in_hand,
                 writes_since_flush, stored, flushed, received, shared_vars>>

SetDone ==
  /\ main_pc = "shutdown"
  /\ main_pc' = "notify_all"
  /\ acquisition_done' = TRUE
  /\ UNCHANGED <<queue_high_water, frame_count, exit_code, accepted, worker_vars,
                 slots, producer_index, consumer_index, writer_failed, failed_at>>

Variant_NotifyAll_dropped ==
  /\ main_pc = "notify_all"
  /\ main_pc' = "join"
  /\ UNCHANGED <<queue_high_water, frame_count, exit_code, accepted, worker_vars,
                 shared_vars>>

NotifyAll ==
  /\ main_pc = "notify_all"
  /\ main_pc' = "join"
  /\ Wake
  /\ UNCHANGED <<queue_high_water, frame_count, exit_code, accepted, in_hand,
                 writes_since_flush, stored, flushed, received, shared_vars>>

Variant_ExitStatus_forgets_writer ==
  IF exit_code # 0 THEN exit_code
  ELSE IF frame_count = ExpectedFrames THEN 0
  ELSE 6

ExitStatus ==
  IF exit_code # 0 THEN exit_code
  ELSE IF writer_failed THEN 7
  ELSE IF frame_count = ExpectedFrames THEN 0
  ELSE 6

\* join returns when the worker has ended; what follows reads no data that
\* anybody else can still write.
Join ==
  /\ main_pc = "join"
  /\ worker_pc = "exited"
  /\ main_pc' = "exited"
  /\ exit_code' = ExitStatus
  /\ UNCHANGED <<queue_high_water, frame_count, accepted, worker_vars, shared_vars>>

-----------------------------------------------------------------------------
(* The capture worker.                                                     *)

Poll ==
  /\ worker_pc = "poll"
  /\ \/ /\ Q!consumer_slot # Q!NullSlot
        /\ worker_pc' = "writing"
        /\ in_hand' = slots[Q!consumer_slot]
     \/ /\ Q!consumer_slot = Q!NullSlot
        /\ worker_pc' = "check_done"
        /\ UNCHANGED in_hand
  /\ UNCHANGED <<writes_since_flush, stored, flushed, received, main_vars, shared_vars>>

\* What was written, if the slot did not change under the write.
Written == IF slots[consumer_index] = in_hand THEN in_hand ELSE Torn

Variant_WriteFrame_ignores_failure ==
  /\ worker_pc = "writing"
  /\ received' = Append(received, Written)
  /\ stored' \in {stored, Append(stored, Written)}
  /\ worker_pc' = "release"
  /\ UNCHANGED <<in_hand, writes_since_flush, flushed, main_vars, shared_vars>>

WriteFrame ==
  /\ worker_pc = "writing"
  /\ received' = Append(received, Written)
  /\ \/ /\ stored' = Append(stored, Written)
        /\ worker_pc' = "release"
     \/ /\ UNCHANGED stored
        /\ worker_pc' = "release_failed"
  /\ UNCHANGED <<in_hand, writes_since_flush, flushed, main_vars, shared_vars>>

Variant_Release_counts_past_the_flush ==
  /\ worker_pc = "release"
  /\ Q!release
  /\ writes_since_flush' = writes_since_flush + 1
  /\ worker_pc' = IF writes_since_flush' > FlushEvery THEN "flush" ELSE "poll"
  /\ UNCHANGED <<in_hand, stored, flushed, received, main_vars, slots,
                 producer_index, acquisition_done, writer_failed, failed_at>>

Release ==
  /\ worker_pc = "release"
  /\ Q!release
  /\ \/ /\ writes_since_flush + 1 = FlushEvery
        /\ writes_since_flush' = 0
        /\ worker_pc' = "flush"
     \/ /\ writes_since_flush + 1 # FlushEvery
        /\ writes_since_flush' = writes_since_flush + 1
        /\ worker_pc' = "poll"
  /\ UNCHANGED <<in_hand, stored, flushed, received, main_vars, slots,
                 producer_index, acquisition_done, writer_failed, failed_at>>

\* The slot is given back whether the write succeeded or not.
ReleaseFailed ==
  /\ worker_pc = "release_failed"
  /\ Q!release
  /\ worker_pc' = "fail"
  /\ UNCHANGED <<in_hand, writes_since_flush, stored, flushed, received,
                 main_vars, slots, producer_index, acquisition_done,
                 writer_failed, failed_at>>

Flush ==
  /\ worker_pc = "flush"
  /\ \/ /\ worker_pc' = "poll"
        /\ flushed' = Len(stored)
     \/ /\ worker_pc' = "fail"
        /\ UNCHANGED flushed
  /\ UNCHANGED <<in_hand, writes_since_flush, stored, received, main_vars, shared_vars>>

Fail ==
  /\ worker_pc = "fail"
  /\ worker_pc' = "exited"
  /\ writer_failed' = TRUE
  /\ failed_at' = Len(accepted)
  /\ UNCHANGED <<in_hand, writes_since_flush, stored, flushed, received,
                 main_vars, slots, producer_index, consumer_index, acquisition_done>>

Variant_CheckDone_missing ==
  /\ worker_pc = "check_done"
  /\ worker_pc' = "wait_done"
  /\ UNCHANGED <<in_hand, writes_since_flush, stored, flushed, received,
                 main_vars, shared_vars>>

\* The queue was empty when it was polled.
CheckDone ==
  /\ worker_pc = "check_done"
  /\ worker_pc' = IF acquisition_done THEN "final_flush" ELSE "wait_done"
  /\ UNCHANGED <<in_hand, writes_since_flush, stored, flushed, received,
                 main_vars, shared_vars>>

FinalFlush ==
  /\ worker_pc = "final_flush"
  /\ \/ /\ worker_pc' = "exited"
        /\ flushed' = Len(stored)
     \/ /\ worker_pc' = "fail"
        /\ UNCHANGED flushed
  /\ UNCHANGED <<in_hand, writes_since_flush, stored, received, main_vars, shared_vars>>

\* queue_ready.wait evaluates its predicate, one load after the other ...
WaitDone ==
  /\ worker_pc = "wait_done"
  /\ worker_pc' = IF acquisition_done THEN "poll" ELSE "wait_empty"
  /\ UNCHANGED <<in_hand, writes_since_flush, stored, flushed, received,
                 main_vars, shared_vars>>

WaitEmpty ==
  /\ worker_pc = "wait_empty"
  /\ worker_pc' = IF ~Q!empty THEN "poll" ELSE "block"
  /\ UNCHANGED <<in_hand, writes_since_flush, stored, flushed, received,
                 main_vars, shared_vars>>

\* ... and only then releases the mutex and sleeps.
Block ==
  /\ worker_pc = "block"
  /\ worker_pc' = "waiting"
  /\ UNCHANGED <<in_hand, writes_since_flush, stored, flushed, received,
                 main_vars, shared_vars>>

\* A condition variable may wake its waiter without a notification.
SpuriousWakeup ==
  /\ worker_pc = "waiting"
  /\ worker_pc' = "wait_done"
  /\ UNCHANGED <<in_hand, writes_since_flush, stored, flushed, received,
                 main_vars, shared_vars>>

-----------------------------------------------------------------------------
\* recv returns: with a frame, at the end of the connection, or with a frame
\* that is refused.
Arrival ==
  \/ \E f \in Frames : ReceiveFrame(f)
  \/ \E code \in {3, 4, 5} : RejectFrame(code)

Acquire ==
  \/ CheckWriter
  \/ CheckSpace
  \/ BeginReceive
  \/ Publish
  \/ RecordDepth
  \/ NotifyOne
  \/ SetDone
  \/ NotifyAll
  \/ Join

Drain ==
  \/ Poll
  \/ WriteFrame
  \/ Release
  \/ ReleaseFailed
  \/ Flush
  \/ Fail
  \/ CheckDone
  \/ FinalFlush
  \/ WaitDone
  \/ WaitEmpty
  \/ Block

\* The process has ended.
Exited == main_pc = "exited" /\ UNCHANGED vars

Next == Acquire \/ Arrival \/ Drain \/ SpuriousWakeup \/ Exited

Spec == Init /\ [][Next]_vars

\* Both threads are scheduled, disk calls return, and the peer goes on sending
\* or closes the connection.  Nothing obliges a condition variable to wake
\* without being notified.
FairSpec ==
  /\ Spec
  /\ WF_vars(Acquire)
  /\ WF_vars(Arrival)
  /\ WF_vars(Drain)
-----------------------------------------------------------------------------
MainPcs == {"check_writer", "check_space", "receive", "receiving", "publish",
            "depth", "notify", "shutdown", "notify_all", "join", "exited"}

WorkerPcs == {"poll", "writing", "release", "release_failed", "flush", "fail",
              "check_done", "final_flush", "wait_done", "wait_empty", "block",
              "waiting", "exited"}

\* Every variable has its type; the flush counter stays below its period.
TypeOK ==
  /\ slots \in [Q!Slots -> Frames \union {Torn}]
  /\ producer_index \in Q!Slots
  /\ consumer_index \in Q!Slots
  /\ acquisition_done \in BOOLEAN
  /\ writer_failed \in BOOLEAN
  /\ queue_high_water \in 0 .. Capacity
  /\ frame_count \in 0 .. ExpectedFrames
  /\ exit_code \in {0, 3, 4, 5, 7, 9}
  /\ main_pc \in MainPcs
  /\ worker_pc \in WorkerPcs
  /\ in_hand \in Frames \union {Torn}
  /\ writes_since_flush \in 0 .. FlushEvery - 1
  /\ stored \in Seq(Frames \union {Torn})
  /\ flushed \in Nat
  /\ accepted \in Seq(Frames)
  /\ received \in Seq(Frames \union {Torn})
  /\ failed_at \in Nat

\* The two threads use the queue as module CaptureQueue requires: one
\* producer, one consumer, a slot checked before it is filled and filled
\* before it is published.  What is proved of the queue holds of the receiver.
UsesQueue == Q!Spec

\* The capture files hold a prefix of the validated frames, each one intact:
\* whatever fails and whenever it stops, no frame is skipped, repeated or torn
\* in the middle of a capture.
StoredIsPrefix ==
  /\ Len(stored) <= Len(accepted)
  /\ \A k \in 1 .. Len(stored) : stored[k] = accepted[k]

\* A receiver that exits with 0 has validated every expected frame, and
\* everything its worker stored was flushed: no write or flush failed unnoticed.
ExitZeroIsClean ==
  main_pc = "exited" /\ exit_code = 0 =>
    /\ Len(accepted) = ExpectedFrames
    /\ flushed = Len(stored)
    /\ stored = received

\* A queue overrun is always visible in the metrics row: the reported
\* high-water mark is then the capacity, although the depth is sampled after
\* the publication and the overrun found a frame later.
OverrunReachesHighWater == exit_code = 9 => queue_high_water = Capacity

\* At most FlushEvery stored frames are unflushed while the worker runs.
FlushKeepsUp == Len(stored) - flushed <= FlushEvery

\* After the worker has failed, the acquisition publishes at most the frame
\* that it was receiving.
FailureStopsAcquisition == writer_failed => Len(accepted) <= failed_at + 1
-----------------------------------------------------------------------------
Waiting == worker_pc = "waiting"

\* The worker sleeps while the acquisition thread waits for it to end.
WakeupLost == main_pc = "join" /\ Waiting

\* A notification that falls between the predicate and the sleep is lost, and
\* the next one makes up for it: a worker that sleeps on a queue with frames
\* in it is woken as long as the acquisition thread has not sent its last
\* notification.
LostNotifyRepaired ==
  (Waiting /\ ~Q!empty /\ main_pc \notin {"join", "exited"}) ~> ~Waiting

\* Unless the last notification is the one that is lost, the receiver ends.
EndsUnlessWakeupLost == <>(main_pc = "exited" \/ WakeupLost)
-----------------------------------------------------------------------------
(* What the documentation and the tests expect, and the code does not do.  *)

\* README: the receiver writes the frames it validated to the capture files.
\* A receiver that reports success has stored them all.
ExitZeroStoresAll ==
  main_pc = "exited" /\ exit_code = 0 => stored = accepted

\* The process tests wait for the receiver to end by itself.
ReceiverEnds == <>(main_pc = "exited")
=============================================================================
