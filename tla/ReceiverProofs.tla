--------------------------- MODULE ReceiverProofs ---------------------------
(***************************************************************************)
(* Proofs about the two threads of the receiver, for every capacity, every *)
(* expected count, every flush period and every set of frames.             *)
(*                                                                         *)
(* The argument has two layers.  Every step of the receiver is a step of   *)
(* the capture queue or leaves it alone, so that the inductive invariant   *)
(* of CaptureQueueProofs carries over.  On top of it stand five invariants *)
(* of the receiver's own: where the acquisition loop is and with which     *)
(* exit code (MainOK), what the worker has read, stored and flushed        *)
(* (WorkerOK), how far the acquisition is ahead of a failed worker         *)
(* (FailOK), how the high-water mark follows the depth (WaterOK), and what *)
(* an acquisition thread that has ended knows of the worker (EndOK).       *)
(***************************************************************************)
EXTENDS Receiver, TLAPS

\* The atomics of module Receiver are sequentially consistent: each thread has
\* seen, and synchronised with, everything the other one did.
SeenByEach == [producer |-> Len(received) - (IF ConsumerState = "read" THEN 1 ELSE 0),
               consumer |-> Len(accepted)]

QP == INSTANCE CaptureQueueProofs WITH
        producer <- ProducerState, consumer <- ConsumerState,
        seen <- SeenByEach, synced <- SeenByEach

\* The acquisition thread is still in its loop.
InLoop == main_pc \in {"check_writer", "check_space", "receive", "receiving",
                       "publish", "depth", "notify"}

\* It has passed the test of the loop and the frame is not yet counted.
InBody == main_pc \in {"check_space", "receive", "receiving", "publish"}

MainOK ==
  /\ main_pc \in MainPcs
  /\ exit_code \in {0, 3, 4, 5, 7, 9}
  /\ frame_count = Len(accepted)
  /\ Len(accepted) <= ExpectedFrames
  /\ InLoop => exit_code = 0
  /\ InBody => Len(accepted) < ExpectedFrames
  /\ ~InLoop /\ exit_code = 0 => Len(accepted) = ExpectedFrames

\* The stored frames that no flush has covered.
Unflushed == Len(stored) - flushed

Prefix(s, t) == Len(s) <= Len(t) /\ \A k \in 1 .. Len(s) : s[k] = t[k]

WorkerOK ==
  /\ worker_pc \in WorkerPcs
  /\ writer_failed \in BOOLEAN
  /\ writes_since_flush \in 0 .. FlushEvery - 1
  /\ stored \in Seq(Frames \union {Torn})
  /\ flushed \in Nat
  /\ Unflushed \in 0 .. FlushEvery
  /\ worker_pc = "release" => Unflushed = writes_since_flush + 1
  /\ worker_pc \notin {"release", "flush", "fail", "exited"} =>
       Unflushed = writes_since_flush
  /\ worker_pc = "flush" => writes_since_flush = 0
  /\ Prefix(stored, received)
  /\ worker_pc \notin {"release_failed", "fail", "exited"} => stored = received
  /\ worker_pc = "exited" /\ ~writer_failed => Unflushed = 0 /\ stored = received
  /\ writer_failed => worker_pc = "exited"

FailOK ==
  /\ failed_at \in Nat
  /\ writer_failed => /\ Len(accepted) <= failed_at + 1
                      /\ InBody => Len(accepted) <= failed_at

WaterOK ==
  /\ queue_high_water \in 0 .. Capacity
  /\ InLoop /\ main_pc # "depth" => QP!size <= queue_high_water
  /\ exit_code = 9 => queue_high_water = Capacity

EndOK ==
  main_pc = "exited" => /\ worker_pc = "exited"
                        /\ exit_code = 0 => ~writer_failed

RInv == /\ QP!IndInv
        /\ MainOK
        /\ WorkerOK
        /\ FailOK
        /\ WaterOK
        /\ EndOK
        /\ acquisition_done \in BOOLEAN

-----------------------------------------------------------------------------
(* The queue of the receiver is the queue of CaptureQueueProofs.           *)

LEMMA QueueOK == QP!QueueAssumption
BY ReceiverAssumption DEF QP!QueueAssumption

LEMMA SameOperators ==
  /\ Q!Slots = QP!Slots
  /\ Q!producer_slot = QP!producer_slot
  /\ Q!consumer_slot = QP!consumer_slot
  /\ Q!NullSlot = QP!NullSlot
  /\ Q!has_space = QP!has_space
  /\ Q!size = QP!size
  /\ Q!publish = QP!publish
  /\ Q!release = QP!release
<1>1. Q!Slots = QP!Slots /\ Q!NullSlot = QP!NullSlot
  BY DEF Q!Slots, QP!Slots, Q!NullSlot, QP!NullSlot
<1>2. Q!producer_slot = QP!producer_slot
  BY DEF Q!producer_slot, QP!producer_slot
<1>3. Q!consumer_slot = QP!consumer_slot
  BY DEF Q!consumer_slot, QP!consumer_slot, Q!NullSlot, QP!NullSlot
<1>4. \A i : Q!next(i) = QP!next(i)
  BY DEF Q!next, QP!next, Q!SlotCount, QP!SlotCount
<1>5. Q!has_space = QP!has_space
  BY <1>4 DEF Q!has_space, QP!has_space
<1>6. Q!size = QP!size
  BY DEF Q!size, QP!size, Q!SlotCount, QP!SlotCount
<1>7. Q!publish = QP!publish
  BY <1>4 DEF Q!publish, QP!publish
<1>8. Q!release = QP!release
  BY <1>4 DEF Q!release, QP!release
<1> QED
  BY <1>1, <1>2, <1>3, <1>5, <1>6, <1>7, <1>8

-----------------------------------------------------------------------------
(* Every step uses the queue as CaptureQueue allows.                       *)

LEMMA MainUsesQueue ==
  ASSUME MainOK, Acquire \/ Arrival
  PROVE  [QP!Next]_(QP!vars)
<1> USE DEF worker_vars, shared_vars, MainOK, InLoop, InBody, ProducerState,
            ConsumerState, Abandoned
<1>0. ASSUME Wake PROVE UNCHANGED ConsumerState
  BY <1>0 DEF Wake
<1>1. CASE CheckWriter
  BY <1>1 DEF CheckWriter, QP!vars
<1>2. CASE CheckSpace
  <2>1. QP!CheckSpace
    BY <1>2, SameOperators DEF CheckSpace, QP!CheckSpace
  <2> QED
    BY <2>1 DEF QP!Next, QP!Acquire
<1>3. CASE BeginReceive
  <2>1. QP!BeginReceive
    BY <1>3, SameOperators DEF BeginReceive, QP!BeginReceive
  <2> QED
    BY <2>1 DEF QP!Next, QP!Acquire
<1>4. ASSUME NEW f \in Frames, ReceiveFrame(f)
      PROVE  [QP!Next]_(QP!vars)
  <2>1. QP!CompleteReceive(f)
    BY <1>4, SameOperators DEF ReceiveFrame, QP!CompleteReceive
  <2> QED
    BY <2>1 DEF QP!Next, QP!Acquire
<1>5. ASSUME NEW code \in {3, 4, 5}, RejectFrame(code)
      PROVE  [QP!Next]_(QP!vars)
  <2>1. QP!AbandonReceive
    BY <1>5 DEF RejectFrame, QP!AbandonReceive
  <2> QED
    BY <2>1 DEF QP!Next, QP!Acquire
<1>6. CASE Publish
  <2>1. QP!Publish
    BY <1>6, SameOperators DEF Publish, QP!Publish
  <2> QED
    BY <2>1 DEF QP!Next, QP!Acquire
<1>7. CASE RecordDepth
  BY <1>7 DEF RecordDepth, QP!vars
<1>8. CASE NotifyOne
  BY <1>0, <1>8 DEF NotifyOne, QP!vars
<1>9. CASE SetDone
  BY <1>9 DEF SetDone, QP!vars
<1>10. CASE NotifyAll
  BY <1>0, <1>10 DEF NotifyAll, QP!vars
<1>11. CASE Join
  BY <1>11 DEF Join, ExitStatus, QP!vars
<1> QED
  BY <1>1, <1>2, <1>3, <1>4, <1>5, <1>6, <1>7, <1>8, <1>9, <1>10, <1>11
  DEF Acquire, Arrival

LEMMA WorkerUsesQueue ==
  ASSUME WorkerOK, Drain \/ SpuriousWakeup
  PROVE  [QP!Next]_(QP!vars)
<1> USE DEF main_vars, shared_vars, ProducerState, ConsumerState, Abandoned
<1>1. CASE Poll
  <2>1. CASE worker_pc' = "writing"
    <3>1. QP!BeginRead
      BY <1>1, <2>1, SameOperators DEF Poll, QP!BeginRead
    <3> QED
      BY <3>1 DEF QP!Next, QP!Drain
  <2>2. CASE worker_pc' = "check_done"
    BY <1>1, <2>2 DEF Poll, QP!vars
  <2> QED
    BY <1>1, <2>1, <2>2 DEF Poll
<1>2. CASE WriteFrame
  <2>1. QP!EndRead
    BY <1>2 DEF WriteFrame, Written, QP!EndRead
  <2> QED
    BY <2>1 DEF QP!Next, QP!Drain
<1>3. CASE Release
  <2>1. QP!Release
    BY <1>3, SameOperators DEF Release, QP!Release
  <2> QED
    BY <2>1 DEF QP!Next, QP!Drain
<1>4. CASE ReleaseFailed
  <2>1. QP!Release
    BY <1>4, SameOperators DEF ReleaseFailed, QP!Release
  <2> QED
    BY <2>1 DEF QP!Next, QP!Drain
<1>5. CASE Flush
  BY <1>5 DEF Flush, QP!vars
<1>6. CASE Fail
  BY <1>6 DEF Fail, QP!vars
<1>7. CASE CheckDone
  BY <1>7 DEF CheckDone, QP!vars
<1>8. CASE FinalFlush
  BY <1>8 DEF FinalFlush, QP!vars
<1>9. CASE WaitDone
  BY <1>9 DEF WaitDone, QP!vars
<1>10. CASE WaitEmpty
  BY <1>10 DEF WaitEmpty, QP!vars
<1>11. CASE Block
  BY <1>11 DEF Block, QP!vars
<1>12. CASE SpuriousWakeup
  BY <1>12 DEF SpuriousWakeup, QP!vars
<1> QED
  BY <1>1, <1>2, <1>3, <1>4, <1>5, <1>6, <1>7, <1>8, <1>9, <1>10, <1>11, <1>12
  DEF Drain

LEMMA UnchangedQueue == UNCHANGED vars => UNCHANGED QP!vars
BY DEF vars, main_vars, worker_vars, shared_vars, QP!vars, ProducerState,
       ConsumerState, Abandoned

LEMMA StepUsesQueue == MainOK /\ WorkerOK /\ [Next]_vars => [QP!Next]_(QP!vars)
BY MainUsesQueue, WorkerUsesQueue, UnchangedQueue DEF Next, Exited

-----------------------------------------------------------------------------
(* The invariants of the receiver's own.                                   *)

LEMMA InitRInv == Init => RInv
<1> SUFFICES ASSUME Init PROVE RInv
  OBVIOUS
<1> USE DEF Init
<1>1. QP!Init
  BY SameOperators DEF QP!Init, ProducerState, ConsumerState, Abandoned
<1>2. QP!IndInv
  BY <1>1, QueueOK, QP!InitInv
<1>3. MainOK
  BY ReceiverAssumption DEF MainOK, MainPcs, InLoop, InBody
<1>4. WorkerOK
  <2>1. Prefix(stored, received)
    BY DEF Prefix
  <2>2. Unflushed = 0
    BY DEF Unflushed
  <2>3. stored \in Seq(Frames \union {Torn}) /\ stored = received
    OBVIOUS
  <2>4. worker_pc = "poll" /\ worker_pc \in WorkerPcs
    BY DEF WorkerPcs
  <2>5. 0 \in 0 .. FlushEvery - 1 /\ 0 \in 0 .. FlushEvery
    BY ReceiverAssumption
  <2> QED
    BY <2>1, <2>2, <2>3, <2>4, <2>5 DEF WorkerOK
<1>5. FailOK
  BY DEF FailOK
<1>6. QP!size = 0
  BY DEF QP!size
<1>7. WaterOK
  BY <1>6, ReceiverAssumption DEF WaterOK
<1> QED
  BY <1>2, <1>3, <1>4, <1>5, <1>7 DEF RInv, EndOK

LEMMA QueueKept == RInv /\ [Next]_vars => QP!IndInv'
BY QueueOK, StepUsesQueue, QP!StepInv DEF RInv

\* What the worker does leaves the acquisition thread where it is.
LEMMA WorkerLeavesMain ==
  ASSUME Drain \/ SpuriousWakeup
  PROVE  UNCHANGED main_vars
BY DEF Drain, Poll, WriteFrame, Release, ReleaseFailed, Flush, Fail, CheckDone,
       FinalFlush, WaitDone, WaitEmpty, Block, SpuriousWakeup

LEMMA MainKept ==
  ASSUME RInv, [Next]_vars
  PROVE  MainOK'
<1> USE DEF MainOK, InLoop, InBody, MainPcs
<1>0. /\ MainOK
      /\ accepted \in Seq(Frames)
      /\ ExpectedFrames \in Nat
  BY ReceiverAssumption DEF RInv, QP!IndInv, QP!TypeOK
<1>1. CASE CheckWriter
  BY <1>0, <1>1 DEF CheckWriter
<1>2. CASE CheckSpace
  BY <1>0, <1>2 DEF CheckSpace
<1>3. CASE BeginReceive
  BY <1>0, <1>3 DEF BeginReceive
<1>4. ASSUME NEW f \in Frames, ReceiveFrame(f)
      PROVE  MainOK'
  BY <1>0, <1>4 DEF ReceiveFrame
<1>5. ASSUME NEW code \in {3, 4, 5}, RejectFrame(code)
      PROVE  MainOK'
  BY <1>0, <1>5 DEF RejectFrame
<1>6. CASE Publish
  <2>1. Len(accepted') = Len(accepted) + 1
    BY <1>0, <1>6 DEF Publish
  <2>2. Len(accepted) \in Nat
    BY <1>0
  <2> QED
    BY <1>0, <1>6, <2>1, <2>2 DEF Publish
<1>7. CASE RecordDepth
  BY <1>0, <1>7 DEF RecordDepth
<1>8. CASE NotifyOne
  BY <1>0, <1>8 DEF NotifyOne
<1>9. CASE SetDone
  BY <1>0, <1>9 DEF SetDone
<1>10. CASE NotifyAll
  BY <1>0, <1>10 DEF NotifyAll
<1>11. CASE Join
  BY <1>0, <1>11 DEF Join, ExitStatus
<1>12. CASE UNCHANGED main_vars
  BY <1>0, <1>12 DEF main_vars
<1>13. Exited \/ UNCHANGED vars => UNCHANGED main_vars
  BY DEF Exited, vars
<1> QED
  BY <1>1, <1>2, <1>3, <1>4, <1>5, <1>6, <1>7, <1>8, <1>9, <1>10, <1>11, <1>12,
     <1>13, WorkerLeavesMain
  DEF Next, Acquire, Arrival

\* What the acquisition thread does leaves the worker where it is, except that
\* a notification wakes it.
LEMMA MainLeavesWorker ==
  ASSUME Acquire \/ Arrival
  PROVE  /\ UNCHANGED <<in_hand, writes_since_flush, stored, flushed, received,
                       writer_failed, failed_at>>
         /\ \/ UNCHANGED worker_pc
            \/ worker_pc = "waiting" /\ worker_pc' = "wait_done"
<1> USE DEF worker_vars, shared_vars
<1>1. CASE CheckWriter
  BY <1>1 DEF CheckWriter
<1>2. CASE CheckSpace
  BY <1>2 DEF CheckSpace
<1>3. CASE BeginReceive
  BY <1>3 DEF BeginReceive
<1>4. CASE Arrival
  BY <1>4 DEF Arrival, ReceiveFrame, RejectFrame
<1>5. CASE Publish
  BY <1>5 DEF Publish
<1>6. CASE RecordDepth
  BY <1>6 DEF RecordDepth
<1>7. CASE NotifyOne
  BY <1>7 DEF NotifyOne, Wake
<1>8. CASE SetDone
  BY <1>8 DEF SetDone
<1>9. CASE NotifyAll
  BY <1>9 DEF NotifyAll, Wake
<1>10. CASE Join
  BY <1>10 DEF Join
<1> QED
  BY <1>1, <1>2, <1>3, <1>4, <1>5, <1>6, <1>7, <1>8, <1>9, <1>10 DEF Acquire

LEMMA WorkerKept ==
  ASSUME RInv, [Next]_vars
  PROVE  WorkerOK'
<1> USE DEF WorkerOK, WorkerPcs, Unflushed
<1> DEFINE Contents == Frames \union {Torn}
<1>0. /\ WorkerOK
      /\ received \in Seq(Contents)
      /\ stored \in Seq(Contents)
      /\ Len(stored) \in Nat
      /\ FlushEvery \in Nat \ {0}
  BY ReceiverAssumption DEF RInv, QP!IndInv, QP!TypeOK, QP!Contents
<1>1. CASE Acquire \/ Arrival
  BY <1>0, <1>1, MainLeavesWorker DEF Prefix
<1>2. CASE Poll
  BY <1>0, <1>2 DEF Poll, main_vars, shared_vars
<1>3. CASE WriteFrame
  <2>1. Written \in Contents
    BY DEF RInv, QP!IndInv, QP!TypeOK, QP!Contents, Written
  <2>2. CASE worker_pc' = "release"
    <3>1. stored' = Append(stored, Written) /\ received' = Append(received, Written)
      BY <1>3, <2>2 DEF WriteFrame
    <3>2. stored = received /\ stored' = received'
      BY <1>0, <1>3, <3>1 DEF WriteFrame
    <3>3. stored' \in Seq(Contents) /\ Len(stored') = Len(stored) + 1
      BY <1>0, <2>1, <3>1
    <3>4. Prefix(stored', received')
      BY <3>2, <3>3 DEF Prefix
    <3> QED
      BY <1>0, <1>3, <2>2, <3>2, <3>3, <3>4 DEF WriteFrame, main_vars, shared_vars
  <2>3. CASE worker_pc' = "release_failed"
    <3>1. stored' = stored /\ received' = Append(received, Written)
      BY <1>3, <2>3 DEF WriteFrame
    <3>2. Prefix(stored', received')
      BY <1>0, <1>3, <2>1, <3>1 DEF WriteFrame, Prefix
    <3> QED
      BY <1>0, <1>3, <2>3, <3>1, <3>2 DEF WriteFrame, main_vars, shared_vars
  <2> QED
    BY <1>3, <2>2, <2>3 DEF WriteFrame
<1>4. CASE Release
  BY <1>0, <1>4 DEF Release, main_vars
<1>5. CASE ReleaseFailed
  BY <1>0, <1>5 DEF ReleaseFailed, main_vars
<1>6. CASE Flush
  BY <1>0, <1>6 DEF Flush, main_vars, shared_vars
<1>7. CASE Fail
  BY <1>0, <1>7 DEF Fail, main_vars
<1>8. CASE CheckDone
  BY <1>0, <1>8 DEF CheckDone, main_vars, shared_vars
<1>9. CASE FinalFlush
  BY <1>0, <1>9 DEF FinalFlush, main_vars, shared_vars
<1>10. CASE WaitDone
  BY <1>0, <1>10 DEF WaitDone, main_vars, shared_vars
<1>11. CASE WaitEmpty
  BY <1>0, <1>11 DEF WaitEmpty, main_vars, shared_vars
<1>12. CASE Block
  BY <1>0, <1>12 DEF Block, main_vars, shared_vars
<1>13. CASE SpuriousWakeup
  BY <1>0, <1>13 DEF SpuriousWakeup, main_vars, shared_vars
<1>14. CASE UNCHANGED vars
  BY <1>0, <1>14 DEF vars, worker_vars, shared_vars, Prefix
<1> QED
  BY <1>1, <1>2, <1>3, <1>4, <1>5, <1>6, <1>7, <1>8, <1>9, <1>10, <1>11, <1>12,
     <1>13, <1>14
  DEF Next, Drain, Exited

LEMMA FailKept ==
  ASSUME RInv, [Next]_vars
  PROVE  FailOK'
<1> USE DEF FailOK, InBody
<1>0. /\ FailOK
      /\ accepted \in Seq(Frames)
      /\ Len(accepted) \in Nat
  BY DEF RInv, QP!IndInv, QP!TypeOK
<1>1. CASE CheckWriter
  BY <1>0, <1>1 DEF CheckWriter, shared_vars
<1>2. CASE Publish
  <2>1. Len(accepted') = Len(accepted) + 1
    BY <1>0, <1>2 DEF Publish
  <2> QED
    BY <1>0, <1>2, <2>1 DEF Publish
<1>3. CASE Fail
  BY <1>0, <1>3 DEF Fail, main_vars
<1>4. ASSUME UNCHANGED <<accepted, writer_failed, failed_at>>, InBody' => InBody
      PROVE  FailOK'
  BY <1>0, <1>4
<1>5. ASSUME Acquire \/ Arrival, ~CheckWriter, ~Publish
      PROVE  UNCHANGED <<accepted, writer_failed, failed_at>> /\ (InBody' => InBody)
  BY <1>5 DEF Acquire, Arrival, CheckSpace, BeginReceive, ReceiveFrame,
       RejectFrame, RecordDepth, NotifyOne, SetDone, NotifyAll, Join, shared_vars
<1>6. ASSUME Drain \/ SpuriousWakeup, ~Fail
      PROVE  UNCHANGED <<accepted, writer_failed, failed_at>> /\ (InBody' => InBody)
  BY <1>6 DEF Drain, Poll, WriteFrame, Release, ReleaseFailed, Flush, CheckDone,
       FinalFlush, WaitDone, WaitEmpty, Block, SpuriousWakeup, main_vars, shared_vars
<1>7. Exited \/ UNCHANGED vars =>
        UNCHANGED <<accepted, writer_failed, failed_at>> /\ (InBody' => InBody)
  BY DEF Exited, vars, main_vars, shared_vars
<1> QED
  BY <1>1, <1>2, <1>3, <1>4, <1>5, <1>6, <1>7 DEF Next

\* The depth of the queue grows only when the acquisition thread publishes.
LEMMA DepthFalls ==
  ASSUME RInv, Drain \/ SpuriousWakeup
  PROVE  QP!size' <= QP!size
<1>0. /\ QP!IndInv
      /\ producer_index \in QP!Slots
      /\ consumer_index \in QP!Slots
      /\ Capacity \in Nat \ {0}
      /\ QP!size \in 0 .. Capacity
  BY ReceiverAssumption, QueueOK, QP!SizeIs DEF RInv, QP!IndInv, QP!TypeOK
<1>1. ASSUME QP!release, UNCHANGED producer_index, QP!Held, ConsumerState = "read"
      PROVE  QP!size' <= QP!size
  <2>1. consumer_index' = IF consumer_index = Capacity THEN 0 ELSE consumer_index + 1
    BY <1>0, <1>1, QueueOK, QP!NextSlot DEF QP!release
  <2>2. consumer_index # producer_index
    BY <1>1 DEF QP!Held, QP!empty
  <2> QED
    BY <1>0, <1>1, <2>1, <2>2 DEF QP!size, QP!SlotCount, QP!Slots
<1>2. CASE UNCHANGED <<producer_index, consumer_index>>
  BY <1>0, <1>2 DEF QP!size
<1>3. CASE Release \/ ReleaseFailed
  <2>1. QP!release /\ UNCHANGED producer_index
    BY <1>3, SameOperators DEF Release, ReleaseFailed
  <2>2. worker_pc \in {"release", "release_failed"}
    BY <1>3 DEF Release, ReleaseFailed
  <2>3. ConsumerState = "read"
    BY <2>2, Zenon DEF ConsumerState
  <2> QED
    BY <1>0, <1>1, <2>1, <2>3 DEF QP!IndInv
<1> QED
  BY <1>2, <1>3 DEF Drain, Poll, WriteFrame, Flush, Fail, CheckDone,
       FinalFlush, WaitDone, WaitEmpty, Block, SpuriousWakeup, shared_vars

LEMMA WaterKept ==
  ASSUME RInv, [Next]_vars
  PROVE  WaterOK'
<1> USE DEF WaterOK, InLoop
<1>0. /\ WaterOK
      /\ MainOK
      /\ producer_index \in QP!Slots
      /\ consumer_index \in QP!Slots
      /\ Capacity \in Nat \ {0}
      /\ QP!size \in 0 .. Capacity
      /\ QP!has_space <=> QP!size < Capacity
  BY ReceiverAssumption, QueueOK, QP!SizeIs DEF RInv, QP!IndInv, QP!TypeOK
<1>1. ASSUME UNCHANGED <<producer_index, consumer_index>>
      PROVE  QP!size' = QP!size
  BY <1>1 DEF QP!size
<1>2. CASE CheckWriter
  BY <1>0, <1>1, <1>2 DEF CheckWriter, shared_vars, MainOK
<1>3. CASE CheckSpace
  <2>1. UNCHANGED <<producer_index, consumer_index, queue_high_water>>
    BY <1>3 DEF CheckSpace, shared_vars
  <2>2. CASE Q!has_space
    BY <1>0, <1>1, <1>3, <2>1, <2>2 DEF CheckSpace, MainOK
  <2>3. CASE ~Q!has_space
    <3>1. main_pc = "check_space" /\ main_pc' = "shutdown"
      BY <1>3, <2>3 DEF CheckSpace
    <3>2. QP!size >= Capacity /\ QP!size <= queue_high_water
      BY <1>0, <2>3, <3>1, SameOperators
    <3>3. queue_high_water' = Capacity
      BY <1>0, <2>1, <3>2
    <3> QED
      BY <1>0, <3>1, <3>3
  <2> QED
    BY <2>2, <2>3
<1>4. CASE BeginReceive
  BY <1>0, <1>1, <1>4 DEF BeginReceive
<1>5. CASE Arrival
  <2>1. /\ UNCHANGED <<producer_index, consumer_index, queue_high_water>>
        /\ main_pc = "receiving"
        /\ main_pc' \in {"publish", "shutdown"}
        /\ exit_code' \in {exit_code, 3, 4, 5}
    BY <1>5 DEF Arrival, ReceiveFrame, RejectFrame, shared_vars
  <2> QED
    BY <1>0, <1>1, <2>1
<1>6. CASE Publish
  BY <1>0, <1>6 DEF Publish
<1>7. CASE RecordDepth
  <2>1. UNCHANGED <<producer_index, consumer_index, exit_code>>
    BY <1>7 DEF RecordDepth, shared_vars
  <2>2. queue_high_water' = IF QP!size > queue_high_water THEN QP!size ELSE queue_high_water
    BY <1>7, SameOperators DEF RecordDepth, Depth
  <2>3. main_pc = "depth" /\ exit_code = 0
    BY <1>0, <1>7 DEF RecordDepth, MainOK
  <2> QED
    BY <1>0, <1>1, <2>1, <2>2, <2>3
<1>8. CASE NotifyOne
  BY <1>0, <1>1, <1>8 DEF NotifyOne, shared_vars
<1>9. CASE SetDone
  BY <1>0, <1>1, <1>9 DEF SetDone
<1>10. CASE NotifyAll
  BY <1>0, <1>1, <1>10 DEF NotifyAll, shared_vars
<1>11. CASE Join
  BY <1>0, <1>1, <1>11 DEF Join, ExitStatus, MainOK, shared_vars
<1>12. CASE Drain \/ SpuriousWakeup
  <2>1. QP!size' <= QP!size
    BY <1>12, DepthFalls
  <2>2. UNCHANGED <<queue_high_water, exit_code, main_pc>>
    BY <1>12, WorkerLeavesMain DEF main_vars
  <2>3. QP!size' \in 0 .. Capacity
    <3>1. producer_index' \in QP!Slots /\ consumer_index' \in QP!Slots
      BY QueueKept DEF QP!IndInv, QP!TypeOK
    <3>2. \A p, c \in QP!Slots :
            (IF p >= c THEN p - c ELSE QP!SlotCount - c + p) \in 0 .. Capacity
      BY <1>0 DEF QP!Slots, QP!SlotCount
    <3> QED
      BY <3>1, <3>2 DEF QP!size
  <2> QED
    BY <1>0, <2>1, <2>2, <2>3
<1>13. CASE Exited \/ UNCHANGED vars
  BY <1>0, <1>1, <1>13 DEF Exited, vars, main_vars, shared_vars
<1> QED
  BY <1>2, <1>3, <1>4, <1>5, <1>6, <1>7, <1>8, <1>9, <1>10, <1>11, <1>12, <1>13
  DEF Next, Acquire

LEMMA EndKept ==
  ASSUME RInv, [Next]_vars
  PROVE  EndOK'
<1> USE DEF EndOK
<1>0. EndOK
  BY DEF RInv
<1>1. CASE Join
  BY <1>1 DEF Join, ExitStatus, worker_vars, shared_vars
<1>2. ASSUME Acquire \/ Arrival, ~Join
      PROVE  main_pc' # "exited"
  BY <1>2 DEF Acquire, Arrival, CheckWriter, CheckSpace, BeginReceive, Publish,
       ReceiveFrame, RejectFrame, RecordDepth, NotifyOne, SetDone, NotifyAll
<1>3. CASE Drain \/ SpuriousWakeup
  <2>1. worker_pc # "exited"
    BY <1>3 DEF Drain, Poll, WriteFrame, Release, ReleaseFailed, Flush, Fail,
         CheckDone, FinalFlush, WaitDone, WaitEmpty, Block, SpuriousWakeup
  <2>2. main_pc' = main_pc
    BY <1>3, WorkerLeavesMain DEF main_vars
  <2> QED
    BY <1>0, <2>1, <2>2
<1>4. CASE Exited \/ UNCHANGED vars
  BY <1>0, <1>4 DEF Exited, vars, main_vars, worker_vars, shared_vars
<1> QED
  BY <1>1, <1>2, <1>3, <1>4 DEF Next

LEMMA DoneKept ==
  ASSUME acquisition_done \in BOOLEAN, [Next]_vars
  PROVE  acquisition_done' \in BOOLEAN
<1>1. CASE SetDone
  BY <1>1 DEF SetDone
<1>2. ASSUME Acquire \/ Arrival, ~SetDone
      PROVE  UNCHANGED acquisition_done
  BY <1>2 DEF Acquire, Arrival, CheckWriter, CheckSpace, BeginReceive, Publish,
       ReceiveFrame, RejectFrame, RecordDepth, NotifyOne, NotifyAll, Join, shared_vars
<1>3. CASE Drain \/ SpuriousWakeup
  BY <1>3 DEF Drain, Poll, WriteFrame, Release, ReleaseFailed, Flush, Fail,
       CheckDone, FinalFlush, WaitDone, WaitEmpty, Block, SpuriousWakeup, shared_vars
<1>4. CASE Exited \/ UNCHANGED vars
  BY <1>4 DEF Exited, vars, shared_vars
<1> QED
  BY <1>1, <1>2, <1>3, <1>4 DEF Next

\* The inductive invariant holds in every reachable state.
THEOREM Invariance == Spec => []RInv
<1>1. RInv /\ [Next]_vars => RInv'
  BY QueueKept, MainKept, WorkerKept, FailKept, WaterKept, EndKept, DoneKept
  DEF RInv
<1> QED
  BY <1>1, InitRInv, PTL DEF Spec

-----------------------------------------------------------------------------
(* What follows.                                                           *)

\* Every variable has its type: the indices stay within the ring, the flush
\* counter below its period and the high-water mark below the capacity.
THEOREM TypeCorrect == Spec => []TypeOK
<1>1. RInv => TypeOK
  <2> SUFFICES ASSUME RInv PROVE TypeOK
    OBVIOUS
  <2>1. /\ slots \in [Q!Slots -> Frames \union {Torn}]
        /\ producer_index \in Q!Slots
        /\ consumer_index \in Q!Slots
        /\ in_hand \in Frames \union {Torn}
        /\ accepted \in Seq(Frames)
        /\ received \in Seq(Frames \union {Torn})
    BY SameOperators DEF RInv, QP!IndInv, QP!TypeOK, QP!Contents
  <2>2. frame_count \in 0 .. ExpectedFrames
    BY <2>1, ReceiverAssumption DEF RInv, MainOK
  <2> QED
    BY <2>1, <2>2 DEF RInv, MainOK, WorkerOK, FailOK, WaterOK, TypeOK
<1> QED
  BY <1>1, Invariance, PTL

\* The capture files hold the first validated frames, in order and intact.
THEOREM StoredPrefix == Spec => []StoredIsPrefix
<1>1. RInv => StoredIsPrefix
  <2> SUFFICES ASSUME RInv PROVE StoredIsPrefix
    OBVIOUS
  <2>1. Prefix(stored, received)
    BY DEF RInv, WorkerOK
  <2>2. Len(received) <= Len(accepted)
    BY QueueOK, QP!BufferIsRest DEF RInv
  <2>3. \A k \in 1 .. Len(received) : received[k] = accepted[k]
    BY DEF RInv, QP!IndInv, QP!Delivered
  <2>4. Len(stored) \in Nat /\ Len(received) \in Nat /\ Len(accepted) \in Nat
    BY DEF RInv, WorkerOK, QP!IndInv, QP!TypeOK
  <2> QED
    BY <2>1, <2>2, <2>3, <2>4 DEF Prefix, StoredIsPrefix
<1> QED
  BY <1>1, Invariance, PTL

\* An overrun is always reported with a high-water mark equal to the capacity.
THEOREM OverrunHighWater == Spec => []OverrunReachesHighWater
<1>1. RInv => OverrunReachesHighWater
  BY DEF RInv, WaterOK, OverrunReachesHighWater
<1> QED
  BY <1>1, Invariance, PTL

\* At most FlushEvery stored frames are not yet flushed.
THEOREM FlushesKeepUp == Spec => []FlushKeepsUp
<1>1. RInv => FlushKeepsUp
  BY ReceiverAssumption DEF RInv, WorkerOK, Unflushed, FlushKeepsUp
<1> QED
  BY <1>1, Invariance, PTL

\* After the worker failed, one more frame is published at most.
THEOREM FailureIsNoticed == Spec => []FailureStopsAcquisition
<1>1. RInv => FailureStopsAcquisition
  BY DEF RInv, FailOK, FailureStopsAcquisition
<1> QED
  BY <1>1, Invariance, PTL

\* A receiver that exits with 0 has validated every expected frame, and its
\* worker stored and flushed everything it had read.
THEOREM ExitZeroClean == Spec => []ExitZeroIsClean
<1>1. RInv => ExitZeroIsClean
  <2> SUFFICES ASSUME RInv, main_pc = "exited", exit_code = 0
               PROVE  /\ Len(accepted) = ExpectedFrames
                      /\ flushed = Len(stored)
                      /\ stored = received
    BY DEF ExitZeroIsClean
  <2>1. Len(accepted) = ExpectedFrames
    BY DEF RInv, MainOK, InLoop
  <2>2. worker_pc = "exited" /\ ~writer_failed
    BY DEF RInv, EndOK
  <2>3. Unflushed = 0 /\ stored = received
    BY <2>2 DEF RInv, WorkerOK
  <2>4. Len(stored) \in Nat /\ flushed \in Nat
    BY DEF RInv, WorkerOK
  <2> QED
    BY <2>1, <2>3, <2>4 DEF Unflushed
<1> QED
  BY <1>1, Invariance, PTL

-----------------------------------------------------------------------------
(* The two threads use the queue as its module says, and so the queue      *)
(* delivers what it promises.                                              *)

LEMMA SameQueue == [QP!Next]_(QP!vars) => [Q!Next]_(Q!vars)
<1>1. UNCHANGED QP!vars => UNCHANGED Q!vars
  BY DEF Q!vars, QP!vars
<1>2. QP!CheckSpace => Q!CheckSpace
  BY SameOperators DEF QP!CheckSpace, Q!CheckSpace
<1>3. QP!BeginReceive => Q!BeginReceive
  BY SameOperators DEF QP!BeginReceive, Q!BeginReceive
<1>4. \A f \in Frames : QP!CompleteReceive(f) => Q!CompleteReceive(f)
  BY SameOperators DEF QP!CompleteReceive, Q!CompleteReceive
<1>5. QP!AbandonReceive => Q!AbandonReceive
  BY DEF QP!AbandonReceive, Q!AbandonReceive
<1>6. QP!Publish => Q!Publish
  BY SameOperators DEF QP!Publish, Q!Publish
<1>7. QP!BeginRead => Q!BeginRead
  BY SameOperators DEF QP!BeginRead, Q!BeginRead
<1>8. QP!EndRead => Q!EndRead
  BY DEF QP!EndRead, Q!EndRead
<1>9. QP!Release => Q!Release
  BY SameOperators DEF QP!Release, Q!Release
<1> QED
  BY <1>1, <1>2, <1>3, <1>4, <1>5, <1>6, <1>7, <1>8, <1>9
  DEF QP!Next, QP!Acquire, QP!Drain, Q!Next, Q!Acquire, Q!Drain

\* Every behaviour of the receiver is a behaviour of the capture queue: one
\* producer and one consumer that keep to its protocol.
THEOREM QueueIsUsed == Spec => UsesQueue
<1>1. Init => Q!Init
  <2> SUFFICES ASSUME Init PROVE Q!Init
    OBVIOUS
  <2>1. ProducerState = "idle" /\ ConsumerState = "idle"
    BY DEF Init, ProducerState, ConsumerState, Abandoned
  <2> QED
    BY <2>1 DEF Init, Q!Init
<1>2. RInv /\ [Next]_vars => [Q!Next]_(Q!vars)
  BY StepUsesQueue, SameQueue DEF RInv
<1> QED
  BY <1>1, <1>2, Invariance, PTL DEF Spec, UsesQueue, Q!Spec
=============================================================================
