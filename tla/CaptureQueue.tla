---------------------------- MODULE CaptureQueue ----------------------------
(***************************************************************************)
(* The single-producer single-consumer ring of receiver/capture_queue.cpp, *)
(* with the way its two threads use it in receiver/main.cpp: the           *)
(* acquisition thread receives a frame IN PLACE, into the slot it will     *)
(* publish, and the capture worker writes a frame to disk FROM its slot.   *)
(*                                                                         *)
(* Each action makes at most one access to an index that the other thread  *)
(* writes, which is the grain at which the two threads interleave.         *)
(* Filling a slot and reading one take several steps: the bytes of a slot  *)
(* are Torn while recv is filling it, and a frame whose slot changes under *)
(* the reader is read as Torn.                                             *)
(***************************************************************************)
EXTENDS Integers, Sequences

CONSTANTS
  Frames,          \* the wire frames that pass validation
  Torn,            \* the contents of a slot that holds no complete frame
  Capacity,        \* --capture-queue-frames
  ExpectedFrames   \* expected_frame_count: bounds the acquisition loop

\* The constructor rejects a capacity of zero and the option parser an
\* expected count of zero.
ASSUME QueueAssumption ==
  /\ Capacity \in Nat \ {0}
  /\ ExpectedFrames \in Nat \ {0}
  /\ Torn \notin Frames

VARIABLES
  slots,            \* the wire bytes of each slot
  producer_index,
  consumer_index,
  producer,         \* where the acquisition thread is in its use of a slot
  consumer,         \* where the capture worker is in its use of a slot
  in_hand,          \* what the worker has begun to read from its slot
  accepted,         \* history: the frames published, in order
  received          \* history: the frames the worker has read, in order

vars == <<slots, producer_index, consumer_index, producer, consumer,
          in_hand, accepted, received>>

Contents == Frames \union {Torn}
SlotCount == Capacity + 1
Slots == 0 .. Capacity
NullSlot == -1

-----------------------------------------------------------------------------
(* The member functions.                                                   *)

\* Definitions named Variant_... are plausible mistakes, for checking that
\* the properties would notice them; no specification uses one.
Variant_next_no_wrap(i) == i + 1

next(i) == (i + 1) % SlotCount

size ==
  IF producer_index >= consumer_index
  THEN producer_index - consumer_index
  ELSE SlotCount - consumer_index + producer_index

Variant_has_space_last_slot == size <= Capacity

\* One slot stays free, so that a full ring differs from an empty one.
has_space == next(producer_index) # consumer_index

producer_slot == producer_index

publish == producer_index' = next(producer_index)

empty == consumer_index = producer_index

Variant_consumer_slot_unchecked == consumer_index

consumer_slot == IF consumer_index = producer_index THEN NullSlot ELSE consumer_index

Variant_release_forgotten == UNCHANGED consumer_index

release == consumer_index' = next(consumer_index)
-----------------------------------------------------------------------------
Init ==
  /\ slots = [i \in Slots |-> Torn]
  /\ producer_index = 0
  /\ consumer_index = 0
  /\ producer = "idle"
  /\ consumer = "idle"
  /\ in_hand = Torn
  /\ accepted = << >>
  /\ received = << >>

(* The acquisition thread.                                                 *)

\* The loop goes on while frames are expected and there is room for one; a
\* full queue ends the acquisition.
CheckSpace ==
  /\ producer = "idle"
  /\ Len(accepted) < ExpectedFrames
  /\ producer' = IF has_space THEN "granted" ELSE "stopped"
  /\ UNCHANGED <<slots, producer_index, consumer_index, consumer, in_hand,
                 accepted, received>>

\* recv starts to overwrite the bytes of the slot.
BeginReceive ==
  /\ producer = "granted"
  /\ producer' = "filling"
  /\ slots' = [slots EXCEPT ![producer_slot] = Torn]
  /\ UNCHANGED <<producer_index, consumer_index, consumer, in_hand, accepted,
                 received>>

\* The slot holds a complete frame that passed every check.
CompleteReceive(f) ==
  /\ producer = "filling"
  /\ producer' = "filled"
  /\ slots' = [slots EXCEPT ![producer_slot] = f]
  /\ UNCHANGED <<producer_index, consumer_index, consumer, in_hand, accepted,
                 received>>

\* The connection ends, or the frame is refused: the slot is not published.
AbandonReceive ==
  /\ producer = "filling"
  /\ producer' = "stopped"
  /\ UNCHANGED <<slots, producer_index, consumer_index, consumer, in_hand,
                 accepted, received>>

Publish ==
  /\ producer = "filled"
  /\ producer' = "idle"
  /\ publish
  /\ accepted' = Append(accepted, slots[producer_slot])
  /\ UNCHANGED <<slots, consumer_index, consumer, in_hand, received>>

(* The capture worker.                                                     *)

\* The worker asks for the oldest frame and starts to read it.
BeginRead ==
  /\ consumer = "idle"
  /\ consumer_slot # NullSlot
  /\ consumer' = "reading"
  /\ in_hand' = slots[consumer_slot]
  /\ UNCHANGED <<slots, producer_index, consumer_index, producer, accepted,
                 received>>

\* The write has read the last byte of the slot.
EndRead ==
  /\ consumer = "reading"
  /\ consumer' = "read"
  /\ received' = Append(received, IF slots[consumer_index] = in_hand THEN in_hand ELSE Torn)
  /\ UNCHANGED <<slots, producer_index, consumer_index, producer, in_hand, accepted>>

Release ==
  /\ consumer = "read"
  /\ consumer' = "idle"
  /\ release
  /\ UNCHANGED <<slots, producer_index, producer, in_hand, accepted, received>>

Acquire ==
  \/ CheckSpace
  \/ BeginReceive
  \/ \E f \in Frames : CompleteReceive(f)
  \/ AbandonReceive
  \/ Publish

Drain ==
  \/ BeginRead
  \/ EndRead
  \/ Release

Next == Acquire \/ Drain

Spec == Init /\ [][Next]_vars
-----------------------------------------------------------------------------
\* Every variable has its type; the indices stay within the slots.
TypeOK ==
  /\ slots \in [Slots -> Contents]
  /\ producer_index \in Slots
  /\ consumer_index \in Slots
  /\ producer \in {"idle", "granted", "filling", "filled", "stopped"}
  /\ consumer \in {"idle", "reading", "read"}
  /\ in_hand \in Contents
  /\ accepted \in Seq(Frames)
  /\ received \in Seq(Contents)

\* The slot that recv may overwrite is never the slot that the worker is
\* writing to disk: the two threads touch disjoint memory (producer_slot and
\* consumer_slot hand out bare references).
SlotsDisjoint ==
  producer \in {"granted", "filling", "filled"} /\ consumer \in {"reading", "read"}
    => producer_slot # consumer_index

\* The frames between the two indices, oldest first.
Ring == [k \in 1 .. size |-> slots[(consumer_index + k - 1) % SlotCount]]

\* Those the worker has still to read: until it releases a slot, the slot of
\* the frame it has just read stays in the ring.
Buffer == IF consumer = "read" THEN Tail(Ring) ELSE Ring

\* Every published frame is read once, in order and intact, or is still in
\* the ring: none is lost, repeated, reordered or read torn, through any
\* number of trips around the ring.
Conservation == accepted = received \o Buffer

\* The ring is a bounded first-in first-out buffer.
Fifo == INSTANCE BoundedFifo WITH buffer <- Buffer
ImplementsFifo == Fifo!Spec
=============================================================================
