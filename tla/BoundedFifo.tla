---------------------------- MODULE BoundedFifo ----------------------------
(***************************************************************************)
(* What the capture queue promises to the two threads of the receiver: a   *)
(* first-in first-out buffer of at most Capacity frames.  Nothing is said  *)
(* here of slots, indices or of who waits for whom; module CaptureQueue is *)
(* the ring that implements it.                                            *)
(***************************************************************************)
EXTENDS Naturals, Sequences

CONSTANTS
  Frames,     \* the frames that can pass through the queue
  Capacity    \* the capacity given to the constructor

VARIABLES
  buffer,     \* the frames in the queue, oldest first
  received    \* the frames the consumer has taken, in order (history)

fifo_vars == <<buffer, received>>

Init ==
  /\ buffer = << >>
  /\ received = << >>

\* A frame is handed over only while there is room for it.
Enqueue(f) ==
  /\ Len(buffer) < Capacity
  /\ buffer' = Append(buffer, f)
  /\ UNCHANGED received

\* The consumer takes the oldest frame.
Dequeue ==
  /\ buffer # << >>
  /\ received' = Append(received, Head(buffer))
  /\ buffer' = Tail(buffer)

Next ==
  \/ \E f \in Frames : Enqueue(f)
  \/ Dequeue

Spec == Init /\ [][Next]_fifo_vars
=============================================================================
