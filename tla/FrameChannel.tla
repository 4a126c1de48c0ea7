---------------------------- MODULE FrameChannel ----------------------------
(***************************************************************************)
(* What a session promises about the way of a frame from the sender to the *)
(* receiver: whole frames arrive, in the order in which they were sent,    *)
(* each at most once and none before a later one.  The channel may stop at *)
(* any moment.                                                             *)
(***************************************************************************)
EXTENDS Naturals, Sequences

CONSTANT Frames

VARIABLES transmitted, delivered

Init ==
  /\ transmitted = << >>
  /\ delivered = << >>

Transmit(f) ==
  /\ transmitted' = Append(transmitted, f)
  /\ UNCHANGED delivered

Deliver ==
  /\ Len(delivered) < Len(transmitted)
  /\ delivered' = Append(delivered, transmitted[Len(delivered) + 1])
  /\ UNCHANGED transmitted

Next == Deliver \/ \E f \in Frames : Transmit(f)

Spec == Init /\ [][Next]_<<transmitted, delivered>>
=============================================================================
