--------------------------- MODULE MCFrameCompare ---------------------------
(* The comparison of small captures, for TLC.                              *)
EXTENDS FrameCompare

Undamaged(n, b) == [id |-> n, valid |-> TRUE, body |-> b]
Damaged(n) == [id |-> n, valid |-> FALSE, body |-> "a"]

\* Three ids, one of them with two different bodies, and damaged frames whose
\* ids may be right or wrong, below or above those around them.
SomeFrames ==
  {Undamaged(n, "a") : n \in 1 .. 3} \union {Undamaged(2, "b"), Damaged(1), Damaged(3)}
=============================================================================
