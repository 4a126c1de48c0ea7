--------------------------- MODULE MCCaptureQueue ---------------------------
(* The capture queue on a small instance, for TLC.                         *)
EXTENDS QueueMemory, TLC

\* Frames are only copied and compared.
FrameSymmetry == Permutations(Frames)
=============================================================================
