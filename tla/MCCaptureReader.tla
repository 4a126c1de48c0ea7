-------------------------- MODULE MCCaptureReader --------------------------
(* The capture reader on small captures, for TLC.                          *)
EXTENDS CaptureReader

\* Empty and non-empty files, with and without a torn end.
SmallFiles == [frames : 0 .. 2, torn : 0 .. 1, opens : BOOLEAN]
=============================================================================
