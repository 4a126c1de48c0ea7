--------------------------- MODULE MCCaptureFiles ---------------------------
(* The capture files on small instances, for TLC.                          *)
EXTENDS CaptureFiles
=============================================================================
