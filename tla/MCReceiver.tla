----------------------------- MODULE MCReceiver -----------------------------
(* The receiver on small instances, for TLC.                               *)
EXTENDS Receiver
=============================================================================
