------------------------------- MODULE Sender -------------------------------
(***************************************************************************)
(* The sender process (sender/main.cpp): connect, then for each frame of   *)
(* the schedule take it from the simulator or from --input, check it, send *)
(* it, save it; at the end flush, report and exit.  Every early return has *)
(* its exit code.  There is no handler for any signal: SIGTERM, or SIGPIPE *)
(* from a send into a connection that its peer closed, ends the process.   *)
(*                                                                         *)
(* With --save-sent a CaptureWriter keeps what was sent.  Of its files this *)
(* module has the frames that can be read back whole, for the stream holds *)
(* back what it is given until it is flushed or a segment is closed.       *)
(*                                                                         *)
(* Times, statistics and the timing log's rows are left out: they have no  *)
(* part in what is sent.                                                   *)
(***************************************************************************)
EXTENDS TcpStream

CONSTANTS
  CommandLines,    \* the option records that the two processes are started with
  Simulated,       \* the source of frames made by fill_frame: no --input
  SegmentFrames    \* the frames of a segment of the sent capture (10000)

Kinds == {"valid", "invalid", "other_rate", "other_module"}

ASSUME SenderAssumption ==
  /\ SegmentFrames \in Nat \ {0}
  /\ \A c \in CommandLines :
       /\ c.frame_count \in Nat \ {0}
       /\ c.source = Simulated \/ c.source \in Seq(Kinds)
       /\ c.save_sent \in BOOLEAN /\ c.module_given \in BOOLEAN

VARIABLES
  options,        \* source, frame_count, save_sent, module_given
  sender_pc,      \* the next step
  sender_exit,    \* 0 until an exit code is set
  frame_id,       \* the index of the loop
  readable        \* the sent frames, from the first on, that are in the files

\* What the shell shows of a process that a signal ended.
BySignal == 128

sender_vars == <<options, sender_pc, sender_exit, frame_id, readable>>

SenderInit ==
  /\ options \in CommandLines
  /\ sender_pc = "start"
  /\ sender_exit = 0
  /\ frame_id = 0
  /\ readable = 0

Return(code) ==
  /\ sender_pc' = "exited"
  /\ sender_exit' = code
  /\ SenderCloses

Continue(pc) == sender_pc' = pc /\ UNCHANGED <<sender_exit, link>>

\* Bad options, or the timing log cannot be opened.
Start ==
  /\ sender_pc = "start"
  /\ \/ Continue("connect")
     \/ \E code \in {64, 8} : Return(code)
  /\ UNCHANGED <<options, frame_id, readable, wire, sent, got, garbled>>

\* No address works: none is found, none can be bound, none answers.
ConnectFails ==
  /\ sender_pc = "connect"
  /\ Return(1)
  /\ UNCHANGED <<options, frame_id, readable, wire, sent, got, garbled>>

\* The kernel of the receiver takes the connection before accept is called.
Connect ==
  /\ sender_pc = "connect"
  /\ sender_pc' = "open_input"
  /\ link' = "open"
  /\ UNCHANGED <<options, sender_exit, frame_id, readable, wire, sent, got, garbled>>

OpenInput ==
  /\ sender_pc = "open_input"
  /\ \/ Continue("frame")
     \/ options.source # Simulated /\ Return(10)
  /\ UNCHANGED <<options, frame_id, readable, wire, sent, got, garbled>>

-----------------------------------------------------------------------------
(* The loop.                                                               *)

\* What the k-th frame of the loop would be.
Kind(k) == IF options.source = Simulated THEN "valid" ELSE options.source[k]

\* Definitions named Variant_... are plausible mistakes, for checking that
\* the properties would notice them; no specification uses one.
Variant_Refused_only_invalid(kind) == kind = "invalid"

Refused(kind) ==
  \/ kind \in {"invalid", "other_rate"}
  \/ options.module_given /\ kind = "other_module"

InputEnds ==
  options.source # Simulated /\ frame_id = Len(options.source)

\* The next frame is there and the sender takes it.
NextFrameGood == ~InputEnds /\ ~Refused(Kind(frame_id + 1))

\* The frames of the segments that the writer has left behind.
ClosedFrames ==
  IF frame_id = 0 THEN 0 ELSE SegmentFrames * ((frame_id - 1) \div SegmentFrames)

\* One of them was closed without all its frames: nobody notices, and what
\* comes later does not mend it.
Cut == readable < ClosedFrames

\* Of the frames that the writer was given, the files get more or less: at a
\* write, at a close, or when an early return destroys the writer.
WriteBack(given) ==
  readable' \in IF options.save_sent /\ ~Cut THEN readable .. given ELSE {readable}

PrepareFrame ==
  /\ sender_pc = "frame"
  /\ \/ frame_id = options.frame_count /\ Continue("flush") /\ UNCHANGED readable
     \/ frame_id < options.frame_count /\ NextFrameGood /\ Continue("send") /\ UNCHANGED readable
     \/ frame_id < options.frame_count /\ ~NextFrameGood /\ Return(10) /\ WriteBack(frame_id)
  /\ UNCHANGED <<options, frame_id, wire, sent, got, garbled>>

SendPart ==
  /\ sender_pc = "send"
  /\ \E n \in 1 .. FrameParts : SendSome(frame_id + 1, n)
  /\ sender_pc' = IF sent' = FrameParts THEN "save" ELSE "send"
  /\ UNCHANGED <<options, sender_exit, frame_id, readable>>

SendFails ==
  /\ sender_pc = "send"
  /\ link \in {"closed", "cut", "silent"}
  /\ Return(2)
  /\ WriteBack(frame_id)
  /\ UNCHANGED <<options, frame_id, wire, sent, got, garbled>>

Save ==
  /\ sender_pc = "save"
  /\ \/ /\ Continue("frame")
        /\ frame_id' = frame_id + 1
        /\ sent' = 0
        /\ WriteBack(frame_id + 1)
     \/ /\ options.save_sent
        /\ Return(9)
        /\ WriteBack(frame_id)
        /\ UNCHANGED <<frame_id, sent>>
  /\ UNCHANGED <<options, wire, got, garbled>>

Variant_FinishSender_leaves_it_to_the_destructor ==
  /\ sender_pc = "flush"
  /\ Return(0) \/ Return(8)
  /\ WriteBack(frame_id)
  /\ UNCHANGED <<options, frame_id, wire, sent, got, garbled>>

\* The flush of the saved frames (9) or of the timing log (8) may fail; the
\* metrics row is written after both.
FinishSender ==
  /\ sender_pc = "flush"
  /\ \/ /\ Return(0) \/ Return(8)
        /\ readable' = IF options.save_sent /\ ~Cut THEN frame_id ELSE readable
     \/ /\ options.save_sent
        /\ Return(9)
        /\ WriteBack(frame_id)
  /\ UNCHANGED <<options, frame_id, wire, sent, got, garbled>>

\* SIGTERM at any time, SIGPIPE instead of a failing send: what the stream
\* still holds is gone.
Killed ==
  /\ sender_pc # "exited"
  /\ Return(BySignal)
  /\ UNCHANGED <<options, frame_id, readable, wire, sent, got, garbled>>

SenderStep ==
  \/ Start
  \/ ConnectFails
  \/ OpenInput
  \/ PrepareFrame
  \/ SendPart
  \/ SendFails
  \/ Save
  \/ FinishSender
=============================================================================
