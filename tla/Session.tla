------------------------------ MODULE Session -------------------------------
(***************************************************************************)
(* One module's whole session: the sender process, the TCP connection and  *)
(* the receiver process with its startup, its acquisition thread and its   *)
(* capture worker.  The receiver after accept is module Receiver, whose    *)
(* recv is answered here by the connection instead of by anything at all.  *)
(* The k-th frame that the sender sends is the number k.                   *)
(***************************************************************************)
EXTENDS Sender, Receiver

\* The frames of a session are numbers.  Of an option record, the receiver's
\* part: agrees, the same rate and module id were given to both ends, and
\* checks_module, one was given to the receiver.
ASSUME SessionAssumption ==
  /\ \A c \in CommandLines : 1 .. c.frame_count \subseteq Frames
  /\ \A c \in CommandLines : c.agrees \in BOOLEAN /\ c.checks_module \in BOOLEAN

VARIABLE startup    \* how far the receiver is before its loop

session_vars == <<startup, sender_vars, stream_vars, vars>>

SessionInit ==
  /\ SenderInit
  /\ StreamInit
  /\ Init
  /\ startup = "start"

-----------------------------------------------------------------------------
(* The sender's steps.  Only a receiver that listens takes a connection.   *)

SenderActs ==
  /\ \/ SenderStep
     \/ startup \in {"accept", "running"} /\ Connect
  /\ UNCHANGED <<startup, vars>>

SenderIsKilled ==
  /\ Killed
  /\ UNCHANGED <<startup, vars>>

-----------------------------------------------------------------------------
(* The receiver before its loop.                                           *)

\* Bad options (64), or the timing log cannot be opened (8).
StartReceiver ==
  /\ startup = "start"
  /\ startup' \in {"listen", "failed"}
  /\ UNCHANGED <<sender_vars, stream_vars, vars>>

\* No address can be bound (1), or the kernel takes connections from now on.
Listen ==
  /\ startup = "listen"
  /\ startup' \in {"accept", "failed"}
  /\ UNCHANGED <<sender_vars, stream_vars, vars>>

\* accept waits for a connection, whatever has become of it since; if it
\* fails, the receiver returns (2).
Accept ==
  /\ startup = "accept"
  /\ link # "none"
  /\ \/ startup' = "running" /\ UNCHANGED link
     \/ startup' = "failed" /\ ReceiverCloses
  /\ UNCHANGED <<sender_vars, wire, sent, got, garbled, vars>>

-----------------------------------------------------------------------------
(* The receiver's loop.                                                    *)

Receive ==
  /\ main_pc = "receiving"
  /\ \E n \in 1 .. FrameParts : RecvSome(n)
  /\ UNCHANGED <<startup, sender_vars, vars>>

ReceiveEnds ==
  /\ main_pc = "receiving"
  /\ RecvEnds
  /\ RejectFrame(3)
  /\ UNCHANGED <<startup, sender_vars, stream_vars>>

\* The frame whose header the buffer begins with, and the one that the buffer
\* holds from its first byte to its last.
Header == got[1][1]
Content ==
  IF got = [p \in 1 .. FrameParts |-> Unit(Header, p)] THEN Header ELSE Torn

\* Definitions named Variant_... are plausible mistakes, for checking that
\* the properties would notice them; no specification uses one.
Variant_Parses_header_only == Header \in Frames /\ Kind(Header) # "invalid"

\* The parser makes the same checks as the sender made on its input.
Parses == Content \in Frames /\ Kind(Header) # "invalid"

\* The rate and the module id are those that the receiver was given.
Matches == options.agrees /\ (options.checks_module => Kind(Header) # "other_module")

\* A complete buffer: it will be published, or the parser (4) or the checks
\* of the rate and the module id (5) refuse it.
ClassifyFrame ==
  /\ main_pc = "receiving"
  /\ Complete
  /\ got' = << >>
  /\ \/ Parses /\ Matches /\ ReceiveFrame(Content)
     \/ ~Parses /\ RejectFrame(4)
     \/ Parses /\ ~Matches /\ RejectFrame(5)
  /\ UNCHANGED <<startup, sender_vars, link, wire, sent, garbled>>

Ingest == Receive \/ ReceiveEnds \/ ClassifyFrame

\* The other steps of the acquisition thread.  The connection is closed when
\* main returns.
ReceiverActs ==
  /\ startup = "running"
  /\ Acquire
  /\ IF main_pc' = "exited" THEN ReceiverCloses ELSE UNCHANGED link
  /\ UNCHANGED <<startup, sender_vars, wire, sent, got, garbled>>

WorkerActs ==
  /\ startup = "running"
  /\ Drain
  /\ UNCHANGED <<startup, sender_vars, stream_vars>>

WorkerWakes ==
  /\ SpuriousWakeup
  /\ UNCHANGED <<startup, sender_vars, stream_vars>>

NetworkActs ==
  /\ Network
  /\ UNCHANGED <<startup, sender_vars, vars>>

SenderExited == sender_pc = "exited"
ReceiverExited == startup = "failed" \/ main_pc = "exited"

SessionNext ==
  \/ SenderActs
  \/ SenderIsKilled
  \/ StartReceiver
  \/ Listen
  \/ Accept
  \/ Ingest
  \/ ReceiverActs
  \/ WorkerActs
  \/ WorkerWakes
  \/ NetworkActs

SessionSpec == SessionInit /\ [][SessionNext]_session_vars

\* Both processes are scheduled and their calls return, as far as the peer and
\* the network let them: nothing obliges the sender to connect or the network
\* to say that it is gone.
FairSession ==
  /\ SessionSpec
  /\ WF_session_vars(SenderActs)
  /\ WF_session_vars(StartReceiver)
  /\ WF_session_vars(Listen)
  /\ WF_session_vars(Accept)
  /\ WF_session_vars(Ingest)
  /\ WF_session_vars(ReceiverActs)
  /\ WF_session_vars(WorkerActs)
-----------------------------------------------------------------------------
Units == Frames \X (1 .. FrameParts) \union {Garbage}

\* Every variable of the session has its type; the buffers keep their bounds.
SessionTypeOK ==
  /\ TypeOK
  /\ link \in Links
  /\ wire \in Seq(Units) /\ Len(wire) <= StreamSpace
  /\ sent \in 0 .. FrameParts
  /\ got \in Seq(Units) /\ Len(got) <= FrameParts
  /\ startup \in {"start", "listen", "accept", "running", "failed"}
  /\ sender_exit \in {0, 1, 2, 8, 9, 10, 64, BySignal}
  /\ frame_id \in 0 .. options.frame_count
  /\ readable \in 0 .. options.frame_count

\* The frames that TcpSender::send has handed over completely.
Transmitted == frame_id + (IF sent = FrameParts THEN 1 ELSE 0)

Channel == INSTANCE FrameChannel WITH
             transmitted <- [k \in 1 .. Transmitted |-> k],
             delivered <- accepted

\* Partial sends and receives, a connection that ends inside a frame and
\* damaged bytes never make the receiver publish anything but the frames that
\* the sender sent, whole, once and in their order.
ImplementsChannel == Channel!Spec

\* What the receiver reports is what happened: a malformed frame (4) was
\* damaged on its way, whatever file the sender was given; a wrong rate or
\* module (5) can only come from options that disagree or from an input whose
\* module the sender was not told to check; and a disconnect (3) that no
\* network failure explains means that the sender failed or was to send less.
RefusalsExplained ==
  /\ exit_code = 4 => garbled
  /\ exit_code = 5 => ~options.agrees \/ (options.source # Simulated /\ ~options.module_given)
  /\ exit_code = 3 /\ link = "finished" =>
       sender_exit # 0 \/ options.frame_count < ExpectedFrames

\* With --save-sent, the sender's capture has no frame that was not sent whole.
\* And when the sender reports success it has all of them, which is at least
\* what the receiver published, so that the two captures can be compared;
\* unless a segment was cut short when the writer went on to the next one.
SentCaptureCovers ==
  /\ readable <= Transmitted
  /\ options.save_sent /\ SenderExited /\ sender_exit = 0 /\ ~Cut =>
       readable = options.frame_count /\ Len(accepted) <= readable

\* The session ends, but for the calls that have no timeout: accept when
\* nobody connects, recv on a connection that went silent, and the worker's
\* wait whose last notification was lost; then the sender may wait as well,
\* for a receiver that reads no more.
AcceptWaits == startup = "accept" /\ link = "none"
RecvWaits == main_pc = "receiving" /\ link = "silent" /\ wire = << >> /\ ~Complete

SessionEnds ==
  <>(/\ SenderExited \/ WakeupLost
     /\ ReceiverExited \/ AcceptWaits \/ RecvWaits \/ WakeupLost)
=============================================================================
