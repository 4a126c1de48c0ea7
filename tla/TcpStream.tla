----------------------------- MODULE TcpStream -----------------------------
(***************************************************************************)
(* The TCP connection between sender and receiver, with the loops at its   *)
(* two ends: TcpSender::send hands a frame to the kernel in as many parts  *)
(* as the kernel takes, TcpReceiver::receive_exact collects as many parts  *)
(* as make a frame.  Nothing on the wire marks where a frame begins.       *)
(*                                                                         *)
(* A frame is FrameParts units <<frame, part>>; send and recv move any     *)
(* number of units that there is room, or data, for.                       *)
(***************************************************************************)
EXTENDS Integers, Sequences

CONSTANTS
  FrameParts,    \* bound: the pieces a frame may be cut into
  StreamSpace    \* bound: the units the socket buffers hold

ASSUME StreamAssumption ==
  /\ FrameParts \in Nat \ {0}
  /\ StreamSpace \in Nat \ {0}

VARIABLES
  link,      \* "none", "open", or the first thing that ended it
  wire,      \* the units between the two ends
  sent,      \* TcpSender::send: the units of its frame that it handed over
  got,       \* TcpReceiver::receive_exact: the units it has received
  garbled    \* history: a unit was damaged on its way

stream_vars == <<link, wire, sent, got, garbled>>

Links == {"none", "open", "finished", "closed", "cut", "silent"}

Garbage == <<0, 0>>

Unit(frame, part) == <<frame, part>>

StreamInit ==
  /\ link = "none"
  /\ wire = << >>
  /\ sent = 0
  /\ got = << >>
  /\ garbled = FALSE

Least(a, b) == IF a < b THEN a ELSE b

\* ::send takes n units.  It may go on taking them for a while after the
\* connection broke; they are lost.
SendSome(frame, n) ==
  /\ link # "none"
  /\ n \in 1 .. FrameParts - sent
  /\ sent' = sent + n
  /\ IF link = "open"
     THEN /\ Len(wire) + n <= StreamSpace
          /\ wire' = wire \o [i \in 1 .. n |-> Unit(frame, sent + i)]
     ELSE UNCHANGED wire
  /\ UNCHANGED <<link, got, garbled>>

\* Definitions named Variant_... are plausible mistakes, for checking that
\* the properties would notice them; no specification uses one.
Variant_Complete_after_first_recv == got # << >>

\* receive_exact has filled its buffer.
Complete == Len(got) = FrameParts

Variant_RecvSome_past_the_frame(n) ==
  /\ n \in 1 .. Len(wire)
  /\ Len(got) < FrameParts
  /\ got' = got \o SubSeq(wire, 1, n)
  /\ wire' = SubSeq(wire, n + 1, Len(wire))
  /\ UNCHANGED <<link, sent, garbled>>

\* ::recv gives n units.
RecvSome(n) ==
  /\ n \in 1 .. Least(FrameParts - Len(got), Len(wire))
  /\ got' = got \o SubSeq(wire, 1, n)
  /\ wire' = SubSeq(wire, n + 1, Len(wire))
  /\ UNCHANGED <<link, sent, garbled>>

Variant_RecvEnds_only_on_error == ~Complete /\ wire = << >> /\ link = "cut"

\* ::recv returns 0 or fails.
RecvEnds == ~Complete /\ wire = << >> /\ link \in {"finished", "cut"}

\* The sender closes, or its process ends: what is on the wire still arrives.
SenderCloses == link' = IF link = "open" THEN "finished" ELSE link

\* The receiver closes: the sender's next calls fail.
ReceiverCloses == link' = IF link = "open" THEN "closed" ELSE link

(* What the network does.                                                  *)

\* A connection breaks with an error at both ends, or goes dead without one;
\* either way the end of what was on the wire is lost.
Break ==
  /\ link \in {"open", "finished"}
  /\ link' \in {"cut", "silent"}
  /\ \E n \in 0 .. Len(wire) : wire' = SubSeq(wire, 1, n)
  /\ UNCHANGED <<sent, got, garbled>>

\* A damage that TCP's checksum does not notice; at most one.
Garble ==
  /\ ~garbled
  /\ garbled' = TRUE
  /\ \E i \in 1 .. Len(wire) : wire' = [wire EXCEPT ![i] = Garbage]
  /\ UNCHANGED <<link, sent, got>>

Network == Break \/ Garble
=============================================================================
