---------------------------- MODULE SessionProofs ----------------------------
(***************************************************************************)
(* Proofs about a session, for every number of frames, every way to cut    *)
(* them into parts, every buffer, queue and set of command lines.          *)
(*                                                                         *)
(* The units of a session are numbered through: part p of frame f is at    *)
(* place Base(f) + p.  While the receiver is in its loop, what it has in   *)
(* its buffer and what is on the wire are the units at the places that     *)
(* follow the frames it has taken, without a hole (PositionOK); a unit may *)
(* be damaged, and the end may be missing once the connection broke.  A    *)
(* buffer that holds one whole frame therefore holds the next one, and what *)
(* the receiver publishes is a prefix of what was transmitted.             *)
(***************************************************************************)
EXTENDS Session, ReceiverProofs, SequenceTheorems

Base(f) == f * FrameParts

\* The frames that the acquisition thread has received whole.
Taken == Len(accepted) + (IF main_pc = "publish" THEN 1 ELSE 0)

\* Nothing that was sent is lost.
Lossless == link \in {"none", "open", "finished"}

\* The unit of that place, unless it is damaged.
IsAt(u, place) ==
  u = Garbage \/ \E f \in Nat, p \in 1 .. FrameParts :
                   u = Unit(f, p) /\ Base(f) + p = place

SenderPcs == {"start", "connect", "open_input", "frame", "send", "save", "flush",
              "exited"}

\* Where the sender is.
SenderOK ==
  /\ options \in CommandLines
  /\ sender_pc \in SenderPcs
  /\ sender_exit \in {0, 1, 2, 8, 9, 10, 64, BySignal}
  /\ startup \in {"start", "listen", "accept", "running", "failed"}
  /\ frame_id \in 0 .. options.frame_count
  /\ sent \in 0 .. FrameParts
  /\ sender_pc \in {"send", "save"} \/ sent > 0 => frame_id < options.frame_count
  /\ sender_pc = "send" => sent < FrameParts
  /\ sender_pc = "save" => sent = FrameParts
  /\ sender_pc \notin {"send", "save", "exited"} => sent = 0
  /\ sender_pc = "flush" \/ (sender_pc = "exited" /\ sender_exit = 0) =>
       frame_id = options.frame_count /\ sent = 0

\* What it has sent, it has checked.
CheckedOK ==
  /\ \A k \in 1 .. frame_id : ~Refused(Kind(k))
  /\ sender_pc \in {"send", "save"} \/ sent > 0 => ~Refused(Kind(frame_id + 1))

\* What is in the buffers, and how the connection can have ended.
StreamOK ==
  /\ link \in Links
  /\ link = "finished" => sender_pc = "exited"
  /\ sender_pc \in {"start", "connect"} => link = "none"
  /\ wire \in Seq(Units) /\ Len(wire) <= StreamSpace
  /\ got \in Seq(Units) /\ Len(got) <= FrameParts
  /\ garbled \in BOOLEAN
  /\ ~garbled => /\ \A i \in 1 .. Len(wire) : wire[i] # Garbage
                 /\ \A i \in 1 .. Len(got) : got[i] # Garbage

PositionOK ==
  InLoop =>
    /\ Base(Taken) + Len(got) + Len(wire) <= Base(frame_id) + sent
    /\ Lossless => Base(Taken) + Len(got) + Len(wire) = Base(frame_id) + sent
    /\ \A i \in 1 .. Len(got) : IsAt(got[i], Base(Taken + 1) + i)
    /\ \A i \in 1 .. Len(wire) : IsAt(wire[i], Base(Taken + 1) + Len(got) + i)

\* What was taken, is being published and was published are the frames in order.
DeliveredOK ==
  /\ Taken <= Transmitted
  /\ \A k \in 1 .. Len(accepted) : accepted[k] = k
  /\ main_pc = "publish" => slots[producer_index] = Taken

\* A disconnect stays what it was.
ExplainedOK ==
  /\ RefusalsExplained
  /\ exit_code = 3 => link \in {"finished", "cut", "silent"}

\* Together with the receiver's invariant RInv, this is inductive.
SessionParts ==
  SenderOK /\ CheckedOK /\ StreamOK /\ PositionOK /\ DeliveredOK /\ ExplainedOK

-----------------------------------------------------------------------------
(* Places.                                                                 *)

LEMMA BaseNext ==
  ASSUME NEW f \in Nat
  PROVE  Base(f) \in Nat /\ Base(f + 1) = Base(f) + FrameParts
BY StreamAssumption DEF Base

LEMMA BaseOrder ==
  ASSUME NEW f \in Nat, NEW g \in Nat, f < g
  PROVE  Base(f) + FrameParts <= Base(g)
<1>1. PICK d \in Nat : g = f + 1 + d
  <2>1. g - (f + 1) \in Nat /\ g = f + 1 + (g - (f + 1))
    OBVIOUS
  <2> QED
    BY <2>1
<1>2. Base(g) = Base(f) + FrameParts + d * FrameParts
  BY <1>1, StreamAssumption DEF Base
<1>3. d * FrameParts \in Nat /\ Base(f) \in Nat
  BY StreamAssumption DEF Base
<1> QED
  BY <1>2, <1>3, StreamAssumption

LEMMA BaseUnique ==
  ASSUME NEW f \in Nat, NEW g \in Nat,
         NEW p \in 1 .. FrameParts, NEW q \in 1 .. FrameParts,
         Base(f) + p = Base(g) + q
  PROVE  f = g /\ p = q
<1>1. Base(f) \in Nat /\ Base(g) \in Nat /\ FrameParts \in Nat
  BY BaseNext, StreamAssumption
<1>2. ~(f < g)
  BY <1>1, BaseOrder
<1>3. ~(g < f)
  BY <1>1, BaseOrder
<1> QED
  BY <1>1, <1>2, <1>3

\* A frame that is there up to a place is one that was sent up to there.
LEMMA BaseReached ==
  ASSUME NEW f \in Nat, NEW g \in Nat, NEW p \in 0 .. FrameParts,
         Base(f) <= Base(g) + p
  PROVE  f <= g + (IF p = FrameParts THEN 1 ELSE 0)
<1>1. Base(f) \in Nat /\ Base(g) \in Nat /\ FrameParts \in Nat \ {0}
  BY BaseNext, StreamAssumption
<1>2. Base(g + 1) = Base(g) + FrameParts
  BY BaseNext
<1>3. CASE p = FrameParts
  <2>1. ~(g + 1 < f)
    BY <1>1, <1>2, <1>3, BaseOrder
  <2> QED
    BY <1>3, <2>1
<1>4. CASE p < FrameParts
  <2>1. ~(g < f)
    BY <1>1, <1>4, BaseOrder
  <2> QED
    BY <1>4, <2>1
<1> QED
  BY <1>1, <1>3, <1>4

-----------------------------------------------------------------------------
(* The sequences of units.                                                 *)

LEMMA RecvSomeMoves ==
  ASSUME NEW U, got \in Seq(U), wire \in Seq(U), NEW n \in 1 .. FrameParts, RecvSome(n)
  PROVE  /\ got' \in Seq(U) /\ wire' \in Seq(U)
         /\ n <= Len(wire) /\ n <= FrameParts - Len(got)
         /\ Len(got') = Len(got) + n /\ Len(wire') = Len(wire) - n
         /\ \A i \in 1 .. Len(got') :
              got'[i] = IF i <= Len(got) THEN got[i] ELSE wire[i - Len(got)]
         /\ \A i \in 1 .. Len(wire') : wire'[i] = wire[i + n]
<1>1. n <= Len(wire) /\ n <= FrameParts - Len(got)
  BY StreamAssumption DEF RecvSome, Least
<1>2. DEFINE s == SubSeq(wire, 1, n)
<1>3. s \in Seq(U) /\ Len(s) = n /\ \A i \in 1 .. n : s[i] = wire[i]
  BY <1>1, SubSeqProperties
<1>4. got' = got \o s /\ wire' = SubSeq(wire, n + 1, Len(wire))
  BY DEF RecvSome
<1>5. wire' \in Seq(U) /\ Len(wire') = Len(wire) - n
        /\ \A i \in 1 .. Len(wire') : wire'[i] = wire[i + n]
  BY <1>1, <1>4, SubSeqProperties
<1>6. got' \in Seq(U) /\ Len(got') = Len(got) + n
        /\ \A i \in 1 .. Len(got') :
             got'[i] = IF i <= Len(got) THEN got[i] ELSE s[i - Len(got)]
  BY <1>3, <1>4, ConcatProperties
<1> QED
  BY <1>1, <1>3, <1>5, <1>6

LEMMA SendSomeMoves ==
  ASSUME NEW U, wire \in Seq(U), NEW f, NEW n \in 1 .. FrameParts, SendSome(f, n),
         sent \in 0 .. FrameParts, link = "open",
         \A i \in 1 .. FrameParts : Unit(f, i) \in U
  PROVE  /\ wire' \in Seq(U)
         /\ Len(wire') = Len(wire) + n /\ Len(wire') <= StreamSpace
         /\ \A i \in 1 .. Len(wire) : wire'[i] = wire[i]
         /\ \A i \in Len(wire) + 1 .. Len(wire) + n :
              wire'[i] = Unit(f, sent + (i - Len(wire)))
<1> DEFINE s == [i \in 1 .. n |-> Unit(f, sent + i)]
<1>1. s \in Seq(U) /\ Len(s) = n
  <2>1. \A i \in 1 .. n : s[i] \in U
    BY StreamAssumption DEF SendSome
  <2>2. DOMAIN s = 1 .. n
    OBVIOUS
  <2>3. s \in [1 .. n -> U]
    BY <2>1
  <2> QED
    BY <2>2, <2>3
<1>2. wire' = wire \o s /\ Len(wire) + n <= StreamSpace
  BY DEF SendSome
<1> QED
  BY <1>1, <1>2, ConcatProperties

-----------------------------------------------------------------------------
(* The receiver in a session is the receiver of module Receiver.           *)

LEMMA ContentIs == Content \in Frames => Content = Header
BY ReceiverAssumption DEF Content

LEMMA ReceiverStep == [SessionNext]_session_vars => [Next]_vars
<1> SUFFICES ASSUME [SessionNext]_session_vars PROVE [Next]_vars
  OBVIOUS
<1>1. SenderActs \/ SenderIsKilled \/ StartReceiver \/ Listen \/ Accept
        \/ Receive \/ NetworkActs \/ UNCHANGED session_vars => UNCHANGED vars
  BY DEF SenderActs, SenderIsKilled, StartReceiver, Listen, Accept, Receive,
         NetworkActs, session_vars
<1>2. ReceiveEnds => Arrival
  BY DEF ReceiveEnds, Arrival
<1>3. ClassifyFrame => Arrival
  BY DEF ClassifyFrame, Arrival, Parses
<1>4. ReceiverActs => Acquire
  BY DEF ReceiverActs
<1>5. WorkerActs \/ WorkerWakes => Drain \/ SpuriousWakeup
  BY DEF WorkerActs, WorkerWakes
<1> QED
  BY <1>1, <1>2, <1>3, <1>4, <1>5 DEF SessionNext, Ingest, Next

\* Every theorem about module Receiver holds in a session.
THEOREM ReceiverInSession == SessionSpec => Spec
<1>1. SessionInit => Init
  BY DEF SessionInit
<1> QED
  BY <1>1, ReceiverStep, PTL DEF SessionSpec, Spec

-----------------------------------------------------------------------------
(* The sender's steps.                                                     *)

Quiet ==
  \/ Start \/ ConnectFails \/ Connect \/ OpenInput \/ PrepareFrame
  \/ SendFails \/ FinishSender \/ Killed
  \/ Save /\ sender_pc' = "exited"

\* How a step of the sender that sends nothing changes the link.
LinkMoves ==
  \/ link' = link
  \/ link = "none" /\ link' = "open"
  \/ link = "open" /\ link' = "finished" /\ sender_pc' = "exited"

LEMMA QuietLeaves ==
  ASSUME StreamOK, Quiet
  PROVE  /\ UNCHANGED <<options, frame_id, wire, sent, got, garbled>>
         /\ sender_pc # "exited"
         /\ LinkMoves
BY DEF StreamOK, Quiet, Start, ConnectFails, Connect, OpenInput, PrepareFrame, SendFails,
       FinishSender, Killed, Save, Return, Continue, SenderCloses, LinkMoves

LEMMA QuietSenderOK ==
  ASSUME StreamOK, SenderOK, Quiet, UNCHANGED startup
  PROVE  SenderOK'
<1>1. options.frame_count \in Nat
  BY SenderAssumption DEF SenderOK
<1>2. UNCHANGED <<options, frame_id, sent>>
  BY QuietLeaves
<1> USE <1>1, <1>2 DEF SenderOK, SenderPcs, BySignal, Return, Continue
<1>3. CASE Start
  BY <1>3 DEF Start
<1>4. CASE ConnectFails
  BY <1>4 DEF ConnectFails
<1>5. CASE Connect
  BY <1>5 DEF Connect
<1>6. CASE OpenInput
  BY <1>6 DEF OpenInput
<1>7. CASE PrepareFrame
  BY <1>7, StreamAssumption DEF PrepareFrame
<1>8. CASE SendFails
  BY <1>8 DEF SendFails
<1>9. CASE FinishSender
  BY <1>9 DEF FinishSender
<1>10. CASE Killed
  BY <1>10 DEF Killed
<1>11. CASE Save /\ sender_pc' = "exited"
  BY <1>11 DEF Save
<1> QED
  BY <1>3, <1>4, <1>5, <1>6, <1>7, <1>8, <1>9, <1>10, <1>11 DEF Quiet

LEMMA QuietCheckedOK ==
  ASSUME StreamOK, CheckedOK, SenderOK, Quiet
  PROVE  CheckedOK'
<1>1. UNCHANGED <<options, frame_id, sent>>
  BY QuietLeaves
<1>2. sender_pc' \in {"send", "save"} =>
        sender_pc \in {"send", "save"} \/ ~Refused(Kind(frame_id + 1))
  BY DEF Quiet, Start, ConnectFails, Connect, OpenInput, PrepareFrame, SendFails,
         FinishSender, Killed, Save, Return, Continue, NextFrameGood
<1>3. \A k : Refused(Kind(k))' = Refused(Kind(k))
  BY <1>1 DEF Refused, Kind
<1>4. sender_pc' \in {"send", "save"} \/ sent' > 0 => ~Refused(Kind(frame_id + 1))
  BY <1>1, <1>2 DEF CheckedOK
<1> QED
  BY <1>1, <1>3, <1>4 DEF CheckedOK

LEMMA QuietStep ==
  ASSUME SessionParts, Quiet, UNCHANGED <<startup, vars>>
  PROVE  SessionParts'
<1> USE DEF SessionParts
<1>1. /\ UNCHANGED <<options, frame_id, wire, sent, got, garbled>>
      /\ sender_pc # "exited" /\ LinkMoves
  BY QuietLeaves
<1>2. UNCHANGED <<accepted, main_pc, slots, producer_index, exit_code>>
  BY DEF vars, main_vars, shared_vars
<1>3. SenderOK' /\ CheckedOK'
  BY QuietSenderOK, QuietCheckedOK
<1>4. StreamOK'
  <2>1. sender_pc' \in {"start", "connect"} => link' = "none"
    BY DEF StreamOK, Quiet, Start, ConnectFails, Connect, OpenInput, PrepareFrame,
           SendFails, FinishSender, Killed, Save, Return, Continue
  <2> QED
    BY <1>1, <2>1 DEF StreamOK, LinkMoves, Links
<1>5. PositionOK'
  BY <1>1, <1>2 DEF PositionOK, LinkMoves, Lossless, InLoop, Taken, IsAt, Base
<1>6. DeliveredOK'
  BY <1>1, <1>2 DEF DeliveredOK, Taken, Transmitted
<1>7. ExplainedOK'
  BY <1>1, <1>2 DEF StreamOK, ExplainedOK, RefusalsExplained, LinkMoves
<1> QED
  BY <1>3, <1>4, <1>5, <1>6, <1>7

LEMMA SaveStep ==
  ASSUME SessionParts, Save, sender_pc' # "exited", UNCHANGED <<startup, vars>>
  PROVE  SessionParts'
<1> USE DEF SessionParts
<1>1. /\ UNCHANGED <<options, wire, got, garbled, sender_exit, link>>
      /\ sender_pc = "save" /\ sender_pc' = "frame"
      /\ frame_id' = frame_id + 1
      /\ sent' = 0
  BY DEF Save, Return, Continue
<1>2. UNCHANGED <<accepted, main_pc, slots, producer_index, exit_code>>
  BY DEF vars, main_vars, shared_vars
<1>3. frame_id \in Nat /\ options.frame_count \in Nat /\ FrameParts \in Nat \ {0}
  BY SenderAssumption, StreamAssumption DEF SenderOK
<1>4. sent = FrameParts /\ frame_id < options.frame_count
  BY <1>1 DEF SenderOK
<1>5. SenderOK'
  BY <1>1, <1>3, <1>4 DEF SenderOK, SenderPcs
<1>6. CheckedOK'
  <2>1. \A k : Refused(Kind(k))' = Refused(Kind(k))
    BY <1>1 DEF Refused, Kind
  <2>2. \A k \in 1 .. frame_id + 1 : ~Refused(Kind(k))
    BY <1>1, <1>3 DEF CheckedOK
  <2> QED
    BY <1>1, <2>1, <2>2 DEF CheckedOK
<1>7. StreamOK'
  BY <1>1 DEF StreamOK
<1>8. PositionOK'
  <2>1. Base(frame_id + 1) + 0 = Base(frame_id) + sent
    BY <1>3, <1>4, BaseNext
  <2>2. UNCHANGED <<Taken, InLoop, Lossless, Base(Taken), Base(Taken + 1), got, wire>>
    BY <1>1, <1>2 DEF Taken, InLoop, Lossless, Base
  <2> QED
    BY <1>1, <2>1, <2>2 DEF PositionOK, IsAt, Base
<1>9. DeliveredOK'
  <2>1. Transmitted' = Transmitted
    BY <1>1, <1>3, <1>4 DEF Transmitted
  <2> QED
    BY <1>2, <2>1 DEF DeliveredOK, Taken
<1>10. ExplainedOK'
  BY <1>1, <1>2 DEF StreamOK, ExplainedOK, RefusalsExplained
<1> QED
  BY <1>5, <1>6, <1>7, <1>8, <1>9, <1>10

LEMMA Facts ==
  ASSUME SessionParts, RInv
  PROVE  /\ frame_id \in Nat /\ options.frame_count \in Nat
         /\ frame_id <= options.frame_count
         /\ sent \in 0 .. FrameParts /\ FrameParts \in Nat \ {0}
         /\ accepted \in Seq(Frames) /\ Taken \in Nat
         /\ got \in Seq(Units) /\ wire \in Seq(Units)
         /\ slots \in [Q!Slots -> Frames \union {Torn}] /\ producer_index \in Q!Slots
         /\ Base(Taken) \in Nat /\ Base(frame_id) \in Nat
         /\ Base(Taken + 1) = Base(Taken) + FrameParts
         /\ Base(frame_id + 1) = Base(frame_id) + FrameParts
<1>1. /\ accepted \in Seq(Frames)
      /\ slots \in [Q!Slots -> Frames \union {Torn}] /\ producer_index \in Q!Slots
  BY SameOperators DEF RInv, QP!IndInv, QP!TypeOK, QP!Contents
<1>2. Taken \in Nat
  <2>1. Len(accepted) \in Nat
    BY <1>1
  <2> QED
    BY <2>1 DEF Taken
<1>3. options.frame_count \in Nat /\ frame_id \in 0 .. options.frame_count
  BY SenderAssumption DEF SessionParts, SenderOK
<1>4. sent \in 0 .. FrameParts /\ FrameParts \in Nat \ {0}
  BY StreamAssumption DEF SessionParts, SenderOK
<1>5. got \in Seq(Units) /\ wire \in Seq(Units)
  BY DEF SessionParts, StreamOK
<1>6. Base(Taken) \in Nat /\ Base(Taken + 1) = Base(Taken) + FrameParts
  BY <1>2, BaseNext
<1>7. frame_id \in Nat /\ frame_id <= options.frame_count
  BY <1>3
<1>8. Base(frame_id) \in Nat /\ Base(frame_id + 1) = Base(frame_id) + FrameParts
  BY <1>7, BaseNext
<1> QED
  BY <1>1, <1>2, <1>3, <1>4, <1>5, <1>6, <1>7, <1>8

LEMMA SendPartStep ==
  ASSUME SessionParts, RInv, SendPart, UNCHANGED <<startup, vars>>
  PROVE  SessionParts'
<1> USE DEF SessionParts
<1>0. /\ frame_id \in Nat /\ options.frame_count \in Nat
      /\ sent \in 0 .. FrameParts /\ FrameParts \in Nat \ {0}
      /\ Taken \in Nat /\ Base(Taken) \in Nat /\ Base(frame_id) \in Nat
      /\ Base(Taken + 1) = Base(Taken) + FrameParts
      /\ Base(frame_id + 1) = Base(frame_id) + FrameParts
      /\ Len(wire) \in Nat /\ Len(got) \in Nat
  BY Facts
<1>1. PICK n \in 1 .. FrameParts : SendSome(frame_id + 1, n)
  BY DEF SendPart
<1>2. /\ UNCHANGED <<options, sender_exit, frame_id>>
      /\ sender_pc = "send"
      /\ sender_pc' = IF sent' = FrameParts THEN "save" ELSE "send"
  BY DEF SendPart
<1>3. UNCHANGED <<link, got, garbled>> /\ link # "none"
  BY <1>1 DEF SendSome
<1>4. n <= FrameParts - sent /\ sent' = sent + n
  BY <1>0, <1>1 DEF SendSome
<1>5. UNCHANGED <<accepted, main_pc, slots, producer_index, exit_code>>
  BY DEF vars, main_vars, shared_vars
<1>6. sent < FrameParts /\ frame_id < options.frame_count
  BY <1>0, <1>2 DEF SenderOK
<1>7. SenderOK'
  BY <1>0, <1>2, <1>4, <1>6 DEF SenderOK, SenderPcs
<1>8. CheckedOK'
  <2>1. \A k : Refused(Kind(k))' = Refused(Kind(k))
    BY <1>2 DEF Refused, Kind
  <2> QED
    BY <1>2, <2>1 DEF CheckedOK
<1>9. \A i \in 1 .. FrameParts : Unit(frame_id + 1, i) \in Units /\ Unit(frame_id + 1, i) # Garbage
  <2>1. frame_id + 1 \in 1 .. options.frame_count
    BY <1>0, <1>6
  <2>2. frame_id + 1 \in Frames
    BY <2>1, SessionAssumption DEF SenderOK
  <2> QED
    BY <2>1, <2>2 DEF Unit, Units, Garbage
<1>10. link = "open" =>
         /\ wire' \in Seq(Units)
         /\ Len(wire') = Len(wire) + n /\ Len(wire') <= StreamSpace
         /\ \A i \in 1 .. Len(wire) : wire'[i] = wire[i]
         /\ \A i \in Len(wire) + 1 .. Len(wire) + n :
              wire'[i] = Unit(frame_id + 1, sent + (i - Len(wire)))
  BY <1>1, <1>9, Facts, SendSomeMoves
<1>11. link # "open" => UNCHANGED wire /\ (~Lossless \/ sender_pc = "exited")
  BY <1>1, <1>3 DEF SendSome, Lossless, StreamOK
<1>13. UNCHANGED <<Taken, InLoop, Lossless, Base(Taken), Base(Taken + 1), Base(frame_id)>>
  BY <1>2, <1>3, <1>5 DEF Taken, InLoop, Lossless, Base
<1>14. StreamOK'
  <2>1. CASE link = "open"
    <3>1. ~garbled => \A i \in 1 .. Len(wire') : wire'[i] # Garbage
      <4> SUFFICES ASSUME ~garbled, NEW i \in 1 .. Len(wire') PROVE wire'[i] # Garbage
        OBVIOUS
      <4>1. CASE i \in 1 .. Len(wire)
        BY <1>10, <2>1, <4>1 DEF StreamOK
      <4>2. CASE i \in Len(wire) + 1 .. Len(wire) + n
        <5>1. sent + (i - Len(wire)) \in 1 .. FrameParts
          BY <1>0, <1>4, <4>2
        <5> QED
          BY <1>9, <1>10, <2>1, <4>2, <5>1
      <4> QED
        BY <1>0, <1>10, <2>1, <4>1, <4>2
    <3> QED
      BY <1>2, <1>3, <1>10, <2>1, <3>1 DEF StreamOK
  <2>2. CASE link # "open"
    BY <1>2, <1>3, <1>11, <2>2 DEF StreamOK
  <2> QED
    BY <2>1, <2>2
<1>15. PositionOK'
  <2> SUFFICES ASSUME InLoop PROVE PositionOK'
    BY <1>13 DEF PositionOK
  <2>1. CASE link = "open"
    <3>1. Base(Taken) + Len(got) + Len(wire) = Base(frame_id) + sent
      BY <2>1 DEF PositionOK, Lossless
    <3>a. PICK a \in Nat, b \in Nat, g \in Nat, w \in Nat, s \in Nat :
            a = Base(frame_id) /\ b = Base(Taken) /\ g = Len(got) /\ w = Len(wire) /\ s = sent
      BY <1>0
    <3>b. b + g + w = a + s
      BY <3>a, <3>1
    <3>2. \A i \in Len(wire) + 1 .. Len(wire) + n :
            IsAt(wire'[i], Base(Taken + 1) + Len(got) + i)
      <4> SUFFICES ASSUME NEW i \in Len(wire) + 1 .. Len(wire) + n
                   PROVE  IsAt(wire'[i], Base(Taken + 1) + Len(got) + i)
        OBVIOUS
      <4>1. wire'[i] = Unit(frame_id + 1, sent + (i - Len(wire)))
        BY <1>10, <2>1
      <4>2. sent + (i - Len(wire)) \in 1 .. FrameParts /\ frame_id + 1 \in Nat
        BY <1>0, <1>4
      <4>3. Base(frame_id + 1) + (sent + (i - Len(wire))) = Base(Taken + 1) + Len(got) + i
        <5>1. (a + FrameParts) + (s + (i - w)) = (b + FrameParts) + g + i
          BY <1>0, <3>b
        <5> QED
          BY <1>0, <3>a, <5>1
      <4> QED
        BY <4>1, <4>2, <4>3 DEF IsAt
    <3>3. \A i \in 1 .. Len(wire) : IsAt(wire'[i], Base(Taken + 1) + Len(got) + i)
      BY <1>10, <2>1 DEF PositionOK
    <3>4. \A i \in 1 .. Len(wire') : IsAt(wire'[i], Base(Taken + 1) + Len(got) + i)
      <4>1. Len(wire') = Len(wire) + n
        BY <1>10, <2>1
      <4>2. \A i \in 1 .. Len(wire') : i \in 1 .. Len(wire) \/ i \in Len(wire) + 1 .. Len(wire) + n
        BY <1>0, <4>1
      <4> QED
        BY <3>2, <3>3, <4>2
    <3>5. Base(Taken) + Len(got) + Len(wire') = Base(frame_id) + sent'
      <4>1. b + g + (w + n) = a + (s + n)
        BY <3>b
      <4> QED
        BY <1>4, <1>10, <2>1, <3>a, <4>1
    <3>6. Base(Taken) + Len(got) + Len(wire') <= Base(frame_id) + sent'
      BY <1>0, <1>4, <3>5
    <3>7. \A i \in 1 .. Len(got) : IsAt(got[i], Base(Taken + 1) + i)
      BY DEF PositionOK
    <3> QED
      BY <1>3, <1>13, <3>4, <3>5, <3>6, <3>7 DEF PositionOK, IsAt, Base
  <2>2. CASE link # "open"
    <3>1. Base(Taken) + Len(got) + Len(wire) <= Base(frame_id) + sent'
      <4>1. Base(Taken) + Len(got) + Len(wire) <= Base(frame_id) + sent
        BY DEF PositionOK
      <4> QED
        BY <1>0, <1>4, <4>1
    <3> QED
      BY <1>2, <1>3, <1>11, <1>13, <2>2, <3>1 DEF PositionOK, IsAt, Base
  <2> QED
    BY <2>1, <2>2
<1>16. DeliveredOK'
  <2>1. Transmitted <= Transmitted' /\ Transmitted \in Nat /\ Transmitted' \in Nat
    BY <1>0, <1>2, <1>6 DEF Transmitted
  <2> QED
    BY <1>0, <1>5, <1>13, <2>1 DEF DeliveredOK
<1>17. ExplainedOK'
  BY <1>2, <1>3, <1>5 DEF ExplainedOK, RefusalsExplained
<1> QED
  BY <1>7, <1>8, <1>14, <1>15, <1>16, <1>17
LEMMA SenderActsStep ==
  ASSUME SessionParts, RInv, SenderActs \/ SenderIsKilled
  PROVE  SessionParts'
<1>1. UNCHANGED <<startup, vars>>
  BY DEF SenderActs, SenderIsKilled
<1>2. Quiet \/ SendPart \/ (Save /\ sender_pc' # "exited")
  BY DEF SenderActs, SenderIsKilled, SenderStep, Quiet
<1> QED
  BY <1>1, <1>2, QuietStep, SendPartStep, SaveStep

-----------------------------------------------------------------------------
(* The receiver's steps, and the network's.                                *)

\* A step that leaves the sender and the buffers alone and takes no frame.
LEMMA FrameKept ==
  ASSUME SessionParts,
         UNCHANGED <<sender_vars, wire, sent, got, garbled>>,
         startup' \in {"start", "listen", "accept", "running", "failed"},
         link' = link \/ (link = "open" /\ link' = "closed"),
         UNCHANGED accepted, Taken' = Taken, InLoop' => InLoop,
         main_pc' = "publish" =>
           main_pc = "publish" /\ UNCHANGED <<slots, producer_index>>,
         exit_code' = exit_code \/ exit_code' \notin {3, 4, 5}
  PROVE  SessionParts'
<1> USE DEF SessionParts, sender_vars
<1>1. SenderOK'
  BY DEF SenderOK
<1>2. CheckedOK'
  BY DEF CheckedOK, Refused, Kind
<1>3. StreamOK'
  BY DEF StreamOK, Links
<1>4. PositionOK'
  <2>1. UNCHANGED <<Base(Taken), Base(Taken + 1), Base(frame_id)>>
    BY DEF Base
  <2>2. Lossless' => Lossless
    BY DEF Lossless
  <2> QED
    BY <2>1, <2>2 DEF PositionOK, IsAt, Base
<1>5. DeliveredOK'
  BY DEF DeliveredOK, Transmitted
<1>6. ExplainedOK'
  BY DEF ExplainedOK, RefusalsExplained
<1> QED
  BY <1>1, <1>2, <1>3, <1>4, <1>5, <1>6

LEMMA StartupStep ==
  ASSUME SessionParts, StartReceiver \/ Listen \/ Accept
  PROVE  SessionParts'
<1>1. UNCHANGED <<sender_vars, wire, sent, got, garbled, vars>>
  BY DEF StartReceiver, Listen, Accept, stream_vars
<1>2. UNCHANGED <<accepted, main_pc, slots, producer_index, exit_code>>
  BY <1>1 DEF vars, main_vars, shared_vars
<1>3. startup' \in {"start", "listen", "accept", "running", "failed"}
  BY DEF StartReceiver, Listen, Accept
<1>4. link' = link \/ (link = "open" /\ link' = "closed")
  BY DEF StartReceiver, Listen, Accept, stream_vars, ReceiverCloses
<1>5. Taken' = Taken /\ InLoop' = InLoop
  BY <1>2 DEF Taken, InLoop
<1> QED
  BY <1>1, <1>2, <1>3, <1>4, <1>5, FrameKept

LEMMA WorkerStep ==
  ASSUME SessionParts, WorkerActs \/ WorkerWakes
  PROVE  SessionParts'
<1>1. UNCHANGED <<startup, sender_vars, link, wire, sent, got, garbled>>
  BY DEF WorkerActs, WorkerWakes, stream_vars
<1>2. Drain \/ SpuriousWakeup
  BY DEF WorkerActs, WorkerWakes
<1>3. UNCHANGED <<accepted, main_pc, exit_code>>
  BY <1>2, WorkerLeavesMain DEF main_vars
<1>4. UNCHANGED <<slots, producer_index>>
  BY <1>2 DEF Drain, Poll, WriteFrame, Release, ReleaseFailed, Flush, Fail, CheckDone,
     FinalFlush, WaitDone, WaitEmpty, Block, SpuriousWakeup, shared_vars
<1>5. Taken' = Taken /\ InLoop' = InLoop
  BY <1>3 DEF Taken, InLoop
<1>6. startup' \in {"start", "listen", "accept", "running", "failed"}
  BY <1>1 DEF SessionParts, SenderOK
<1> QED
  BY <1>1, <1>3, <1>4, <1>5, <1>6, FrameKept

LEMMA ReceiverActsStep ==
  ASSUME SessionParts, RInv, ReceiverActs, ~Publish
  PROVE  SessionParts'
<1>1. UNCHANGED <<startup, sender_vars, wire, sent, got, garbled>>
  BY DEF ReceiverActs
<1>2. link' = link \/ (link = "open" /\ link' = "closed")
  BY DEF ReceiverActs, ReceiverCloses
<1>3. startup' \in {"start", "listen", "accept", "running", "failed"}
  BY <1>1 DEF SessionParts, SenderOK
<1>4. /\ UNCHANGED accepted
      /\ main_pc # "publish" /\ main_pc' # "publish"
      /\ InLoop' => InLoop
  BY DEF ReceiverActs, Acquire, CheckWriter, CheckSpace, BeginReceive, RecordDepth,
     NotifyOne, SetDone, NotifyAll, Join, InLoop
<1>5. exit_code' = exit_code \/ exit_code' \notin {3, 4, 5}
  BY DEF ReceiverActs, Acquire, CheckWriter, CheckSpace, BeginReceive, RecordDepth,
     NotifyOne, SetDone, NotifyAll, Join, ExitStatus
<1>6. Taken' = Taken
  BY <1>4 DEF Taken
<1> QED
  BY <1>1, <1>2, <1>3, <1>4, <1>5, <1>6, FrameKept

LEMMA PublishStep ==
  ASSUME SessionParts, RInv, ReceiverActs, Publish
  PROVE  SessionParts'
<1> USE DEF SessionParts
<1>1. /\ UNCHANGED <<startup, sender_vars, link, wire, sent, got, garbled, exit_code>>
      /\ main_pc = "publish" /\ main_pc' = "depth"
      /\ accepted' = Append(accepted, slots[producer_index])
  BY DEF ReceiverActs, Publish, Q!producer_slot
<1>2. slots[producer_index] = Len(accepted) + 1
  BY <1>1 DEF DeliveredOK, Taken
<1>3. /\ accepted' \in Seq(Frames \union {Torn})
      /\ Len(accepted') = Len(accepted) + 1
      /\ \A k \in 1 .. Len(accepted) : accepted'[k] = accepted[k]
      /\ accepted'[Len(accepted) + 1] = Len(accepted) + 1
      /\ Len(accepted) \in Nat
  <2>1. slots[producer_index] \in Frames \union {Torn} /\ accepted \in Seq(Frames \union {Torn})
    BY Facts
  <2> QED
    BY <1>1, <1>2, <2>1, AppendProperties
<1>4. Taken' = Taken /\ InLoop' /\ InLoop
  BY <1>1, <1>3 DEF Taken, InLoop
<1>5. SenderOK' /\ CheckedOK' /\ StreamOK'
  BY <1>1 DEF SenderOK, CheckedOK, StreamOK, Refused, Kind, sender_vars
<1>6. PositionOK'
  <2>1. UNCHANGED <<Base(Taken), Base(Taken + 1), Base(frame_id), Lossless>>
    BY <1>1, <1>4 DEF Base, Lossless, sender_vars
  <2> QED
    BY <1>1, <1>4, <2>1 DEF PositionOK, IsAt, Base, sender_vars
<1>7. DeliveredOK'
  <2>1. \A k \in 1 .. Len(accepted') : accepted'[k] = k
    BY <1>3 DEF DeliveredOK
  <2> QED
    BY <1>1, <1>4, <2>1 DEF DeliveredOK, Transmitted, sender_vars
<1>8. ExplainedOK'
  BY <1>1 DEF ExplainedOK, RefusalsExplained, sender_vars
<1> QED
  BY <1>5, <1>6, <1>7, <1>8
LEMMA ReceiveStep ==
  ASSUME SessionParts, RInv, Receive
  PROVE  SessionParts'
<1> USE DEF SessionParts
<1>1. PICK n \in 1 .. FrameParts : RecvSome(n)
  BY DEF Receive
<1>2. UNCHANGED <<startup, sender_vars, link, sent, garbled>>
  BY <1>1 DEF Receive, RecvSome
<1>3. UNCHANGED <<accepted, main_pc, slots, producer_index, exit_code>>
  BY DEF Receive, vars, main_vars, shared_vars
<1>4. /\ got' \in Seq(Units) /\ wire' \in Seq(Units)
      /\ n <= Len(wire) /\ n <= FrameParts - Len(got)
      /\ Len(got') = Len(got) + n /\ Len(wire') = Len(wire) - n
      /\ \A i \in 1 .. Len(got') :
           got'[i] = IF i <= Len(got) THEN got[i] ELSE wire[i - Len(got)]
      /\ \A i \in 1 .. Len(wire') : wire'[i] = wire[i + n]
  BY <1>1, Facts, RecvSomeMoves
<1>5. /\ Len(got) \in Nat /\ Len(wire) \in Nat /\ FrameParts \in Nat /\ StreamSpace \in Nat
      /\ Base(Taken) \in Nat /\ Base(Taken + 1) \in Nat /\ Base(frame_id) \in Nat
      /\ sent \in Nat
  BY Facts, StreamAssumption
<1>6. UNCHANGED <<Taken, InLoop, Lossless, Base(Taken), Base(Taken + 1), Base(frame_id)>>
  BY <1>2, <1>3 DEF Taken, InLoop, Lossless, Base, sender_vars
<1>7. SenderOK' /\ CheckedOK'
  BY <1>2 DEF SenderOK, CheckedOK, Refused, Kind, sender_vars
<1>8. \A i \in 1 .. Len(got') : \/ i \in 1 .. Len(got) /\ got'[i] = got[i]
                                \/ /\ i - Len(got) \in 1 .. Len(wire)
                                   /\ got'[i] = wire[i - Len(got)]
  <2> TAKE i \in 1 .. Len(got')
  <2>1. CASE i <= Len(got)
    BY <1>4, <1>5, <2>1
  <2>2. CASE ~(i <= Len(got))
    <3>1. i - Len(got) \in 1 .. Len(wire)
      BY <1>4, <1>5, <2>2
    <3> QED
      BY <1>4, <2>2, <3>1
  <2> QED
    BY <2>1, <2>2
<1>9. \A i \in 1 .. Len(wire') : i + n \in 1 .. Len(wire) /\ wire'[i] = wire[i + n]
  BY <1>4, <1>5
<1>10. StreamOK'
  <2>1. Len(wire') <= StreamSpace /\ Len(got') <= FrameParts
    BY <1>4, <1>5 DEF StreamOK
  <2>2. ~garbled => /\ \A i \in 1 .. Len(wire') : wire'[i] # Garbage
                    /\ \A i \in 1 .. Len(got') : got'[i] # Garbage
    BY <1>8, <1>9 DEF StreamOK
  <2> QED
    BY <1>2, <1>4, <2>1, <2>2 DEF StreamOK, sender_vars
<1>11. PositionOK'
  <2>0. InLoop
    BY DEF Receive, InLoop
  <2>1. PICK a \in Nat, b \in Nat, c \in Nat, g \in Nat, w \in Nat, s \in Nat :
          /\ a = Base(frame_id) /\ b = Base(Taken) /\ c = Base(Taken + 1)
          /\ g = Len(got) /\ w = Len(wire) /\ s = sent
    BY <1>5
  <2>2. b + (g + n) + (w - n) = b + g + w
    OBVIOUS
  <2>3. Base(Taken) + Len(got') + Len(wire') = Base(Taken) + Len(got) + Len(wire)
    BY <1>4, <2>1, <2>2
  <2>4. \A i \in 1 .. Len(got') : IsAt(got'[i], Base(Taken + 1) + i)
    <3> SUFFICES ASSUME NEW i \in 1 .. Len(got') PROVE IsAt(got'[i], Base(Taken + 1) + i)
      OBVIOUS
    <3>1. CASE i \in 1 .. Len(got) /\ got'[i] = got[i]
      BY <2>0, <3>1 DEF PositionOK
    <3>2. CASE i - Len(got) \in 1 .. Len(wire) /\ got'[i] = wire[i - Len(got)]
      <4>1. IsAt(got'[i], Base(Taken + 1) + Len(got) + (i - Len(got)))
        BY <2>0, <3>2 DEF PositionOK
      <4>2. c + g + (i - g) = c + i
        OBVIOUS
      <4> QED
        BY <2>1, <4>1, <4>2
    <3> QED
      BY <1>8, <3>1, <3>2
  <2>5. \A i \in 1 .. Len(wire') : IsAt(wire'[i], Base(Taken + 1) + Len(got') + i)
    <3> SUFFICES ASSUME NEW i \in 1 .. Len(wire')
                 PROVE  IsAt(wire'[i], Base(Taken + 1) + Len(got') + i)
      OBVIOUS
    <3>1. IsAt(wire'[i], Base(Taken + 1) + Len(got) + (i + n))
      BY <1>9, <2>0 DEF PositionOK
    <3>2. c + g + (i + n) = c + (g + n) + i
      OBVIOUS
    <3> QED
      BY <1>4, <2>1, <3>1, <3>2
  <2> QED
    BY <1>2, <1>6, <2>0, <2>3, <2>4, <2>5 DEF PositionOK, IsAt, Base
<1>12. DeliveredOK'
  BY <1>2, <1>3, <1>6 DEF DeliveredOK, Transmitted, sender_vars
<1>13. ExplainedOK'
  BY <1>2, <1>3 DEF ExplainedOK, RefusalsExplained, sender_vars
<1> QED
  BY <1>7, <1>10, <1>11, <1>12, <1>13

LEMMA ReceiveEndsStep ==
  ASSUME SessionParts, RInv, ReceiveEnds
  PROVE  SessionParts'
<1> USE DEF SessionParts
<1>1. /\ UNCHANGED <<startup, sender_vars, link, wire, sent, got, garbled, accepted>>
      /\ main_pc = "receiving" /\ main_pc' = "shutdown" /\ exit_code' = 3
      /\ ~Complete /\ wire = << >> /\ link \in {"finished", "cut"}
  BY DEF ReceiveEnds, RecvEnds, RejectFrame, stream_vars
<1>2. SenderOK' /\ CheckedOK' /\ StreamOK'
  BY <1>1 DEF SenderOK, CheckedOK, StreamOK, Refused, Kind, sender_vars
<1>3. PositionOK'
  BY <1>1 DEF PositionOK, InLoop
<1>4. Taken = Len(accepted) /\ Taken' = Taken
  BY <1>1, Facts DEF Taken
<1>5. DeliveredOK'
  BY <1>1, <1>4 DEF DeliveredOK, Transmitted, sender_vars
<1>6. link = "finished" => sender_exit # 0 \/ options.frame_count < ExpectedFrames
  <2> SUFFICES ASSUME link = "finished", sender_exit = 0
               PROVE  options.frame_count < ExpectedFrames
    OBVIOUS
  <2>1. frame_id = options.frame_count /\ sent = 0
    BY DEF StreamOK, SenderOK
  <2>2. Base(Taken) + Len(got) + Len(wire) = Base(frame_id) + sent
    BY <1>1 DEF PositionOK, InLoop, Lossless
  <2>3. Len(got) \in Nat /\ Len(got) < FrameParts /\ Len(wire) = 0
    BY <1>1, Facts DEF Complete, StreamOK
  <2>4. Base(Taken) + Len(got) = Base(frame_id)
    BY <2>1, <2>2, <2>3, Facts
  <2>5. ~(Taken < frame_id)
    BY <2>3, <2>4, Facts, BaseOrder
  <2>6. ~(frame_id < Taken)
    BY <2>3, <2>4, Facts, BaseOrder
  <2>7. Taken < ExpectedFrames
    BY <1>1, <1>4 DEF RInv, MainOK, InBody
  <2> QED
    BY <2>1, <2>5, <2>6, <2>7, Facts
<1>7. ExplainedOK'
  BY <1>1, <1>6 DEF ExplainedOK, RefusalsExplained, sender_vars
<1> QED
  BY <1>2, <1>3, <1>5, <1>7

LEMMA NetworkStep ==
  ASSUME SessionParts, RInv, NetworkActs
  PROVE  SessionParts'
<1> USE DEF SessionParts
<1>1. UNCHANGED <<startup, sender_vars, sent, got>>
  BY DEF NetworkActs, Network, Break, Garble
<1>2. UNCHANGED <<accepted, main_pc, slots, producer_index, exit_code>>
  BY DEF NetworkActs, vars, main_vars, shared_vars
<1>3. UNCHANGED <<Taken, InLoop, Base(Taken), Base(Taken + 1), Base(frame_id)>>
  BY <1>1, <1>2 DEF Taken, InLoop, Base, sender_vars
<1>4. SenderOK' /\ CheckedOK'
  BY <1>1 DEF SenderOK, CheckedOK, Refused, Kind, sender_vars
<1>5. DeliveredOK'
  BY <1>1, <1>2, <1>3 DEF DeliveredOK, Transmitted, sender_vars
<1>6. CASE Break
  <2>1. PICK n \in 0 .. Len(wire) : wire' = SubSeq(wire, 1, n)
    BY <1>6 DEF Break
  <2>2. /\ UNCHANGED garbled
        /\ link \in {"open", "finished"} /\ link' \in {"cut", "silent"}
    BY <1>6 DEF Break
  <2>3. /\ wire' \in Seq(Units) /\ Len(wire') = n /\ n <= Len(wire)
        /\ \A i \in 1 .. n : wire'[i] = wire[i] /\ i \in 1 .. Len(wire)
    BY <2>1, Facts, SubSeqProperties
  <2>4. StreamOK'
    <3>1. sender_pc \notin {"start", "connect"}
      BY <2>2 DEF StreamOK
    <3>2. Len(wire') <= StreamSpace
      BY <2>3, Facts, StreamAssumption DEF StreamOK
    <3>3. ~garbled => \A i \in 1 .. Len(wire') : wire'[i] # Garbage
      BY <2>3 DEF StreamOK
    <3> QED
      BY <1>1, <2>2, <2>3, <3>1, <3>2, <3>3 DEF StreamOK, Links, sender_vars
  <2>5. PositionOK'
    <3> SUFFICES ASSUME InLoop PROVE PositionOK'
      BY <1>3 DEF PositionOK
    <3>1. Base(Taken) + Len(got) + Len(wire') <= Base(frame_id) + sent
      <4>1. Base(Taken) + Len(got) + Len(wire) <= Base(frame_id) + sent
        BY DEF PositionOK
      <4> QED
        BY <2>3, <4>1, Facts
    <3>2. \A i \in 1 .. Len(wire') : IsAt(wire'[i], Base(Taken + 1) + Len(got) + i)
      BY <2>3 DEF PositionOK
    <3>3. ~Lossless'
      BY <2>2 DEF Lossless
    <3> QED
      BY <1>1, <1>3, <3>1, <3>2, <3>3 DEF PositionOK, IsAt, Base
  <2>6. ExplainedOK'
    BY <1>1, <1>2, <2>2 DEF ExplainedOK, RefusalsExplained, sender_vars
  <2> QED
    BY <1>4, <1>5, <2>4, <2>5, <2>6
<1>7. CASE Garble
  <2>1. PICK i \in 1 .. Len(wire) : wire' = [wire EXCEPT ![i] = Garbage]
    BY <1>7 DEF Garble
  <2>2. UNCHANGED link /\ garbled'
    BY <1>7 DEF Garble
  <2>3. /\ wire' \in Seq(Units) /\ Len(wire') = Len(wire)
        /\ \A j \in 1 .. Len(wire) : wire'[j] = wire[j] \/ wire'[j] = Garbage
    BY <2>1, Facts DEF Units
  <2>4. StreamOK'
    BY <1>1, <2>2, <2>3 DEF StreamOK, sender_vars
  <2>5. PositionOK'
    <3>1. \A j \in 1 .. Len(wire') : InLoop => IsAt(wire'[j], Base(Taken + 1) + Len(got) + j)
      BY <2>3 DEF PositionOK, IsAt
    <3>2. Lossless' = Lossless
      BY <2>2 DEF Lossless
    <3> QED
      BY <1>1, <1>3, <2>3, <3>1, <3>2 DEF PositionOK, IsAt, Base
  <2>6. ExplainedOK'
    BY <1>1, <1>2, <2>2 DEF ExplainedOK, RefusalsExplained, sender_vars
  <2> QED
    BY <1>4, <1>5, <2>4, <2>5, <2>6
<1> QED
  BY <1>6, <1>7 DEF NetworkActs, Network
\* A complete buffer holds the next frame, each of its units in its place
\* unless it was damaged; the sender has sent that frame whole, and checked it.
LEMMA BufferIsNext ==
  ASSUME SessionParts, RInv, main_pc = "receiving", Complete
  PROVE  /\ \A i \in 1 .. FrameParts : got[i] = Garbage \/ got[i] = Unit(Taken + 1, i)
         /\ Taken + 1 <= Transmitted
         /\ Taken + 1 \in Frames
         /\ ~Refused(Kind(Taken + 1))
<1> USE DEF SessionParts
<1>0. InLoop /\ Len(got) = FrameParts /\ Taken + 1 \in Nat
  BY Facts DEF InLoop, Complete
<1>1. ASSUME NEW i \in 1 .. FrameParts, got[i] # Garbage
      PROVE  got[i] = Unit(Taken + 1, i)
  <2>1. IsAt(got[i], Base(Taken + 1) + i)
    BY <1>0 DEF PositionOK
  <2>2. PICK f \in Nat, p \in 1 .. FrameParts :
          got[i] = Unit(f, p) /\ Base(f) + p = Base(Taken + 1) + i
    BY <1>1, <2>1 DEF IsAt
  <2>3. f = Taken + 1 /\ p = i
    BY <1>0, <2>2, BaseUnique
  <2> QED
    BY <2>2, <2>3
<1>2. Base(Taken + 1) <= Base(frame_id) + sent
  <2>1. Base(Taken) + Len(got) + Len(wire) <= Base(frame_id) + sent
    BY <1>0 DEF PositionOK
  <2>2. PICK b \in Nat, w \in Nat, e \in Nat :
          b = Base(Taken) /\ w = Len(wire) /\ e = Base(frame_id) + sent
    BY Facts
  <2>3. b + FrameParts + w <= e
    BY <1>0, <2>1, <2>2
  <2>4. b + FrameParts <= e
    BY <2>3, Facts
  <2> QED
    BY <2>2, <2>4, Facts
<1>3. Taken + 1 <= Transmitted
  BY <1>0, <1>2, Facts, BaseReached DEF Transmitted
<1>4. \/ Taken + 1 <= frame_id
      \/ Taken + 1 = frame_id + 1 /\ sent > 0
  <2>1. Transmitted = frame_id \/ (Transmitted = frame_id + 1 /\ sent > 0)
    BY Facts DEF Transmitted
  <2> QED
    BY <1>0, <1>3, <2>1, Facts
<1>5. Taken + 1 \in 1 .. options.frame_count
  <2>1. sent > 0 => frame_id < options.frame_count
    BY DEF SenderOK
  <2> QED
    BY <1>0, <1>4, <2>1, Facts
<1>6. Taken + 1 \in Frames
  BY <1>5, SessionAssumption DEF SenderOK
<1>7. ~Refused(Kind(Taken + 1))
  <2>1. CASE Taken + 1 <= frame_id
    <3>1. Taken + 1 \in 1 .. frame_id
      BY <1>5, <2>1, Facts
    <3> QED
      BY <3>1 DEF CheckedOK
  <2>2. CASE Taken + 1 = frame_id + 1 /\ sent > 0
    <3>1. ~Refused(Kind(frame_id + 1))
      BY <2>2 DEF CheckedOK
    <3> QED
      BY <2>2, <3>1
  <2> QED
    BY <1>4, <2>1, <2>2
<1> QED
  BY <1>1, <1>3, <1>6, <1>7

LEMMA ClassifyStep ==
  ASSUME SessionParts, RInv, ClassifyFrame
  PROVE  SessionParts'
<1> USE DEF SessionParts
<1>1. /\ UNCHANGED <<startup, sender_vars, link, wire, sent, garbled, accepted>>
      /\ main_pc = "receiving" /\ Complete /\ got' = << >>
  BY DEF ClassifyFrame, ReceiveFrame, RejectFrame
<1>2. /\ \A i \in 1 .. FrameParts : got[i] = Garbage \/ got[i] = Unit(Taken + 1, i)
      /\ Taken + 1 <= Transmitted
      /\ Taken + 1 \in Frames
      /\ ~Refused(Kind(Taken + 1))
  BY <1>1, BufferIsNext
<1>3. Taken = Len(accepted) /\ Len(got) = FrameParts
  BY <1>1, Facts DEF Taken, Complete
<1>4. Content \in Frames => Content = Taken + 1 /\ Header = Taken + 1
  <2> SUFFICES ASSUME Content \in Frames PROVE Content = Taken + 1 /\ Header = Taken + 1
    OBVIOUS
  <2>1. Content = Header /\ got = [p \in 1 .. FrameParts |-> Unit(Header, p)]
    BY ReceiverAssumption DEF Content
  <2>2. 1 \in 1 .. FrameParts
    BY StreamAssumption
  <2>3. got[1] = Unit(Header, 1)
    BY <2>1, <2>2
  <2>4. got[1] # Garbage
    BY <2>3 DEF Unit, Garbage
  <2>5. got[1] = Unit(Taken + 1, 1)
    BY <1>2, <2>2, <2>4
  <2>6. Header = Taken + 1
    BY <2>5 DEF Header, Unit
  <2> QED
    BY <2>1, <2>6
<1>5. ~garbled => Content = Taken + 1 /\ Header = Taken + 1
  <2> SUFFICES ASSUME ~garbled PROVE Content = Taken + 1 /\ Header = Taken + 1
    OBVIOUS
  <2>1. \A i \in 1 .. FrameParts : got[i] = Unit(Taken + 1, i)
    BY <1>2, <1>3 DEF StreamOK
  <2>2. 1 \in 1 .. FrameParts
    BY StreamAssumption
  <2>3. Header = Taken + 1
    BY <2>1, <2>2 DEF Header, Unit
  <2>4. DOMAIN got = 1 .. FrameParts /\ got = [p \in DOMAIN got |-> got[p]]
    BY <1>3, Facts
  <2>5. got = [p \in 1 .. FrameParts |-> Unit(Header, p)]
    BY <2>1, <2>3, <2>4
  <2> QED
    BY <2>3, <2>5 DEF Content
<1>6. SenderOK' /\ CheckedOK'
  BY <1>1 DEF SenderOK, CheckedOK, Refused, Kind, sender_vars
<1>7. StreamOK'
  BY <1>1, StreamAssumption DEF StreamOK, sender_vars
<1>8. ASSUME NEW code \in {4, 5}, RejectFrame(code),
             code = 4 => garbled,
             code = 5 => ~options.agrees \/ (options.source # Simulated /\ ~options.module_given)
      PROVE  PositionOK' /\ DeliveredOK' /\ ExplainedOK'
  <2>1. main_pc' = "shutdown" /\ exit_code' = code
    BY <1>8 DEF RejectFrame
  <2>2. PositionOK'
    BY <2>1 DEF PositionOK, InLoop
  <2>3. DeliveredOK'
    BY <1>1, <1>3, <2>1, Facts DEF DeliveredOK, Taken, Transmitted, sender_vars
  <2>4. ExplainedOK'
    BY <1>1, <1>8, <2>1 DEF ExplainedOK, RefusalsExplained, sender_vars
  <2> QED
    BY <2>2, <2>3, <2>4
<1>9. CASE ~Parses /\ RejectFrame(4)
  <2>1. garbled
    <3> SUFFICES ASSUME ~garbled PROVE Parses
      BY <1>9
    <3> QED
      BY <1>2, <1>5 DEF Parses, Refused
  <2> QED
    BY <1>6, <1>7, <1>8, <1>9, <2>1
<1>10. CASE Parses /\ ~Matches /\ RejectFrame(5)
  <2>1. ~options.agrees \/ (options.source # Simulated /\ ~options.module_given)
    <3>1. Header = Taken + 1
      BY <1>4, <1>10 DEF Parses
    <3> QED
      BY <1>2, <1>10, <3>1 DEF Matches, Refused, Kind
  <2> QED
    BY <1>6, <1>7, <1>8, <1>10, <2>1
<1>11. CASE Parses /\ Matches /\ ReceiveFrame(Content)
  <2>1. /\ main_pc' = "publish" /\ UNCHANGED <<producer_index, exit_code>>
        /\ slots' = [slots EXCEPT ![producer_index] = Content]
    BY <1>11 DEF ReceiveFrame, Q!producer_slot
  <2>2. Taken' = Taken + 1
    BY <1>1, <1>3, <2>1, Facts DEF Taken
  <2>3. slots'[producer_index'] = Taken'
    BY <1>4, <1>11, <2>1, <2>2, Facts DEF Parses
  <2>4. PositionOK'
    <3>1. InLoop
      BY <1>1 DEF InLoop
    <3>2. /\ Taken + 1 \in Nat
          /\ Base(Taken + 1) = Base(Taken) + FrameParts
          /\ Base(Taken + 2) = Base(Taken + 1) + FrameParts
          /\ Base(Taken + 1) \in Nat
      <4>1. Taken + 1 \in Nat /\ (Taken + 1) + 1 = Taken + 2
        BY Facts
      <4>2. Base((Taken + 1) + 1) = Base(Taken + 1) + FrameParts /\ Base(Taken + 1) \in Nat
        BY <4>1, BaseNext
      <4> QED
        BY <4>1, <4>2, Facts
    <3>3. Base(Taken + 1) + 0 + Len(wire) = Base(Taken) + Len(got) + Len(wire)
      BY <1>3, <3>2, Facts
    <3>4. \A i \in 1 .. Len(wire) : IsAt(wire[i], Base(Taken + 2) + 0 + i)
      <4> TAKE i \in 1 .. Len(wire)
      <4>1. IsAt(wire[i], Base(Taken + 1) + Len(got) + i)
        BY <3>1 DEF PositionOK
      <4>2. Base(Taken + 2) + 0 + i = Base(Taken + 1) + Len(got) + i
        BY <1>3, <3>2, Facts
      <4> QED
        BY <4>1, <4>2
    <3>5. Len(got') = 0
      BY <1>1
    <3>6. Taken' + 1 = Taken + 2
      BY <2>2, Facts
    <3>7. Lossless' = Lossless /\ Base(frame_id)' = Base(frame_id)
      BY <1>1 DEF Lossless, Base, sender_vars
    <3>8. /\ Base(Taken + 1) + 0 + Len(wire) <= Base(frame_id) + sent
          /\ Lossless => Base(Taken + 1) + 0 + Len(wire) = Base(frame_id) + sent
      BY <3>1, <3>3 DEF PositionOK
    <3> QED
      BY <1>1, <2>2, <3>4, <3>5, <3>6, <3>7, <3>8 DEF PositionOK, IsAt, Base
  <2>5. DeliveredOK'
    <3>1. Transmitted' = Transmitted
      BY <1>1 DEF Transmitted, sender_vars
    <3> QED
      BY <1>1, <1>2, <2>2, <2>3, <3>1 DEF DeliveredOK
  <2>6. ExplainedOK'
    BY <1>1, <2>1 DEF ExplainedOK, RefusalsExplained, sender_vars
  <2> QED
    BY <1>6, <1>7, <2>4, <2>5, <2>6
<1> QED
  BY <1>9, <1>10, <1>11 DEF ClassifyFrame
-----------------------------------------------------------------------------
(* The invariant.                                                          *)

LEMMA PartsKept ==
  ASSUME SessionParts, RInv, [SessionNext]_session_vars
  PROVE  SessionParts'
<1>1. CASE SessionNext
  BY <1>1, SenderActsStep, StartupStep, ReceiveStep, ReceiveEndsStep, ClassifyStep,
     ReceiverActsStep, PublishStep, WorkerStep, NetworkStep
  DEF SessionNext, Ingest
<1>2. CASE UNCHANGED session_vars
  <2>1. /\ UNCHANGED <<startup, sender_vars, wire, sent, got, garbled, link>>
        /\ UNCHANGED <<accepted, main_pc, exit_code, slots, producer_index>>
    BY <1>2 DEF session_vars, stream_vars, vars, main_vars, shared_vars
  <2>2. Taken' = Taken /\ InLoop' = InLoop
    BY <2>1 DEF Taken, InLoop
  <2>3. startup' \in {"start", "listen", "accept", "running", "failed"}
    BY <2>1 DEF SessionParts, SenderOK
  <2> QED
    BY <2>1, <2>2, <2>3, FrameKept
<1> QED
  BY <1>1, <1>2

LEMMA InitParts ==
  ASSUME SessionInit
  PROVE  SessionParts
<1> USE DEF SessionInit, SenderInit, StreamInit, Init
<1>0. options.frame_count \in Nat \ {0} /\ FrameParts \in Nat \ {0} /\ StreamSpace \in Nat \ {0}
  BY SenderAssumption, StreamAssumption
<1>1. SenderOK
  BY <1>0 DEF SenderOK, SenderPcs
<1>2. CheckedOK
  BY DEF CheckedOK
<1>3. StreamOK
  <2>1. << >> \in Seq(Units) /\ Len(<< >>) = 0
    OBVIOUS
  <2>2. link = "none" /\ wire = << >> /\ got = << >> /\ garbled = FALSE
    OBVIOUS
  <2>3. Len(wire) <= StreamSpace /\ Len(got) <= FrameParts
    BY <1>0, <2>1, <2>2
  <2>4. 1 .. Len(wire) = {} /\ 1 .. Len(got) = {}
    BY <2>1, <2>2
  <2> QED
    BY <2>1, <2>2, <2>3, <2>4 DEF StreamOK, Links
<1>4. Taken = 0
  BY DEF Taken
<1>5. PositionOK
  <2>1. Base(Taken) = 0 /\ Base(frame_id) = 0
    BY <1>0, <1>4 DEF Base
  <2> QED
    BY <2>1 DEF PositionOK
<1>6. DeliveredOK
  BY <1>0, <1>4 DEF DeliveredOK, Transmitted
<1>7. ExplainedOK
  BY DEF ExplainedOK, RefusalsExplained
<1> QED
  BY <1>1, <1>2, <1>3, <1>5, <1>6, <1>7 DEF SessionParts

\* What the two processes, the connection and the receiver's threads know of
\* each other holds in every reachable state of a session.
THEOREM SessionInvariance == SessionSpec => [](RInv /\ SessionParts)
<1>1. SessionSpec => []RInv
  BY ReceiverInSession, Invariance, PTL
<1>2. SessionInit => SessionParts
  BY InitParts
<1>3. SessionParts /\ RInv /\ [SessionNext]_session_vars => SessionParts'
  BY PartsKept
<1> QED
  BY <1>1, <1>2, <1>3, PTL DEF SessionSpec

-----------------------------------------------------------------------------
(* What follows.                                                           *)

\* A receiver that reports a malformed frame (4), a wrong rate or module (5)
\* or a disconnect (3) reports what happened to this session.
THEOREM RefusalsAreExplained == SessionSpec => []RefusalsExplained
<1>1. SessionParts => RefusalsExplained
  BY DEF SessionParts, ExplainedOK
<1> QED
  BY <1>1, SessionInvariance, PTL

-----------------------------------------------------------------------------
(* The sent capture.                                                       *)

\* The files have at most the frames that the writer was given, and all of
\* them after a flush that succeeded, unless a segment was cut short.
SavedOK ==
  /\ readable \in 0 .. frame_id
  /\ options.save_sent /\ sender_pc = "exited" /\ sender_exit = 0 /\ ~Cut =>
       readable = frame_id

LEMMA SavedStep ==
  ASSUME SavedOK, SenderOK, [SessionNext]_session_vars
  PROVE  SavedOK'
<1>1. readable \in Nat /\ frame_id \in Nat /\ readable <= frame_id
  <2>1. frame_id \in Nat
    BY SenderAssumption DEF SenderOK
  <2> QED
    BY <2>1 DEF SavedOK
<1>2. CASE UNCHANGED <<options, frame_id, readable, sender_pc, sender_exit>>
  BY <1>2 DEF SavedOK, Cut, ClosedFrames
<1>3. CASE SenderActs \/ SenderIsKilled
  <2>1. CASE Start \/ ConnectFails \/ Connect \/ OpenInput \/ SendPart \/ Killed
    <3>1. UNCHANGED <<frame_id, readable>>
      BY <2>1 DEF Start, ConnectFails, Connect, OpenInput, SendPart, Killed
    <3>2. ~(sender_pc' = "exited" /\ sender_exit' = 0)
      BY <2>1 DEF Start, ConnectFails, Connect, OpenInput, SendPart, Killed, Return,
                  Continue, BySignal
    <3> QED
      BY <3>1, <3>2 DEF SavedOK
  <2>2. CASE PrepareFrame \/ SendFails
    <3>1. frame_id' = frame_id /\ (UNCHANGED readable \/ WriteBack(frame_id))
      BY <2>2 DEF PrepareFrame, SendFails
    <3>2. readable' \in 0 .. frame_id
      BY <1>1, <3>1 DEF WriteBack
    <3>3. ~(sender_pc' = "exited" /\ sender_exit' = 0)
      BY <2>2 DEF PrepareFrame, SendFails, Return, Continue
    <3> QED
      BY <3>1, <3>2, <3>3 DEF SavedOK
  <2>3. CASE Save
    <3>1. \/ sender_pc' = "frame" /\ frame_id' = frame_id + 1 /\ WriteBack(frame_id + 1)
          \/ sender_exit' = 9 /\ frame_id' = frame_id /\ WriteBack(frame_id)
      BY <2>3 DEF Save, Return, Continue
    <3>2. readable' \in 0 .. frame_id'
      BY <1>1, <3>1 DEF WriteBack
    <3> QED
      BY <3>1, <3>2 DEF SavedOK
  <2>4. CASE FinishSender
    <3>1. /\ UNCHANGED <<options, frame_id>>
          /\ \/ readable' = IF options.save_sent /\ ~Cut THEN frame_id ELSE readable
             \/ sender_exit' = 9 /\ WriteBack(frame_id)
      BY <2>4 DEF FinishSender, Return
    <3>2. readable' \in 0 .. frame_id'
      BY <1>1, <3>1 DEF WriteBack
    <3>3. Cut /\ readable' = readable => Cut'
      BY <3>1 DEF Cut, ClosedFrames
    <3> QED
      BY <3>1, <3>2, <3>3 DEF SavedOK
  <2> QED
    BY <1>3, <2>1, <2>2, <2>3, <2>4 DEF SenderActs, SenderStep, SenderIsKilled
<1> QED
  BY <1>2, <1>3
  DEF SessionNext, session_vars, sender_vars, StartReceiver, Listen, Accept, Ingest, Receive,
      ReceiveEnds, ClassifyFrame, ReceiverActs, WorkerActs, WorkerWakes, NetworkActs

\* What SavedOK says holds in every reachable state of a session.
THEOREM SavedInvariance == SessionSpec => []SavedOK
<1>1. SessionInit => SavedOK
  BY DEF SessionInit, SenderInit, SavedOK
<1>2. SavedOK /\ SessionParts /\ [SessionNext]_session_vars => SavedOK'
  BY SavedStep DEF SessionParts
<1> QED
  BY <1>1, <1>2, SessionInvariance, PTL DEF SessionSpec

\* With --save-sent, the files of the sent capture have only frames that were
\* sent; and those of a sender that reports success have all of them, so at
\* least what the receiver published, unless a segment was cut short before.
THEOREM SentCovers == SessionSpec => []SentCaptureCovers
<1>1. SessionParts /\ RInv /\ SavedOK => SentCaptureCovers
  <2> SUFFICES ASSUME SessionParts, RInv, SavedOK
               PROVE  SentCaptureCovers
    OBVIOUS
  <2> USE DEF SessionParts
  <2>1. Len(accepted) \in Nat /\ Len(accepted) <= Taken /\ Taken <= Transmitted
    BY Facts DEF DeliveredOK, Taken
  <2>2. Transmitted \in Nat /\ frame_id <= Transmitted /\ (sent = 0 => Transmitted = frame_id)
    BY Facts DEF Transmitted
  <2>3. SenderExited /\ sender_exit = 0 => frame_id = options.frame_count /\ sent = 0
    BY DEF SenderExited, SenderOK
  <2>4. readable \in Nat /\ readable <= frame_id
    BY Facts DEF SavedOK
  <2>5. readable <= Transmitted
    BY <2>2, <2>4, Facts
  <2>6. options.save_sent /\ SenderExited /\ sender_exit = 0 /\ ~Cut =>
          readable = options.frame_count /\ Len(accepted) <= readable
    BY <2>1, <2>2, <2>3, Facts DEF SavedOK, SenderExited
  <2> QED
    BY <2>5, <2>6 DEF SentCaptureCovers
<1> QED
  BY <1>1, SessionInvariance, SavedInvariance, PTL

\* The buffers of the session keep their bounds, and every variable its type.
THEOREM SessionTypes == SessionSpec => []SessionTypeOK
<1>1. SessionSpec => []TypeOK
  BY ReceiverInSession, TypeCorrect, PTL
<1>2. TypeOK /\ RInv /\ SessionParts /\ SavedOK => SessionTypeOK
  <2> SUFFICES ASSUME TypeOK, RInv, SessionParts, SavedOK PROVE SessionTypeOK
    OBVIOUS
  <2>1. readable \in 0 .. options.frame_count
    BY Facts DEF SavedOK
  <2> QED
    BY <2>1 DEF SessionTypeOK, SessionParts, SenderOK, StreamOK
<1> QED
  BY <1>1, <1>2, SessionInvariance, SavedInvariance, PTL

-----------------------------------------------------------------------------
(* The session is a frame channel.                                         *)

\* What the sender has transmitted, as the channel sees it.
SentFrames == [k \in 1 .. Transmitted |-> k]

LEMMA SentGrows ==
  ASSUME SessionParts, RInv, Transmitted' = Transmitted + 1
  PROVE  SentFrames' = Append(SentFrames, Transmitted + 1)
<1>1. Transmitted \in Nat
  BY Facts DEF Transmitted
<1>2. SentFrames \in Seq(Nat) /\ Len(SentFrames) = Transmitted
  BY <1>1 DEF SentFrames
<1>3. SentFrames' = [k \in 1 .. Transmitted + 1 |-> k]
  BY DEF SentFrames
<1>4. SentFrames' \in Seq(Nat) /\ Len(SentFrames') = Transmitted + 1
  BY <1>1, <1>3
<1> DEFINE a == Append(SentFrames, Transmitted + 1)
<1>5. a \in Seq(Nat) /\ Len(a) = Transmitted + 1
        /\ a[Transmitted + 1] = Transmitted + 1
        /\ \A k \in 1 .. Transmitted : a[k] = SentFrames[k]
  BY <1>1, <1>2, AppendProperties
<1>6. \A k \in 1 .. Transmitted + 1 : a[k] = SentFrames'[k]
  BY <1>1, <1>3, <1>5 DEF SentFrames
<1> HIDE DEF a
<1> QED
  BY <1>4, <1>5, <1>6, SeqEqual DEF a

LEMMA SendPartTransmits ==
  ASSUME SessionParts, RInv, SendPart, UNCHANGED accepted
  PROVE  [Channel!Next]_<<SentFrames, accepted>>
<1>1. PICK n \in 1 .. FrameParts : SendSome(frame_id + 1, n)
  BY DEF SendPart
<1>2. UNCHANGED <<options, frame_id>> /\ sender_pc = "send"
  BY DEF SendPart
<1>3. n <= FrameParts - sent /\ sent' = sent + n
  BY <1>1, Facts DEF SendSome
<1>4. sent < FrameParts /\ frame_id < options.frame_count
  BY <1>2, Facts DEF SessionParts, SenderOK
<1>5. Transmitted = frame_id
  BY <1>4, Facts DEF Transmitted
<1>6. CASE sent' = FrameParts
  <2>1. Transmitted' = Transmitted + 1
    BY <1>2, <1>5, <1>6, Facts DEF Transmitted
  <2>2. Transmitted + 1 \in Frames
    <3>1. Transmitted + 1 \in 1 .. options.frame_count
      BY <1>4, <1>5, Facts
    <3> QED
      BY <3>1, SessionAssumption DEF SessionParts, SenderOK
  <2>3. SentFrames' = Append(SentFrames, Transmitted + 1)
    BY <2>1, SentGrows
  <2>4. \E f \in Frames : SentFrames' = Append(SentFrames, f)
    BY <2>2, <2>3
  <2>5. \E f \in Frames : Channel!Transmit(f)
    BY <2>4 DEF Channel!Transmit, SentFrames
  <2> QED
    BY <2>5 DEF Channel!Next
<1>7. CASE sent' # FrameParts
  <2>1. Transmitted' = Transmitted
    BY <1>2, <1>4, <1>7, Facts DEF Transmitted
  <2> QED
    BY <2>1 DEF SentFrames
<1> QED
  BY <1>6, <1>7

LEMMA PublishDelivers ==
  ASSUME SessionParts, RInv, Publish, UNCHANGED Transmitted
  PROVE  [Channel!Next]_<<SentFrames, accepted>>
<1>1. main_pc = "publish" /\ accepted' = Append(accepted, slots[producer_index])
  BY DEF Publish, Q!producer_slot
<1>2. Taken = Len(accepted) + 1 /\ slots[producer_index] = Taken /\ Taken <= Transmitted
  BY <1>1 DEF SessionParts, DeliveredOK, Taken
<1>3. Len(accepted) \in Nat /\ Transmitted \in Nat
  BY Facts DEF Transmitted
<1>4. /\ Len(SentFrames) = Transmitted
      /\ SentFrames[Len(accepted) + 1] = Len(accepted) + 1
  BY <1>2, <1>3 DEF SentFrames
<1>5. Len(accepted) < Len(SentFrames)
  BY <1>2, <1>3, <1>4
<1>6. accepted' = Append(accepted, SentFrames[Len(accepted) + 1])
  BY <1>1, <1>2, <1>4
<1>7. SentFrames' = SentFrames
  BY DEF SentFrames
<1>8. Channel!Deliver
  BY <1>5, <1>6, <1>7 DEF Channel!Deliver, SentFrames
<1> QED
  BY <1>8 DEF Channel!Next

LEMMA OthersStutter ==
  ASSUME SessionParts, RInv, [SessionNext]_session_vars,
         ~(SenderActs /\ SendPart), ~(ReceiverActs /\ Publish)
  PROVE  UNCHANGED <<SentFrames, accepted>>
<1>1. CASE SenderActs \/ SenderIsKilled
  <2>1. UNCHANGED accepted
    BY <1>1 DEF SenderActs, SenderIsKilled, vars, main_vars
  <2>2. Quiet \/ (Save /\ sender_pc' # "exited")
    BY <1>1 DEF SenderActs, SenderIsKilled, SenderStep, Quiet
  <2>3. CASE Quiet
    <3>1. UNCHANGED <<frame_id, sent>>
      BY <2>3, QuietLeaves DEF SessionParts
    <3> QED
      BY <2>1, <3>1 DEF SentFrames, Transmitted
  <2>4. CASE Save /\ sender_pc' # "exited"
    <3>1. frame_id' = frame_id + 1 /\ sent' = 0 /\ sent = FrameParts
      BY <2>4 DEF Save, Return, Continue, SessionParts, SenderOK
    <3>2. Transmitted' = Transmitted
      BY <3>1, Facts DEF Transmitted
    <3> QED
      BY <2>1, <3>2 DEF SentFrames
  <2> QED
    BY <2>2, <2>3, <2>4
<1>2. CASE ~SenderActs /\ ~SenderIsKilled
  <2>1. UNCHANGED <<frame_id, sent>>
    BY <1>2 DEF SessionNext, StartReceiver, Listen, Accept, Ingest, Receive, ReceiveEnds,
       ClassifyFrame, ReceiverActs, WorkerActs, WorkerWakes, NetworkActs, Network, Break,
       Garble, RecvSome, sender_vars, stream_vars, session_vars
  <2>2. UNCHANGED accepted
    <3>1. CASE ReceiverActs
      BY <3>1 DEF ReceiverActs, Acquire, CheckWriter, CheckSpace, BeginReceive, RecordDepth,
         NotifyOne, SetDone, NotifyAll, Join
    <3>2. CASE WorkerActs \/ WorkerWakes
      BY <3>2, WorkerLeavesMain DEF WorkerActs, WorkerWakes, main_vars
    <3>3. CASE ReceiveEnds \/ ClassifyFrame
      BY <3>3 DEF ReceiveEnds, ClassifyFrame, ReceiveFrame, RejectFrame
    <3>4. CASE StartReceiver \/ Listen \/ Accept \/ Receive \/ NetworkActs
               \/ UNCHANGED session_vars
      BY <3>4 DEF StartReceiver, Listen, Accept, Receive, NetworkActs, session_vars, vars,
         main_vars
    <3> QED
      BY <1>2, <3>1, <3>2, <3>3, <3>4 DEF SessionNext, Ingest
  <2> QED
    BY <2>1, <2>2 DEF SentFrames, Transmitted
<1> QED
  BY <1>1, <1>2

LEMMA ChannelStep ==
  ASSUME SessionParts, RInv, [SessionNext]_session_vars
  PROVE  [Channel!Next]_<<SentFrames, accepted>>
<1>1. CASE SenderActs /\ SendPart
  <2>1. UNCHANGED accepted
    BY <1>1 DEF SenderActs, vars, main_vars
  <2> QED
    BY <1>1, <2>1, SendPartTransmits
<1>2. CASE ReceiverActs /\ Publish
  <2>1. UNCHANGED <<frame_id, sent>>
    BY <1>2 DEF ReceiverActs, sender_vars
  <2>2. UNCHANGED Transmitted
    BY <2>1 DEF Transmitted
  <2> QED
    BY <1>2, <2>2, PublishDelivers
<1> QED
  BY <1>1, <1>2, OthersStutter

\* Partial sends and receives, a connection that ends inside a frame, damaged
\* bytes and a killed process never make the receiver publish anything but the
\* frames that the sender sent: whole, once and in their order.
THEOREM FramesInOrder == SessionSpec => ImplementsChannel
<1>1. SessionInit => Channel!Init
  <2> SUFFICES ASSUME SessionInit PROVE Channel!Init
    OBVIOUS
  <2>1. frame_id = 0 /\ sent = 0 /\ FrameParts # 0 /\ accepted = << >>
    BY StreamAssumption DEF SessionInit, SenderInit, StreamInit, Init
  <2>2. Transmitted = 0
    BY <2>1 DEF Transmitted
  <2>3. [k \in 1 .. Transmitted |-> k] = << >>
    BY <2>2
  <2> QED
    BY <2>1, <2>3 DEF Channel!Init
<1>2. RInv /\ SessionParts /\ [SessionNext]_session_vars =>
        [Channel!Next]_<<[k \in 1 .. Transmitted |-> k], accepted>>
  BY ChannelStep DEF SentFrames
<1> QED
  BY <1>1, <1>2, SessionInvariance, PTL DEF SessionSpec, ImplementsChannel, Channel!Spec
=============================================================================
