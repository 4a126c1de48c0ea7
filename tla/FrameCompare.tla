---------------------------- MODULE FrameCompare ----------------------------
(***************************************************************************)
(* tools/frame_check/frame_compare.cpp: two captures, read frame by frame  *)
(* and merged by frame id, with one frame of each in hand.                 *)
(*                                                                         *)
(* A frame is its id, whether it decodes and passes its checks (valid) and *)
(* the rest of its bytes (body); two frames are byte-identical when all    *)
(* three agree.  The id of a damaged frame is what its bytes say.          *)
(*                                                                         *)
(* What the reader does is in CaptureReader.  Here a side is the frames it *)
(* delivers (capture), whether a file ended inside a frame (torn), and the *)
(* frames of a last file that cannot be opened (unread).                   *)
(***************************************************************************)
EXTENDS Integers, Sequences, FiniteSets

CONSTANTS
  Frames,         \* [id, valid, body]
  MaxFrames,      \* bound: the frames a side delivers
  MaxUnread,      \* bound: the frames of a side in a file that cannot be opened
  TornSides       \* the sides on which a file may end inside a frame

Sides == {"expected", "actual"}

ASSUME CompareAssumption ==
  /\ \A f \in Frames : f.id \in Nat /\ f.valid \in BOOLEAN
  /\ MaxFrames \in Nat
  /\ MaxUnread \in Nat
  /\ TornSides \subseteq Sides

VARIABLES
  capture, unread, torn,    \* the input, for each side
  pos,                      \* frames each side has read; past the end, one more
  invalid, out_of_order,    \* SideStats of each side
  identical, mismatched, missing, unexpected,
  pc,                       \* "start", "merge", "done"
  exit_code

input == <<capture, unread, torn>>
counters == <<identical, mismatched, missing, unexpected>>
vars == <<input, pos, invalid, out_of_order, counters, pc, exit_code>>

Init ==
  /\ capture \in [Sides -> UNION {[1 .. n -> Frames] : n \in 0 .. MaxFrames}]
  /\ unread \in [Sides -> UNION {[1 .. n -> Frames] : n \in 0 .. MaxUnread}]
  /\ torn \in SUBSET TornSides
  /\ pos = [s \in Sides |-> 0]
  /\ invalid = [s \in Sides |-> 0]
  /\ out_of_order = [s \in Sides |-> 0]
  /\ identical = 0 /\ mismatched = 0 /\ missing = 0 /\ unexpected = 0
  /\ pc = "start"
  /\ exit_code = 0

has_frame(s) == pos[s] \in 1 .. Len(capture[s])
frame(s) == capture[s][pos[s]]

\* The frame that the next call of advance reads, if there is one.
HasNext(s) == pos[s] < Len(capture[s])
NextFrame(s) == capture[s][pos[s] + 1]

\* Its id is not above that of the frame before it.
Disorder(s) == HasNext(s) /\ pos[s] > 0 /\ NextFrame(s).id <= frame(s).id

Count(P) == IF P THEN 1 ELSE 0

\* advance on each of the given sides.
advance(S) ==
  /\ pos' = [s \in Sides |-> pos[s] + Count(s \in S)]
  /\ invalid' = [s \in Sides |->
       invalid[s] + Count(s \in S /\ HasNext(s) /\ ~NextFrame(s).valid)]
  /\ out_of_order' = [s \in Sides |-> out_of_order[s] + Count(s \in S /\ Disorder(s))]

\* A side without any .bin file; one with empty files only looks the same
\* here and is not refused.
Refuse ==
  /\ pc = "start"
  /\ \E s \in Sides : capture[s] = << >> /\ unread[s] = << >> /\ s \notin torn
  /\ pc' = "done"
  /\ exit_code' = 2
  /\ UNCHANGED <<input, pos, invalid, out_of_order, counters>>

Start ==
  /\ pc = "start"
  /\ advance(Sides)
  /\ pc' = "merge"
  /\ UNCHANGED <<input, counters, exit_code>>

both == \A s \in Sides : has_frame(s)

\* Definitions named Variant_... are plausible mistakes, for checking that
\* the properties would notice them; no specification uses one.

Variant_by_position_never == FALSE

\* The id of a damaged frame cannot be trusted: it is paired by position.
by_position ==
  /\ both
  /\ frame("expected").id # frame("actual").id
  /\ ~frame("expected").valid \/ ~frame("actual").valid

OnlyExpected ==
  /\ ~by_position
  /\ has_frame("expected")
  /\ has_frame("actual") => frame("expected").id < frame("actual").id

OnlyActual ==
  /\ ~by_position
  /\ has_frame("actual")
  /\ has_frame("expected") => frame("actual").id < frame("expected").id

Missing ==
  /\ pc = "merge"
  /\ OnlyExpected
  /\ missing' = missing + 1
  /\ advance({"expected"})
  /\ UNCHANGED <<input, identical, mismatched, unexpected, pc, exit_code>>

Variant_Unexpected_advances_both ==
  /\ pc = "merge"
  /\ OnlyActual
  /\ unexpected' = unexpected + 1
  /\ advance({s \in Sides : has_frame(s)})
  /\ UNCHANGED <<input, identical, mismatched, missing, pc, exit_code>>

Unexpected ==
  /\ pc = "merge"
  /\ OnlyActual
  /\ unexpected' = unexpected + 1
  /\ advance({"actual"})
  /\ UNCHANGED <<input, identical, mismatched, missing, pc, exit_code>>

\* The two frames in hand, byte for byte.
ComparePair ==
  /\ pc = "merge"
  /\ both
  /\ ~OnlyExpected /\ ~OnlyActual
  /\ IF frame("expected") = frame("actual")
     THEN identical' = identical + 1 /\ UNCHANGED mismatched
     ELSE mismatched' = mismatched + 1 /\ UNCHANGED identical
  /\ advance(Sides)
  /\ UNCHANGED <<input, missing, unexpected, pc, exit_code>>

Variant_ok_ignores_order ==
  /\ mismatched = 0 /\ missing = 0 /\ unexpected = 0
  /\ \A s \in Sides : invalid[s] = 0
  /\ torn = {}
  /\ capture["expected"] # << >>

ok ==
  /\ mismatched = 0 /\ missing = 0 /\ unexpected = 0
  /\ \A s \in Sides : invalid[s] = 0 /\ out_of_order[s] = 0
  /\ torn = {}
  /\ capture["expected"] # << >>

Verdict ==
  /\ pc = "merge"
  /\ \A s \in Sides : ~has_frame(s)
  /\ pc' = "done"
  /\ exit_code' = IF ok THEN 0 ELSE 1
  /\ UNCHANGED <<input, pos, invalid, out_of_order, counters>>

Finished == pc = "done" /\ UNCHANGED vars

Next == Refuse \/ Start \/ Missing \/ Unexpected \/ ComparePair \/ Verdict \/ Finished

Spec == Init /\ [][Next]_vars
-----------------------------------------------------------------------------
\* Frames a side is through with.
Passed(s) == IF pos[s] = 0 THEN 0 ELSE pos[s] - 1

Ordered(f) == \A i \in 1 .. Len(f) - 1 : f[i].id < f[i + 1].id
Clean(f) == Ordered(f) /\ \A i \in 1 .. Len(f) : f[i].valid
IdsOf(f) == {f[i].id : i \in 1 .. Len(f)}
FramesOf(f) == {f[i] : i \in 1 .. Len(f)}

\* Every frame of either side is counted once and in one way: as part of a
\* pair, or as a frame the other side lacks.
Accounted ==
  /\ Passed("expected") = identical + mismatched + missing
  /\ Passed("actual") = identical + mismatched + unexpected

\* The verdict of a comparison that was made is IDENTICAL exactly when both
\* sides delivered the same frames, at least one, all valid and with
\* increasing ids, and nothing after the last whole frame of a file.
VerdictIsExact ==
  pc = "done" /\ exit_code # 2 =>
    (exit_code = 0 <=>
       /\ capture["expected"] = capture["actual"]
       /\ capture["expected"] # << >>
       /\ Clean(capture["expected"])
       /\ torn = {})

\* Damage to the bytes of frames, ids included, shifts nothing: if the two
\* sides agree in length, and wherever their ids differ one of the two frames
\* is known to be damaged, no frame is called missing or unexpected.
InPlaceDamage ==
  LET e == capture["expected"]
      a == capture["actual"]
  IN  (/\ Len(e) = Len(a)
       /\ \A i \in 1 .. Len(e) : e[i].id = a[i].id \/ ~e[i].valid \/ ~a[i].valid)
      => missing = 0 /\ unexpected = 0

\* For two captures without damage, whatever one lacks of the other, the
\* report is exact: frames are missing or unexpected by their ids, and a frame
\* that both have is identical or mismatched.
MergeIsExact ==
  LET e == capture["expected"]
      a == capture["actual"]
  IN  pc = "done" /\ exit_code # 2 /\ Clean(e) /\ Clean(a) =>
        /\ missing = Cardinality(IdsOf(e) \ IdsOf(a))
        /\ unexpected = Cardinality(IdsOf(a) \ IdsOf(e))
        /\ identical = Cardinality(FramesOf(e) \cap FramesOf(a))

\* What the tool's header says of exit code 0: every frame of the two captures
\* matches.
ExitZeroComparesAll ==
  pc = "done" /\ exit_code = 0 =>
    capture["expected"] \o unread["expected"] = capture["actual"] \o unread["actual"]
=============================================================================
