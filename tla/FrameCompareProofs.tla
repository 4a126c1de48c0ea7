------------------------- MODULE FrameCompareProofs -------------------------
(***************************************************************************)
(* For captures of any length over any set of frames: every frame is       *)
(* counted once, damage in place shifts nothing, and the verdict is exact. *)
(***************************************************************************)
EXTENDS FrameCompare, SequenceTheorems, FiniteSetTheorems, TLAPS

Typing ==
  /\ capture \in [Sides -> Seq(Frames)]
  /\ torn \subseteq Sides
  /\ pos \in [Sides -> Nat]
  /\ invalid \in [Sides -> Nat]
  /\ out_of_order \in [Sides -> Nat]
  /\ identical \in Nat /\ mismatched \in Nat
  /\ missing \in Nat /\ unexpected \in Nat
  /\ pc \in {"start", "merge", "done"}
  /\ exit_code \in {0, 1, 2}

\* Where the sides are, at each point of the program.
Positions ==
  /\ \A s \in Sides : pos[s] <= Len(capture[s]) + 1
  /\ pc = "start" => \A s \in Sides : pos[s] = 0
  /\ pc = "merge" => \A s \in Sides : pos[s] > 0
  /\ pc = "done" /\ exit_code # 2 =>
       /\ \A s \in Sides : pos[s] = Len(capture[s]) + 1
       /\ exit_code = 0 <=> ok

FramesRead(s) == IF pos[s] <= Len(capture[s]) THEN pos[s] ELSE Len(capture[s])

\* SideStats speak of the frames that were read.
InvalidCounted ==
  \A s \in Sides :
    invalid[s] = 0 <=> \A i \in 1 .. FramesRead(s) : capture[s][i].valid

DisorderCounted ==
  \A s \in Sides :
    out_of_order[s] = 0 <=>
      \A i \in 1 .. FramesRead(s) - 1 : capture[s][i].id < capture[s][i + 1].id

InStep == pos["expected"] = pos["actual"]
NoDifference == mismatched = 0 /\ missing = 0 /\ unexpected = 0

\* While no difference was counted, both sides are at one position and agree
\* up to it.
AgreeSoFar ==
  NoDifference =>
    /\ InStep
    /\ \A i \in 1 .. Passed("expected") : capture["expected"][i] = capture["actual"][i]

\* No difference is counted for equal sides.
EqualStaysEqual ==
  capture["expected"] = capture["actual"] => NoDifference /\ InStep

DamagedInPlace ==
  LET e == capture["expected"]
      a == capture["actual"]
  IN  /\ Len(e) = Len(a)
      /\ \A i \in 1 .. Len(e) : e[i].id = a[i].id \/ ~e[i].valid \/ ~a[i].valid

DamageShiftsNothing == DamagedInPlace => InStep /\ missing = 0 /\ unexpected = 0

IndInv ==
  /\ Typing
  /\ Positions
  /\ Accounted
  /\ InvalidCounted
  /\ DisorderCounted
  /\ AgreeSoFar
  /\ EqualStaysEqual
  /\ DamageShiftsNothing

-----------------------------------------------------------------------------
LEMMA FrameFields ==
  ASSUME NEW f \in Frames
  PROVE  f.id \in Nat /\ f.valid \in BOOLEAN
BY CompareAssumption

LEMMA InitInv == Init => IndInv
<1> SUFFICES ASSUME Init PROVE IndInv
  OBVIOUS
<1>1. \A n \in 0 .. MaxFrames : [1 .. n -> Frames] \subseteq Seq(Frames)
  BY CompareAssumption
<1>2. capture \in [Sides -> Seq(Frames)]
  <2>1. UNION {[1 .. n -> Frames] : n \in 0 .. MaxFrames} \subseteq Seq(Frames)
    BY <1>1
  <2>2. capture \in [Sides -> UNION {[1 .. n -> Frames] : n \in 0 .. MaxFrames}]
    BY DEF Init
  <2> HIDE DEF Init
  <2>3. ASSUME NEW s \in Sides
        PROVE  capture[s] \in Seq(Frames)
    BY <2>1, <2>2
  <2> QED
    BY <2>2, <2>3
<1>3. \A s \in Sides : Len(capture[s]) \in Nat
  BY <1>2
<1>4. Typing
  BY <1>2, CompareAssumption DEF Init, Typing
<1>5. pos["expected"] = 0 /\ pos["actual"] = 0 /\ \A s \in Sides : pos[s] = 0
  BY DEF Init, Sides
<1>6. Positions
  BY <1>3, <1>5 DEF Init, Positions
<1>7. \A s \in Sides : FramesRead(s) = 0
  BY <1>3, <1>5 DEF FramesRead
<1>8. InvalidCounted /\ DisorderCounted
  BY <1>7 DEF Init, InvalidCounted, DisorderCounted
<1>9. Accounted /\ AgreeSoFar /\ EqualStaysEqual /\ DamageShiftsNothing
  BY <1>5 DEF Init, Accounted, AgreeSoFar, EqualStaysEqual, DamageShiftsNothing,
     InStep, NoDifference, Passed
<1> QED
  BY <1>4, <1>6, <1>8, <1>9 DEF IndInv

\* advance moves each of its sides by one and leaves the others.
LEMMA AdvanceMoves ==
  ASSUME Typing, NEW S \in SUBSET Sides, advance(S)
  PROVE  /\ pos' \in [Sides -> Nat]
         /\ invalid' \in [Sides -> Nat]
         /\ out_of_order' \in [Sides -> Nat]
         /\ \A s \in S : pos'[s] = pos[s] + 1
         /\ \A s \in Sides \ S : pos'[s] = pos[s]
<1>1. \A P \in BOOLEAN : Count(P) \in Nat
  BY DEF Count
<1> QED
  BY <1>1 DEF Typing, advance, Count

\* advance keeps the statistics of each side right, as long as no side is
\* moved past its end twice.
LEMMA AdvanceCounts ==
  ASSUME Typing, InvalidCounted, DisorderCounted,
         NEW S \in SUBSET Sides, advance(S), capture' = capture,
         \A s \in S : pos[s] <= Len(capture[s])
  PROVE  InvalidCounted' /\ DisorderCounted'
<1> SUFFICES ASSUME NEW s \in Sides
             PROVE  /\ (invalid[s] = 0 <=> \A i \in 1 .. FramesRead(s) : capture[s][i].valid)'
                    /\ (out_of_order[s] = 0 <=>
                         \A i \in 1 .. FramesRead(s) - 1 :
                           capture[s][i].id < capture[s][i + 1].id)'
  BY DEF InvalidCounted, DisorderCounted
<1> DEFINE f == capture[s]
           n == FramesRead(s)
           m == FramesRead(s)'
<1>1. f \in Seq(Frames) /\ Len(f) \in Nat /\ pos[s] \in Nat
      /\ invalid[s] \in Nat /\ out_of_order[s] \in Nat
  BY DEF Typing
<1>2. \A i \in 1 .. Len(f) : f[i] \in Frames
  BY <1>1
<1>3. \A i \in 1 .. Len(f) : f[i].id \in Nat /\ f[i].valid \in BOOLEAN
  BY <1>2, FrameFields
<1>4. /\ invalid[s] = 0 <=> \A i \in 1 .. n : f[i].valid
      /\ out_of_order[s] = 0 <=> \A i \in 1 .. n - 1 : f[i].id < f[i + 1].id
  BY DEF InvalidCounted, DisorderCounted
<1>5. n \in Nat /\ n <= Len(f)
  BY <1>1 DEF FramesRead
<1>6. CASE s \in S /\ HasNext(s)
  <2>1. n = pos[s] /\ m = n + 1 /\ m <= Len(f)
    BY <1>1, <1>6, AdvanceMoves DEF FramesRead, HasNext
  <2>2. invalid'[s] = invalid[s] + Count(~f[m].valid)
    BY <1>1, <1>6, <2>1 DEF advance, NextFrame, Typing
  <2>3. out_of_order'[s] = out_of_order[s] + Count(n > 0 /\ f[n + 1].id <= f[n].id)
    BY <1>1, <1>6, <2>1 DEF advance, NextFrame, Typing, Disorder, frame
  <2> HIDE DEF n, m, f
  <2>4. invalid'[s] = 0 <=> invalid[s] = 0 /\ f[m].valid
    BY <1>1, <1>3, <1>5, <2>1, <2>2 DEF Count
  <2>5. (\A i \in 1 .. m : f[i].valid) <=> (\A i \in 1 .. n : f[i].valid) /\ f[m].valid
    BY <1>5, <2>1
  <2>6. out_of_order'[s] = 0 <=> out_of_order[s] = 0 /\ (n > 0 => f[n].id < f[n + 1].id)
    <3>1. n > 0 => f[n].id \in Nat /\ f[n + 1].id \in Nat
      BY <1>3, <1>5, <2>1
    <3> QED
      BY <1>1, <2>3, <3>1, <1>5 DEF Count
  <2>7. (\A i \in 1 .. m - 1 : f[i].id < f[i + 1].id) <=>
        (\A i \in 1 .. n - 1 : f[i].id < f[i + 1].id) /\ (n > 0 => f[n].id < f[n + 1].id)
    BY <1>5, <2>1
  <2> QED
    BY <1>4, <2>4, <2>5, <2>6, <2>7 DEF f, n, m
<1>7. CASE ~(s \in S /\ HasNext(s))
  <2>1. m = n
    BY <1>1, <1>7, AdvanceMoves DEF FramesRead, HasNext
  <2>2. invalid'[s] = invalid[s] /\ out_of_order'[s] = out_of_order[s]
    BY <1>1, <1>7 DEF advance, Count, Disorder, Typing
  <2> QED
    BY <1>4, <2>1, <2>2 DEF f, n, m
<1> QED
  BY <1>6, <1>7

LEMMA SidesFacts ==
  ASSUME Typing
  PROVE  /\ \A s \in Sides : capture[s] \in Seq(Frames) /\ Len(capture[s]) \in Nat /\ pos[s] \in Nat
         /\ "expected" \in Sides /\ "actual" \in Sides
         /\ \A s \in Sides : s = "expected" \/ s = "actual"
         /\ \A s \in Sides : has_frame(s) => frame(s) \in Frames
BY DEF Typing, Sides, has_frame, frame

LEMMA RefuseStep == IndInv /\ Refuse => IndInv'
<1> SUFFICES ASSUME IndInv, Refuse PROVE IndInv'
  OBVIOUS
<1> USE DEF IndInv, Refuse, input, counters
<1>1. Typing' /\ Accounted'
  BY DEF Typing, Accounted, Passed
<1>2. Positions'
  BY DEF Positions, Typing
<1>3. InvalidCounted' /\ DisorderCounted'
  BY DEF InvalidCounted, DisorderCounted, FramesRead
<1>4. AgreeSoFar' /\ EqualStaysEqual' /\ DamageShiftsNothing'
  BY DEF AgreeSoFar, EqualStaysEqual, DamageShiftsNothing, DamagedInPlace, InStep,
     NoDifference, Passed
<1> QED
  BY <1>1, <1>2, <1>3, <1>4

LEMMA StartStep == IndInv /\ Start => IndInv'
<1> SUFFICES ASSUME IndInv, Start PROVE IndInv'
  OBVIOUS
<1> USE DEF IndInv, Start, input, counters
<1>1. \A s \in Sides : pos[s] = 0 /\ pos'[s] = 1
  BY AdvanceMoves DEF Positions
<1>2. Typing'
  BY AdvanceMoves DEF Typing
<1>3. Positions'
  BY <1>1, SidesFacts DEF Positions
<1>4. InvalidCounted' /\ DisorderCounted'
  BY <1>1, AdvanceCounts, SidesFacts
<1>5. Accounted'
  BY <1>1, SidesFacts DEF Accounted, Passed
<1>6. Passed("expected")' = 0 /\ InStep' /\ InStep
  BY <1>1, SidesFacts DEF Passed, InStep
<1>7. AgreeSoFar' /\ EqualStaysEqual' /\ DamageShiftsNothing'
  BY <1>6 DEF AgreeSoFar, EqualStaysEqual, DamageShiftsNothing, DamagedInPlace, NoDifference
<1> QED
  BY <1>2, <1>3, <1>4, <1>5, <1>7

\* One side goes on alone only if the captures differ, and not by damage in
\* place.
LEMMA AloneMeansDifferent ==
  ASSUME IndInv, pc = "merge", OnlyExpected \/ OnlyActual
  PROVE  capture["expected"] # capture["actual"] /\ ~DamagedInPlace
<1> USE DEF IndInv
<1>1. ASSUME InStep, Len(capture["expected"]) = Len(capture["actual"])
      PROVE  \E i \in 1 .. Len(capture["expected"]) :
               /\ capture["expected"][i].id # capture["actual"][i].id
               /\ capture["expected"][i].valid /\ capture["actual"][i].valid
  <2>1. has_frame("expected") /\ has_frame("actual")
    BY <1>1, SidesFacts DEF OnlyExpected, OnlyActual, has_frame, InStep
  <2>2. frame("expected").id \in Nat /\ frame("actual").id \in Nat
    BY <2>1, SidesFacts, FrameFields
  <2>3. frame("expected").id # frame("actual").id /\ ~by_position
    BY <2>1, <2>2 DEF OnlyExpected, OnlyActual
  <2>4. frame("expected").valid /\ frame("actual").valid
    BY <2>1, <2>3, SidesFacts DEF by_position, both
  <2>5. pos["actual"] = pos["expected"] /\ pos["expected"] \in 1 .. Len(capture["expected"])
    BY <1>1, <2>1 DEF InStep, has_frame
  <2> QED
    BY <2>3, <2>4, <2>5 DEF frame
<1>2. capture["expected"] # capture["actual"]
  BY <1>1 DEF EqualStaysEqual
<1>3. ~DamagedInPlace
  BY <1>1 DEF DamageShiftsNothing, DamagedInPlace
<1> QED
  BY <1>2, <1>3

LEMMA MissingStep == IndInv /\ Missing => IndInv'
<1> SUFFICES ASSUME IndInv, Missing PROVE IndInv'
  OBVIOUS
<1> USE DEF IndInv, Missing, input, counters
<1>1. has_frame("expected") /\ {"expected"} \in SUBSET Sides
  BY SidesFacts DEF OnlyExpected
<1>2. pos["expected"] > 0 /\ pos["expected"] <= Len(capture["expected"])
  BY <1>1, SidesFacts DEF has_frame
<1>3. pos'["expected"] = pos["expected"] + 1 /\ pos'["actual"] = pos["actual"]
  BY <1>1, AdvanceMoves, SidesFacts
<1>4. Typing'
  BY <1>1, AdvanceMoves DEF Typing
<1>5. Positions'
  BY <1>2, <1>3, SidesFacts DEF Positions
<1>6. InvalidCounted' /\ DisorderCounted'
  BY <1>1, <1>2, AdvanceCounts
<1>7. Accounted'
  <2>1. Passed("expected")' = Passed("expected") + 1 /\ Passed("actual")' = Passed("actual")
    BY <1>2, <1>3, SidesFacts DEF Passed
  <2>2. identical \in Nat /\ mismatched \in Nat /\ missing \in Nat
    BY DEF Typing
  <2> QED
    BY <2>1, <2>2 DEF Accounted
<1>8. missing' # 0
  BY DEF Typing
<1>9. AgreeSoFar'
  BY <1>8 DEF AgreeSoFar, NoDifference
<1>10. EqualStaysEqual' /\ DamageShiftsNothing'
  BY AloneMeansDifferent DEF EqualStaysEqual, DamageShiftsNothing, DamagedInPlace
<1> QED
  BY <1>4, <1>5, <1>6, <1>7, <1>9, <1>10

LEMMA UnexpectedStep == IndInv /\ Unexpected => IndInv'
<1> SUFFICES ASSUME IndInv, Unexpected PROVE IndInv'
  OBVIOUS
<1> USE DEF IndInv, Unexpected, input, counters
<1>1. has_frame("actual") /\ {"actual"} \in SUBSET Sides
  BY SidesFacts DEF OnlyActual
<1>2. pos["actual"] > 0 /\ pos["actual"] <= Len(capture["actual"])
  BY <1>1, SidesFacts DEF has_frame
<1>3. pos'["actual"] = pos["actual"] + 1 /\ pos'["expected"] = pos["expected"]
  BY <1>1, AdvanceMoves, SidesFacts
<1>4. Typing'
  BY <1>1, AdvanceMoves DEF Typing
<1>5. Positions'
  BY <1>2, <1>3, SidesFacts DEF Positions
<1>6. InvalidCounted' /\ DisorderCounted'
  BY <1>1, <1>2, AdvanceCounts
<1>7. Accounted'
  <2>1. Passed("actual")' = Passed("actual") + 1 /\ Passed("expected")' = Passed("expected")
    BY <1>2, <1>3, SidesFacts DEF Passed
  <2>2. identical \in Nat /\ mismatched \in Nat /\ unexpected \in Nat
    BY DEF Typing
  <2> QED
    BY <2>1, <2>2 DEF Accounted
<1>8. unexpected' # 0
  BY DEF Typing
<1>9. AgreeSoFar'
  BY <1>8 DEF AgreeSoFar, NoDifference
<1>10. EqualStaysEqual' /\ DamageShiftsNothing'
  BY AloneMeansDifferent DEF EqualStaysEqual, DamageShiftsNothing, DamagedInPlace
<1> QED
  BY <1>4, <1>5, <1>6, <1>7, <1>9, <1>10

LEMMA ComparePairStep == IndInv /\ ComparePair => IndInv'
<1> SUFFICES ASSUME IndInv, ComparePair PROVE IndInv'
  OBVIOUS
<1> USE DEF IndInv, ComparePair, input, counters
<1>1. \A s \in Sides : pos[s] > 0 /\ pos[s] <= Len(capture[s]) /\ pos'[s] = pos[s] + 1
  BY SidesFacts, AdvanceMoves DEF both, has_frame
<1>2. Typing'
  BY AdvanceMoves DEF Typing
<1>3. Positions'
  BY <1>1, SidesFacts DEF Positions
<1>4. InvalidCounted' /\ DisorderCounted'
  BY <1>1, AdvanceCounts
<1>5. Accounted'
  <2>1. \A s \in Sides : Passed(s)' = Passed(s) + 1
    BY <1>1, SidesFacts DEF Passed
  <2>2. identical \in Nat /\ mismatched \in Nat /\ missing \in Nat /\ unexpected \in Nat
    BY DEF Typing
  <2>3. (identical + mismatched)' = identical + mismatched + 1
    BY <2>2
  <2> QED
    BY <2>1, <2>2, <2>3, SidesFacts DEF Accounted
<1>6. InStep' <=> InStep
  BY <1>1, SidesFacts DEF InStep
<1>7. Passed("expected") = pos["expected"] - 1 /\ Passed("expected")' = pos["expected"]
      /\ pos["expected"] \in Nat \ {0}
  BY <1>1, SidesFacts DEF Passed
<1>8. AgreeSoFar'
  <2> SUFFICES ASSUME NoDifference', NEW i \in 1 .. pos["expected"]
               PROVE  InStep /\ capture["expected"][i] = capture["actual"][i]
    BY <1>6, <1>7 DEF AgreeSoFar
  <2>1. frame("expected") = frame("actual") /\ NoDifference
    BY DEF NoDifference, Typing
  <2>2. InStep /\ \A j \in 1 .. pos["expected"] - 1 : capture["expected"][j] = capture["actual"][j]
    BY <1>7, <2>1 DEF AgreeSoFar
  <2>3. i \in 1 .. pos["expected"] - 1 \/ i = pos["expected"]
    BY <1>7
  <2> QED
    BY <2>1, <2>2, <2>3 DEF InStep, frame
<1>9. EqualStaysEqual'
  <2> SUFFICES ASSUME capture["expected"] = capture["actual"] PROVE NoDifference' /\ InStep'
    BY DEF EqualStaysEqual
  <2>1. NoDifference /\ InStep
    BY DEF EqualStaysEqual
  <2>2. frame("expected") = frame("actual")
    BY <2>1 DEF InStep, frame
  <2> QED
    BY <1>6, <2>1, <2>2 DEF NoDifference
<1>10. DamageShiftsNothing'
  BY <1>6 DEF DamageShiftsNothing, DamagedInPlace
<1> QED
  BY <1>2, <1>3, <1>4, <1>5, <1>8, <1>9, <1>10

LEMMA VerdictStep == IndInv /\ Verdict => IndInv'
<1> SUFFICES ASSUME IndInv, Verdict PROVE IndInv'
  OBVIOUS
<1> USE DEF IndInv, Verdict, input, counters
<1>1. \A s \in Sides : pos[s] = Len(capture[s]) + 1
  BY SidesFacts DEF Positions, has_frame
<1>2. ok' = ok
  BY DEF ok
<1>3. exit_code' = 0 <=> ok
  OBVIOUS
<1>4. Typing' /\ Accounted'
  BY DEF Typing, Accounted, Passed
<1>5. Positions'
  BY <1>1, <1>2, <1>3, SidesFacts DEF Positions
<1>6. InvalidCounted' /\ DisorderCounted'
  BY DEF InvalidCounted, DisorderCounted, FramesRead
<1>7. AgreeSoFar' /\ EqualStaysEqual' /\ DamageShiftsNothing'
  BY DEF AgreeSoFar, EqualStaysEqual, DamageShiftsNothing, DamagedInPlace, InStep,
     NoDifference, Passed
<1> QED
  BY <1>4, <1>5, <1>6, <1>7

LEMMA StutterStep == IndInv /\ UNCHANGED vars => IndInv'
<1> SUFFICES ASSUME IndInv, UNCHANGED vars PROVE IndInv'
  OBVIOUS
<1> USE DEF IndInv, vars, input, counters
<1>1. Typing' /\ Positions' /\ Accounted'
  BY DEF Typing, Positions, Accounted, Passed, ok
<1>2. InvalidCounted' /\ DisorderCounted'
  BY DEF InvalidCounted, DisorderCounted, FramesRead
<1>3. AgreeSoFar' /\ EqualStaysEqual' /\ DamageShiftsNothing'
  BY DEF AgreeSoFar, EqualStaysEqual, DamageShiftsNothing, DamagedInPlace, InStep,
     NoDifference, Passed
<1> QED
  BY <1>1, <1>2, <1>3

\* The strengthening of the properties is an invariant.
THEOREM Invariance == Spec => []IndInv
<1>1. IndInv /\ [Next]_vars => IndInv'
  BY RefuseStep, StartStep, MissingStep, UnexpectedStep, ComparePairStep, VerdictStep,
     StutterStep DEF Next, Finished
<1> QED
  BY <1>1, InitInv, PTL DEF Spec

-----------------------------------------------------------------------------
\* The counters are numbers and the exit code of a comparison is 0, 1 or 2
\* (SideStats and the counters of main in frame_compare.cpp).
THEOREM TypeCorrect == Spec => []Typing
<1>1. IndInv => Typing
  BY DEF IndInv
<1> QED
  BY <1>1, Invariance, PTL

\* Every frame that was read and passed is counted once and in one way.
THEOREM FramesAccounted == Spec => []Accounted
<1>1. IndInv => Accounted
  BY DEF IndInv
<1> QED
  BY <1>1, Invariance, PTL

\* Damage to the bytes of frames does not desynchronise the merge: pairing by
\* position keeps the two sides in step.
THEOREM DamageKeepsStep == Spec => []InPlaceDamage
<1>1. IndInv => InPlaceDamage
  BY DEF IndInv, DamageShiftsNothing, DamagedInPlace, InPlaceDamage
<1> QED
  BY <1>1, Invariance, PTL

LEMMA VerdictFollows == IndInv => VerdictIsExact
<1> SUFFICES ASSUME IndInv, pc = "done", exit_code # 2
             PROVE  exit_code = 0 <=>
                      /\ capture["expected"] = capture["actual"]
                      /\ capture["expected"] # << >>
                      /\ Clean(capture["expected"])
                      /\ torn = {}
  BY DEF VerdictIsExact
<1> USE DEF IndInv
<1>1. (\A s \in Sides : pos[s] = Len(capture[s]) + 1) /\ (exit_code = 0 <=> ok)
  BY DEF Positions
<1>2. \A s \in Sides : FramesRead(s) = Len(capture[s])
  BY <1>1, SidesFacts DEF FramesRead
<1>3. \A s \in Sides : Clean(capture[s]) <=> invalid[s] = 0 /\ out_of_order[s] = 0
  BY <1>2 DEF InvalidCounted, DisorderCounted, Clean, Ordered
<1>4. NoDifference <=> capture["expected"] = capture["actual"]
  <2>1. ASSUME NoDifference
        PROVE  capture["expected"] = capture["actual"]
    <3>1. Len(capture["expected"]) = Len(capture["actual"])
          /\ Passed("expected") = Len(capture["expected"])
      BY <1>1, <2>1, SidesFacts DEF AgreeSoFar, InStep, Passed
    <3>2. \A i \in 1 .. Len(capture["expected"]) : capture["expected"][i] = capture["actual"][i]
      BY <2>1, <3>1 DEF AgreeSoFar
    <3> QED
      BY <3>1, <3>2, SidesFacts, SeqEqual
  <2> QED
    BY <2>1 DEF EqualStaysEqual
<1> QED
  BY <1>1, <1>3, <1>4, SidesFacts DEF ok, NoDifference

\* The exit code of a comparison is 0 exactly for two equal, non-empty and
\* undamaged captures, whatever their lengths.
THEOREM ExactVerdict == Spec => []VerdictIsExact
BY VerdictFollows, Invariance, PTL

-----------------------------------------------------------------------------
(* The report on two captures without damage.                              *)

IdsBefore(f, n) == {f[i].id : i \in 1 .. n}
FramesBefore(f, n) == {f[i] : i \in 1 .. n}

\* What one side has passed lies below all that the other side has left.
Ahead(s, t) ==
  \A i \in 1 .. Passed(s), j \in pos[t] .. Len(capture[t]) :
    capture[s][i].id < capture[t][j].id

\* The report is exact for the frames that were passed.
MergeSoFar ==
  LET e == capture["expected"]
      a == capture["actual"]
  IN  Clean(e) /\ Clean(a) =>
        /\ missing = Cardinality(IdsBefore(e, Passed("expected")) \ IdsOf(a))
        /\ unexpected = Cardinality(IdsBefore(a, Passed("actual")) \ IdsOf(e))
        /\ identical = Cardinality(FramesBefore(e, Passed("expected")) \cap FramesOf(a))
        /\ Ahead("expected", "actual")
        /\ Ahead("actual", "expected")

\* A set of numbers that is not empty has a least element: the induction over
\* the length of a capture.
LEMMA LeastNumber ==
  ASSUME NEW T \in SUBSET Nat, T # {}
  PROVE  \E m \in T : \A k \in T : m <= k
<1> DEFINE Below == {0 .. m : m \in T}
           R == StrictSubsetOrdering(Nat)
           F == FiniteSubsetsOf(Nat)
<1>1. \A m \in T : 0 .. m \in SUBSET Nat /\ IsFiniteSet(0 .. m)
  BY FS_Interval
<1>2. Below \subseteq F /\ Below # {}
  BY <1>1 DEF FiniteSubsetsOf
<1>3. IsWellFoundedOn(R, F)
  BY FS_StrictSubsetOrderingWellFounded
<1> HIDE DEF Below, R, F
<1>4. PICK B \in Below : \A C \in Below : ~(<<C, B>> \in R)
  BY <1>2, <1>3, WFMin
<1>5. PICK m \in T : B = 0 .. m
  BY <1>4 DEF Below
<1>6. ASSUME NEW k \in T, k < m
      PROVE  FALSE
  <2>1. 0 .. k \in Below
    BY DEF Below
  <2>2. 0 .. k \subseteq 0 .. m /\ m \in 0 .. m /\ m \notin 0 .. k
    BY <1>6
  <2>3. <<0 .. k, 0 .. m>> \in R
    BY <2>2, <1>1 DEF R, StrictSubsetOrdering
  <2> QED
    BY <2>1, <2>3, <1>4, <1>5
<1> QED
  BY <1>6

\* Ids that increase from each frame to the next increase throughout.
LEMMA OrderedThroughout ==
  ASSUME NEW f \in Seq(Frames), Ordered(f),
         NEW i \in 1 .. Len(f), NEW j \in 1 .. Len(f), i < j
  PROVE  f[i].id < f[j].id
<1> DEFINE Wrong == {k \in i + 1 .. Len(f) : ~(f[i].id < f[k].id)}
<1>1. Len(f) \in Nat /\ \A k \in 1 .. Len(f) : f[k].id \in Nat
  BY FrameFields
<1>2. SUFFICES ASSUME Wrong # {} PROVE FALSE
  BY <1>1
<1>3. PICK k \in Wrong : \A l \in Wrong : k <= l
  <2>1. Wrong \in SUBSET Nat
    BY <1>1
  <2> HIDE DEF Wrong
  <2> QED
    BY <1>2, <2>1, LeastNumber
<1>4. k - 1 \in 1 .. Len(f) - 1 /\ k - 1 \in i .. Len(f) /\ k \in 1 .. Len(f)
      /\ (k - 1) + 1 = k
  BY <1>1
<1>5. f[k - 1].id < f[k].id
  BY <1>4 DEF Ordered
<1>6. CASE k - 1 = i
  BY <1>5, <1>6
<1>7. CASE k - 1 # i
  <2>1. k - 1 \in i + 1 .. Len(f) /\ k - 1 \notin Wrong
    BY <1>1, <1>3, <1>4, <1>7
  <2>2. f[i].id < f[k - 1].id
    BY <2>1
  <2> QED
    BY <1>1, <1>4, <1>5, <2>2
<1> QED
  BY <1>6, <1>7

LEMMA PrefixesFinite ==
  ASSUME NEW f, NEW n \in Nat
  PROVE  IsFiniteSet(IdsBefore(f, n)) /\ IsFiniteSet(FramesBefore(f, n))
<1>1. IsFiniteSet(1 .. n)
  BY FS_Interval
<1>2. [i \in 1 .. n |-> f[i].id] \in Surjection(1 .. n, IdsBefore(f, n))
  BY DEF Surjection, IdsBefore
<1>3. [i \in 1 .. n |-> f[i]] \in Surjection(1 .. n, FramesBefore(f, n))
  BY DEF Surjection, FramesBefore
<1> QED
  BY <1>1, <1>2, <1>3, FS_Surjection

\* A new element is counted in a difference or in an intersection.
LEMMA CountOneMore ==
  ASSUME NEW S, IsFiniteSet(S), NEW T, NEW x, x \notin S
  PROVE  /\ x \notin T => /\ Cardinality((S \union {x}) \ T) = Cardinality(S \ T) + 1
                          /\ (S \union {x}) \cap T = S \cap T
         /\ x \in T => /\ (S \union {x}) \ T = S \ T
                       /\ Cardinality((S \union {x}) \cap T) = Cardinality(S \cap T) + 1
<1>1. IsFiniteSet(S \ T) /\ IsFiniteSet(S \cap T)
  BY FS_Subset
<1>2. ASSUME x \notin T
      PROVE  Cardinality((S \union {x}) \ T) = Cardinality(S \ T) + 1
  <2>1. (S \union {x}) \ T = (S \ T) \union {x} /\ x \notin S \ T
    BY <1>2
  <2> QED
    BY <1>1, <2>1, FS_AddElement
<1>3. ASSUME x \in T
      PROVE  Cardinality((S \union {x}) \cap T) = Cardinality(S \cap T) + 1
  <2>1. (S \union {x}) \cap T = (S \cap T) \union {x} /\ x \notin S \cap T
    BY <1>3
  <2> QED
    BY <1>1, <2>1, FS_AddElement
<1> QED
  BY <1>2, <1>3

\* What one more frame adds to the frames passed.
LEMMA OneMoreFrame ==
  ASSUME NEW f \in Seq(Frames), Ordered(f), NEW p \in 1 .. Len(f)
  PROVE  /\ IdsBefore(f, p) = IdsBefore(f, p - 1) \union {f[p].id}
         /\ FramesBefore(f, p) = FramesBefore(f, p - 1) \union {f[p]}
         /\ f[p].id \notin IdsBefore(f, p - 1)
         /\ f[p] \notin FramesBefore(f, p - 1)
<1>1. 1 .. p = 1 .. (p - 1) \union {p}
  OBVIOUS
<1>2. \A i \in 1 .. p - 1 : f[i].id < f[p].id
  BY OrderedThroughout
<1>3. f[p].id \in Nat /\ \A i \in 1 .. p - 1 : f[i].id \in Nat
  BY FrameFields
<1> QED
  BY <1>1, <1>2, <1>3 DEF IdsBefore, FramesBefore

\* The frame of s that is below the frame in hand of t, if any, is not one of
\* t's, and lies below all that t has left.
LEMMA BelowTheOther ==
  ASSUME IndInv, NEW s \in Sides, NEW t \in Sides,
         pos[t] > 0, Clean(capture[s]), Clean(capture[t]), Ahead(t, s), has_frame(s),
         has_frame(t) => frame(s).id < frame(t).id
  PROVE  /\ frame(s).id \notin IdsOf(capture[t])
         /\ frame(s) \notin FramesOf(capture[t])
         /\ \A j \in pos[t] .. Len(capture[t]) : frame(s).id < capture[t][j].id
<1>1. /\ capture[s] \in Seq(Frames) /\ capture[t] \in Seq(Frames)
      /\ pos[s] \in Nat /\ pos[t] \in Nat \ {0}
  BY SidesFacts DEF IndInv
<1>2. \A j \in 1 .. Len(capture[t]) : capture[t][j].id \in Nat
  BY <1>1, FrameFields
<1>3. frame(s).id \in Nat
  BY SidesFacts, FrameFields DEF IndInv
<1>4. ASSUME NEW j \in pos[t] .. Len(capture[t])
      PROVE  frame(s).id < capture[t][j].id
  <2>1. has_frame(t) /\ j \in 1 .. Len(capture[t]) /\ pos[t] \in 1 .. Len(capture[t])
    BY <1>1, <1>4 DEF has_frame
  <2>2. j = pos[t] \/ capture[t][pos[t]].id < capture[t][j].id
    BY <1>1, <2>1, OrderedThroughout DEF Clean
  <2> QED
    BY <1>2, <1>3, <2>1, <2>2 DEF frame
<1>5. ASSUME NEW j \in 1 .. pos[t] - 1
      PROVE  capture[t][j].id < frame(s).id
  BY <1>1 DEF Ahead, Passed, has_frame, frame
<1>6. \A j \in 1 .. Len(capture[t]) : capture[t][j].id # frame(s).id
  <2> SUFFICES ASSUME NEW j \in 1 .. Len(capture[t]) PROVE capture[t][j].id # frame(s).id
    OBVIOUS
  <2>1. j \in pos[t] .. Len(capture[t]) \/ (j \in 1 .. pos[t] - 1)
    BY <1>1
  <2> QED
    BY <1>2, <1>3, <1>4, <1>5, <2>1
<1> QED
  BY <1>4, <1>6 DEF IdsOf, FramesOf

LEMMA MissingMerges == IndInv /\ MergeSoFar /\ Missing => MergeSoFar'
<1> DEFINE e == capture["expected"]
           a == capture["actual"]
           p == pos["expected"]
<1> SUFFICES ASSUME IndInv, MergeSoFar, Missing, Clean(e), Clean(a) PROVE MergeSoFar'
  BY DEF Missing, MergeSoFar, input
<1>1. /\ e \in Seq(Frames) /\ a \in Seq(Frames) /\ p \in 1 .. Len(e)
      /\ pos["actual"] \in Nat \ {0} /\ capture' = capture
      /\ pos'["expected"] = p + 1 /\ pos'["actual"] = pos["actual"]
      /\ "expected" \in Sides /\ "actual" \in Sides
      /\ missing' = missing + 1 /\ unexpected' = unexpected /\ identical' = identical
  <2>1. {"expected"} \in SUBSET Sides /\ has_frame("expected")
    BY DEF Sides, Missing, OnlyExpected
  <2>2. pos'["expected"] = p + 1 /\ pos'["actual"] = pos["actual"]
    BY <2>1, AdvanceMoves DEF Missing, IndInv, Sides
  <2> QED
    BY <2>1, <2>2, SidesFacts DEF Missing, input, IndInv, Positions, has_frame
<1>2. /\ e[p].id \notin IdsOf(a) /\ e[p] \notin FramesOf(a)
      /\ \A j \in pos["actual"] .. Len(a) : e[p].id < a[j].id
  BY <1>1, BelowTheOther DEF MergeSoFar, Missing, OnlyExpected, frame
<1>3. /\ Passed("expected") = p - 1 /\ Passed("expected")' = p
      /\ Passed("actual")' = Passed("actual")
  BY <1>1 DEF Passed
<1> HIDE DEF p
<1>4. /\ missing' = Cardinality(IdsBefore(e, p) \ IdsOf(a))
      /\ identical' = Cardinality(FramesBefore(e, p) \cap FramesOf(a))
  <2>1. p - 1 \in Nat
    BY <1>1
  <2>2. /\ IdsBefore(e, p) = IdsBefore(e, p - 1) \union {e[p].id}
        /\ FramesBefore(e, p) = FramesBefore(e, p - 1) \union {e[p]}
        /\ e[p].id \notin IdsBefore(e, p - 1) /\ e[p] \notin FramesBefore(e, p - 1)
    BY <1>1, OneMoreFrame DEF Clean
  <2>3. IsFiniteSet(IdsBefore(e, p - 1)) /\ IsFiniteSet(FramesBefore(e, p - 1))
    BY <2>1, PrefixesFinite
  <2>4. Cardinality((IdsBefore(e, p - 1) \union {e[p].id}) \ IdsOf(a))
          = Cardinality(IdsBefore(e, p - 1) \ IdsOf(a)) + 1
    <3> DEFINE S == IdsBefore(e, p - 1)
               T == IdsOf(a)
               x == e[p].id
    <3>1. x \notin S /\ x \notin T /\ IsFiniteSet(S)
      BY <1>2, <2>2, <2>3
    <3> HIDE DEF S, T, x
    <3>2. Cardinality((S \union {x}) \ T) = Cardinality(S \ T) + 1
      BY <3>1, CountOneMore
    <3> QED
      BY <3>2 DEF S, T, x
  <2>5. FramesBefore(e, p) \cap FramesOf(a) = FramesBefore(e, p - 1) \cap FramesOf(a)
    BY <1>2, <2>2
  <2> QED
    BY <1>1, <1>3, <2>2, <2>4, <2>5 DEF MergeSoFar
<1>5. Ahead("expected", "actual")'
  <2>1. \A i \in 1 .. p : i \in 1 .. p - 1 \/ i = p
    BY <1>1
  <2> QED
    BY <1>1, <1>2, <1>3, <2>1 DEF Ahead, MergeSoFar
<1>6. Ahead("actual", "expected")'
  <2>1. \A i \in p + 1 .. Len(e) : i \in p .. Len(e)
    BY <1>1
  <2> QED
    BY <1>1, <1>3, <2>1 DEF Ahead, MergeSoFar, p
<1> QED
  BY <1>1, <1>3, <1>4, <1>5, <1>6 DEF MergeSoFar

LEMMA UnexpectedMerges == IndInv /\ MergeSoFar /\ Unexpected => MergeSoFar'
<1> DEFINE e == capture["expected"]
           a == capture["actual"]
           q == pos["actual"]
<1> SUFFICES ASSUME IndInv, MergeSoFar, Unexpected, Clean(e), Clean(a) PROVE MergeSoFar'
  BY DEF Unexpected, MergeSoFar, input
<1>1. /\ e \in Seq(Frames) /\ a \in Seq(Frames) /\ q \in 1 .. Len(a)
      /\ pos["expected"] \in Nat \ {0} /\ capture' = capture
      /\ pos'["actual"] = q + 1 /\ pos'["expected"] = pos["expected"]
      /\ "expected" \in Sides /\ "actual" \in Sides
      /\ unexpected' = unexpected + 1 /\ missing' = missing /\ identical' = identical
  <2>1. {"actual"} \in SUBSET Sides /\ has_frame("actual")
    BY DEF Sides, Unexpected, OnlyActual
  <2>2. pos'["actual"] = q + 1 /\ pos'["expected"] = pos["expected"]
    BY <2>1, AdvanceMoves DEF Unexpected, IndInv, Sides
  <2> QED
    BY <2>1, <2>2, SidesFacts DEF Unexpected, input, IndInv, Positions, has_frame
<1>2. /\ a[q].id \notin IdsOf(e)
      /\ \A i \in pos["expected"] .. Len(e) : a[q].id < e[i].id
  BY <1>1, BelowTheOther DEF MergeSoFar, Unexpected, OnlyActual, frame
<1>3. /\ Passed("actual") = q - 1 /\ Passed("actual")' = q
      /\ Passed("expected")' = Passed("expected")
  BY <1>1 DEF Passed
<1> HIDE DEF q
<1>4. unexpected' = Cardinality(IdsBefore(a, q) \ IdsOf(e))
  <2>1. IsFiniteSet(IdsBefore(a, q - 1))
    BY <1>1, PrefixesFinite
  <2>2. /\ IdsBefore(a, q) = IdsBefore(a, q - 1) \union {a[q].id}
        /\ a[q].id \notin IdsBefore(a, q - 1)
    BY <1>1, OneMoreFrame DEF Clean
  <2>3. Cardinality((IdsBefore(a, q - 1) \union {a[q].id}) \ IdsOf(e))
          = Cardinality(IdsBefore(a, q - 1) \ IdsOf(e)) + 1
    BY <1>2, <2>1, <2>2, CountOneMore
  <2> QED
    BY <1>1, <1>3, <2>2, <2>3 DEF MergeSoFar
<1>5. Ahead("actual", "expected")'
  <2>1. \A j \in 1 .. q : j \in 1 .. q - 1 \/ j = q
    BY <1>1
  <2> QED
    BY <1>1, <1>2, <1>3, <2>1 DEF Ahead, MergeSoFar
<1>6. Ahead("expected", "actual")'
  <2>1. \A j \in q + 1 .. Len(a) : j \in q .. Len(a)
    BY <1>1
  <2> QED
    BY <1>1, <1>3, <2>1 DEF Ahead, MergeSoFar, q
<1> QED
  BY <1>1, <1>3, <1>4, <1>5, <1>6 DEF MergeSoFar

LEMMA ComparePairMerges == IndInv /\ MergeSoFar /\ ComparePair => MergeSoFar'
<1> DEFINE e == capture["expected"]
           a == capture["actual"]
           p == pos["expected"]
           q == pos["actual"]
<1> SUFFICES ASSUME IndInv, MergeSoFar, ComparePair, Clean(e), Clean(a) PROVE MergeSoFar'
  BY DEF ComparePair, MergeSoFar, input
<1>1. /\ e \in Seq(Frames) /\ a \in Seq(Frames) /\ p \in 1 .. Len(e) /\ q \in 1 .. Len(a)
      /\ capture' = capture /\ pos'["expected"] = p + 1 /\ pos'["actual"] = q + 1
      /\ "expected" \in Sides /\ "actual" \in Sides
      /\ missing' = missing /\ unexpected' = unexpected
      /\ identical' = identical + (IF e[p] = a[q] THEN 1 ELSE 0)
  <2>1. has_frame("expected") /\ has_frame("actual")
    BY DEF ComparePair, both, Sides
  <2>2. pos'["expected"] = p + 1 /\ pos'["actual"] = q + 1
    BY AdvanceMoves DEF ComparePair, IndInv, Sides
  <2>3. identical' = identical + (IF e[p] = a[q] THEN 1 ELSE 0)
    BY DEF ComparePair, frame, IndInv, Typing
  <2> QED
    BY <2>1, <2>2, <2>3, SidesFacts DEF ComparePair, input, IndInv, has_frame
<1>2. (\A i \in 1 .. Len(e) : e[i].id \in Nat) /\ (\A j \in 1 .. Len(a) : a[j].id \in Nat)
  BY <1>1, FrameFields
<1>3. e[p].id = a[q].id
  <2>1. e[p].valid /\ a[q].valid
    BY <1>1 DEF Clean
  <2>2. ~by_position
    BY <2>1 DEF by_position, frame
  <2>3. ~(e[p].id < a[q].id) /\ ~(a[q].id < e[p].id)
    BY <1>1, <2>2 DEF ComparePair, OnlyExpected, OnlyActual, both, frame
  <2> QED
    BY <1>1, <1>2, <2>3
<1>4. /\ Passed("expected") = p - 1 /\ Passed("expected")' = p
      /\ Passed("actual") = q - 1 /\ Passed("actual")' = q
  BY <1>1 DEF Passed
<1> HIDE DEF p, q
<1>5. e[p].id \in IdsOf(a) /\ a[q].id \in IdsOf(e)
  BY <1>1, <1>3 DEF IdsOf
<1>6. e[p] \in FramesOf(a) <=> e[p] = a[q]
  <2>1. ASSUME NEW j \in 1 .. Len(a), e[p] = a[j]
        PROVE  j = q
    <3>1. ~(j < q) /\ ~(q < j)
      BY <1>1, <1>2, <1>3, <2>1, OrderedThroughout DEF Clean
    <3> QED
      BY <1>1, <3>1
  <2> QED
    BY <1>1, <2>1 DEF FramesOf
<1>7. p - 1 \in Nat
  BY <1>1
<1>8. /\ missing' = Cardinality(IdsBefore(e, p) \ IdsOf(a))
      /\ unexpected' = Cardinality(IdsBefore(a, q) \ IdsOf(e))
  <2>1. /\ IdsBefore(e, p) = IdsBefore(e, p - 1) \union {e[p].id}
        /\ IdsBefore(a, q) = IdsBefore(a, q - 1) \union {a[q].id}
    BY <1>1, OneMoreFrame DEF Clean
  <2>2. /\ IdsBefore(e, p) \ IdsOf(a) = IdsBefore(e, p - 1) \ IdsOf(a)
        /\ IdsBefore(a, q) \ IdsOf(e) = IdsBefore(a, q - 1) \ IdsOf(e)
    BY <1>5, <2>1
  <2> QED
    BY <1>1, <1>4, <2>2 DEF MergeSoFar
<1>9. identical' = Cardinality(FramesBefore(e, p) \cap FramesOf(a))
  <2>1. identical = Cardinality(FramesBefore(e, p - 1) \cap FramesOf(a)) /\ identical \in Nat
    BY <1>4 DEF MergeSoFar, IndInv, Typing
  <2>2. /\ FramesBefore(e, p) = FramesBefore(e, p - 1) \union {e[p]}
        /\ e[p] \notin FramesBefore(e, p - 1)
        /\ IsFiniteSet(FramesBefore(e, p - 1))
    BY <1>1, <1>7, OneMoreFrame, PrefixesFinite DEF Clean
  <2>3. CASE e[p] = a[q]
    <3>1. Cardinality((FramesBefore(e, p - 1) \union {e[p]}) \cap FramesOf(a))
            = Cardinality(FramesBefore(e, p - 1) \cap FramesOf(a)) + 1
      BY <1>6, <2>2, <2>3, CountOneMore
    <3> QED
      BY <1>1, <2>1, <2>2, <2>3, <3>1
  <2>4. CASE e[p] # a[q]
    <3>1. FramesBefore(e, p) \cap FramesOf(a) = FramesBefore(e, p - 1) \cap FramesOf(a)
      BY <1>6, <2>2, <2>4
    <3> QED
      <4>1. identical' = identical
        BY <1>1, <2>1, <2>4
      <4> QED
        BY <2>1, <3>1, <4>1
  <2> QED
    BY <2>3, <2>4
<1>10. Ahead("expected", "actual")'
  <2>1. ASSUME NEW i \in 1 .. p, NEW j \in q + 1 .. Len(a)
        PROVE  e[i].id < a[j].id
    <3>1. i \in 1 .. p - 1 \/ i = p
      BY <1>1
    <3>2. j \in q .. Len(a) /\ j \in 1 .. Len(a) /\ q < j
      BY <1>1
    <3>3. a[q].id < a[j].id
      BY <1>1, <3>2, OrderedThroughout DEF Clean
    <3> QED
      BY <1>3, <1>4, <3>1, <3>2, <3>3 DEF Ahead, MergeSoFar, q
  <2> QED
    BY <1>1, <1>4, <2>1 DEF Ahead
<1>11. Ahead("actual", "expected")'
  <2>1. ASSUME NEW j \in 1 .. q, NEW i \in p + 1 .. Len(e)
        PROVE  a[j].id < e[i].id
    <3>1. j \in 1 .. q - 1 \/ j = q
      BY <1>1
    <3>2. i \in p .. Len(e) /\ i \in 1 .. Len(e) /\ p < i
      BY <1>1
    <3>3. e[p].id < e[i].id
      BY <1>1, <3>2, OrderedThroughout DEF Clean
    <3> QED
      BY <1>3, <1>4, <3>1, <3>2, <3>3 DEF Ahead, MergeSoFar, p
  <2> QED
    BY <1>1, <1>4, <2>1 DEF Ahead
<1> QED
  BY <1>1, <1>4, <1>8, <1>9, <1>10, <1>11 DEF MergeSoFar

\* Start, Refuse, Verdict: no frame is passed.
LEMMA NothingPassedMerges ==
  ASSUME IndInv, MergeSoFar, Start \/ Refuse \/ Verdict \/ UNCHANGED vars
  PROVE  MergeSoFar'
<1>1. UNCHANGED <<capture, identical, missing, unexpected>>
  BY DEF Start, Refuse, Verdict, vars, input, counters
<1>2. CASE Start
  <2>1. \A s \in Sides : Passed(s) = 0 /\ Passed(s)' = 0
    BY <1>2, AdvanceMoves DEF Start, IndInv, Positions, Passed
  <2>2. Ahead("expected", "actual")' /\ Ahead("actual", "expected")'
    BY <2>1 DEF Ahead, Sides
  <2> QED
    BY <1>1, <2>1, <2>2 DEF MergeSoFar, Sides
<1>3. CASE UNCHANGED pos
  BY <1>1, <1>3 DEF MergeSoFar, Ahead, Passed
<1> QED
  BY <1>2, <1>3 DEF Refuse, Verdict, vars

LEMMA MergeInit == Init => MergeSoFar
<1> SUFFICES ASSUME Init PROVE MergeSoFar
  OBVIOUS
<1>1. Passed("expected") = 0 /\ Passed("actual") = 0
  BY DEF Init, Passed, Sides
<1>2. Ahead("expected", "actual") /\ Ahead("actual", "expected")
  BY <1>1 DEF Ahead
<1>3. /\ \A f, T : IdsBefore(f, 0) \ T = {} /\ FramesBefore(f, 0) \cap T = {}
  BY DEF IdsBefore, FramesBefore
<1> QED
  BY <1>1, <1>2, <1>3, FS_EmptySet DEF Init, MergeSoFar

\* For two captures without damage, of any length, the report is exact.
THEOREM MergeExact == Spec => []MergeIsExact
<1>1. IndInv /\ MergeSoFar /\ [Next]_vars => MergeSoFar'
  BY MissingMerges, UnexpectedMerges, ComparePairMerges, NothingPassedMerges
  DEF Next, Finished
<1>2. IndInv /\ MergeSoFar => MergeIsExact
  <2> SUFFICES ASSUME IndInv, MergeSoFar, pc = "done", exit_code # 2
               PROVE  /\ Passed("expected") = Len(capture["expected"])
                      /\ Passed("actual") = Len(capture["actual"])
    BY DEF MergeIsExact, MergeSoFar, IdsBefore, FramesBefore, IdsOf, FramesOf
  <2>1. \A s \in Sides : pos[s] = Len(capture[s]) + 1
    BY DEF IndInv, Positions
  <2> QED
    BY <2>1, SidesFacts DEF IndInv, Passed
<1> QED
  BY <1>1, <1>2, MergeInit, Invariance, PTL DEF Spec
=============================================================================
