-------------------------- MODULE AlgorithmsProofs --------------------------
(***************************************************************************)
(* Proofs about the sequential algorithms.                                 *)
(*                                                                         *)
(* The continuity check, for ids of every width and histories of every     *)
(* length: the inductive invariant bounds missing_frame_count by the width *)
(* of the span, so that the sums of the code never wrap, and ties the      *)
(* counters to the first and the last id of the history.  What             *)
(* missing_frame_count says about the ids that are really lost is a second *)
(* invariant on top (LossOK): an advance adds to Lost the ids it jumps     *)
(* over and nothing else, because no id above last_frame_id was seen       *)
(* before.                                                                 *)
(*                                                                         *)
(* The latency statistics, for every limit and every number of samples:    *)
(* the loop of percentile adds up to the number of samples below a value,  *)
(* by induction over the buckets (LeastNumber), and the first bucket above *)
(* a rank holds the sample of this rank.                                   *)
(*                                                                         *)
(* The frame format, for every number of channels and any CRC functions:   *)
(* the parser takes a byte sequence exactly if the sender can write it.    *)
(*                                                                         *)
(* The CRC, for bytes of every width, every polynomial and messages of     *)
(* every length: a byte step is linear over exclusive or, and only shifts  *)
(* a word whose low byte is zero.  So an entry of the k-th table is k + 1  *)
(* byte steps, and eight entries are eight steps with a byte before each.  *)
(***************************************************************************)
EXTENDS LossDetector, LatencyStats, Crc32, FrameFormat, TLAPS, FiniteSetTheorems

-----------------------------------------------------------------------------
(* The continuity check.                                                   *)

\* The frames that moved last_frame_id forward.
Advances ==
  frame_count - 1 - duplicate_count - reorder_count

Span == last_frame_id - first_frame_id

Counted ==
  /\ seen_any <=> Len(observed) # 0
  /\ frame_count = Len(observed)
  /\ ~seen_any => NoAnomaly /\ missing_frame_count = 0
  /\ seen_any => /\ first_frame_id = observed[1]
                 /\ Advances \in Nat
                 /\ Span = Advances + missing_frame_count
                 /\ gap_count <= missing_frame_count
                 /\ gap_count = 0 => missing_frame_count = 0

IndInv == TypeOK /\ Counted /\ NoAnomalyIffConsecutive

-----------------------------------------------------------------------------
LEMMA InitInv == Init => IndInv
<1> SUFFICES ASSUME Init PROVE IndInv
  OBVIOUS
<1>1. 0 \in Ids
  BY DetectorAssumption DEF Ids, IdSpace
<1>2. TypeOK
  <2>1. first_frame_id \in Ids /\ last_frame_id \in Ids /\ missing_frame_count \in Ids
    BY <1>1 DEF Init
  <2>2. observed \in Seq(Ids)
    BY DEF Init
  <2> QED
    BY <2>1, <2>2 DEF Init, TypeOK
<1>3. Counted
  BY DEF Init, Counted, NoAnomaly
<1>4. NoAnomalyIffConsecutive
  BY DEF Init, NoAnomalyIffConsecutive, NoAnomaly, Consecutive
<1> QED
  BY <1>2, <1>3, <1>4 DEF IndInv

\* An id is never so far from last_frame_id that the code's sums would wrap.
LEMMA NoWrap ==
  ASSUME IndInv, seen_any, NEW frame_id \in Ids, frame_id > last_frame_id
  PROVE  /\ Gap(frame_id) = frame_id - last_frame_id - 1
         /\ IsGap(frame_id) <=> frame_id > last_frame_id + 1
         /\ (missing_frame_count + Gap(frame_id)) % IdSpace
              = missing_frame_count + Gap(frame_id)
         /\ missing_frame_count + Gap(frame_id) \in Ids
<1>1. /\ IdSpace \in Nat \ {0}
      /\ last_frame_id \in 0 .. IdSpace - 1
      /\ frame_id \in 0 .. IdSpace - 1
  BY DetectorAssumption DEF IndInv, TypeOK, Ids, IdSpace
<1>2. missing_frame_count \in Nat /\ missing_frame_count <= last_frame_id
  BY DEF IndInv, TypeOK, Counted, Span, Ids
<1>3. /\ frame_id - last_frame_id - 1 \in 0 .. IdSpace - 1
      /\ last_frame_id + 1 \in 0 .. IdSpace - 1
      /\ missing_frame_count + (frame_id - last_frame_id - 1) \in 0 .. IdSpace - 1
  BY <1>1, <1>2
<1>4. \A x \in 0 .. IdSpace - 1 : x % IdSpace = x
  BY <1>1
<1> QED
  BY <1>3, <1>4 DEF Gap, IsGap, Ids

\* The counters follow one observation.
LEMMA CountedStep ==
  ASSUME IndInv, NEW frame_id \in Ids, observe(frame_id)
  PROVE  TypeOK' /\ Counted'
<1>1. /\ observed' = Append(observed, frame_id)
      /\ observed' \in Seq(Ids)
      /\ Len(observed') = Len(observed) + 1
      /\ observed'[1] = IF Len(observed) = 0 THEN frame_id ELSE observed[1]
  BY DEF observe, IndInv, TypeOK
<1>2. Len(observed) \in Nat /\ Ids \subseteq Nat /\ frame_id \in Nat
  BY DEF IndInv, TypeOK, Ids
<1>3. CASE First(frame_id)
  BY <1>1, <1>2, <1>3
  DEF First, anomalies, IndInv, TypeOK, Counted, Span, Advances, NoAnomaly
<1>4. CASE Duplicate(frame_id)
  BY <1>1, <1>2, <1>4
  DEF Duplicate, IndInv, TypeOK, Counted, Span, Advances, NoAnomaly
<1>5. CASE Reorder(frame_id)
  BY <1>1, <1>2, <1>5
  DEF Reorder, IndInv, TypeOK, Counted, Span, Advances, NoAnomaly
<1>6. CASE Advance(frame_id)
  <2>1. seen_any /\ frame_id > last_frame_id
    BY <1>6 DEF Advance
  <2>2. CASE IsGap(frame_id)
    <3>1. /\ Gap(frame_id) = frame_id - last_frame_id - 1
          /\ frame_id > last_frame_id + 1
          /\ missing_frame_count + Gap(frame_id) \in Ids
          /\ missing_frame_count' = missing_frame_count + Gap(frame_id)
      BY <1>6, <2>1, <2>2, NoWrap DEF Advance
    <3>2. Advances' = Advances + 1 /\ Span' = Span + 1 + Gap(frame_id)
      BY <1>2, <1>6, <3>1 DEF Advance, IndInv, TypeOK, Span, Advances
    <3>3. Gap(frame_id) \in Nat \ {0} /\ gap_count' = gap_count + 1
      BY <1>2, <1>6, <2>2, <3>1 DEF Advance, IndInv, TypeOK
    <3>4. TypeOK'
      BY <1>1, <1>6, <3>1, <3>3 DEF Advance, IndInv, TypeOK
    <3>5. /\ seen_any' /\ Len(observed') # 0 /\ Len(observed) # 0
          /\ frame_count' = Len(observed')
      BY <1>1, <1>2, <1>6 DEF Advance, IndInv, TypeOK, Counted
    <3>6. first_frame_id' = observed'[1]
      BY <1>1, <1>6, <3>5 DEF Advance, IndInv, Counted
    <3>7. Advances' \in Nat /\ Span' = Advances' + missing_frame_count'
      BY <1>2, <1>6, <3>1, <3>2, <3>3 DEF Advance, IndInv, TypeOK, Counted
    <3>8. gap_count' <= missing_frame_count' /\ gap_count' # 0
      BY <1>2, <1>6, <3>1, <3>3 DEF Advance, IndInv, TypeOK, Counted
    <3> QED
      BY <3>4, <3>5, <3>6, <3>7, <3>8 DEF Counted
  <2>3. CASE ~IsGap(frame_id)
    <3>1. frame_id = last_frame_id + 1
      BY <1>2, <2>1, <2>3, NoWrap DEF IndInv, TypeOK
    <3> QED
      BY <1>1, <1>2, <1>6, <2>3, <3>1
      DEF Advance, IndInv, TypeOK, Counted, Span, Advances, NoAnomaly
  <2> QED
    BY <2>2, <2>3
<1> QED
  BY <1>3, <1>4, <1>5, <1>6 DEF observe

\* As long as no anomaly is counted, the last id is that of the last frame,
\* and an id keeps the counters at zero only if it is the next one.
LEMMA ConsecutiveStep ==
  ASSUME IndInv, NEW frame_id \in Ids, observe(frame_id)
  PROVE  NoAnomalyIffConsecutive'
<1> DEFINE n == Len(observed)
<1>1. /\ observed' = Append(observed, frame_id)
      /\ n \in Nat
      /\ Len(observed') = n + 1
      /\ observed'[n + 1] = frame_id
      /\ \A k \in 1 .. n : observed'[k] = observed[k]
  BY DEF observe, IndInv, TypeOK
<1>2. TypeOK /\ Ids \subseteq Int
  BY DEF IndInv, Ids
<1>3. CASE n = 0
  <2>1. NoAnomaly /\ ~seen_any
    BY <1>3 DEF IndInv, Counted
  <2>3. NoAnomaly'
    BY <2>1
    DEF observe, First, Duplicate, Reorder, Advance, anomalies, NoAnomaly
  <2>4. Consecutive'
    BY <1>1, <1>2, <1>3 DEF Consecutive
  <2> QED
    BY <2>3, <2>4 DEF NoAnomalyIffConsecutive
<1>4. CASE n # 0
  <2>1. seen_any /\ 1 \in 1 .. n /\ observed'[1] = observed[1]
    BY <1>1, <1>4 DEF IndInv, Counted
  <2>2. observed[1] \in Int /\ observed[1] = first_frame_id
    BY <1>2, <2>1 DEF IndInv, Counted, TypeOK
  <2>3. Consecutive' <=> Consecutive /\ frame_id = observed[1] + n
    <3>1. ASSUME Consecutive'
          PROVE  Consecutive /\ frame_id = observed[1] + n
      <4>1. \A k \in 1 .. n + 1 : observed'[k] = observed[1] + k - 1
        BY <1>1, <2>1, <3>1 DEF Consecutive
      <4>2. n + 1 \in 1 .. n + 1 /\ observed[1] + (n + 1) - 1 = observed[1] + n
        BY <1>1, <2>2
      <4>3. \A k \in 1 .. n : k \in 1 .. n + 1
        BY <1>1
      <4> QED
        BY <1>1, <4>1, <4>2, <4>3 DEF Consecutive
    <3>2. ASSUME Consecutive, frame_id = observed[1] + n
          PROVE  Consecutive'
      <4>1. ASSUME NEW k \in 1 .. n + 1
            PROVE  observed'[k] = observed[1] + k - 1
        BY <1>1, <2>2, <3>2 DEF Consecutive
      <4> QED
        BY <1>1, <2>1, <4>1 DEF Consecutive
    <3> QED
      BY <3>1, <3>2
  <2>4. NoAnomaly => last_frame_id = observed[1] + n - 1
    <3>1. first_frame_id \in Int /\ last_frame_id \in Int
      BY <1>2 DEF TypeOK
    <3>2. NoAnomaly => Span = n - 1
      BY <1>2, <2>1 DEF IndInv, TypeOK, Counted, NoAnomaly, Advances
    <3> QED
      BY <1>1, <2>2, <3>1, <3>2 DEF Span
  <2>5. NoAnomaly' <=> NoAnomaly /\ frame_id = last_frame_id + 1
    <3>1. CASE Duplicate(frame_id)
      BY <1>2, <3>1 DEF Duplicate, NoAnomaly, TypeOK
    <3>2. CASE Reorder(frame_id)
      BY <1>2, <3>2 DEF Reorder, NoAnomaly, TypeOK
    <3>3. CASE Advance(frame_id)
      <4>1. frame_id > last_frame_id
            /\ (IsGap(frame_id) <=> frame_id > last_frame_id + 1)
        BY <2>1, <3>3, NoWrap DEF Advance
      <4> QED
        BY <1>2, <3>3, <4>1 DEF Advance, NoAnomaly, TypeOK
    <3> QED
      BY <2>1, <3>1, <3>2, <3>3 DEF observe, First
  <2> QED
    BY <1>2, <2>2, <2>3, <2>4, <2>5 DEF IndInv, NoAnomalyIffConsecutive
<1> QED
  BY <1>3, <1>4

LEMMA StepInv == IndInv /\ [Next]_vars => IndInv'
<1> SUFFICES ASSUME IndInv, [Next]_vars PROVE IndInv'
  OBVIOUS
<1>1. ASSUME NEW frame_id \in Ids, observe(frame_id)
      PROVE  IndInv'
  BY <1>1, CountedStep, ConsecutiveStep DEF IndInv
<1>2. CASE UNCHANGED vars
  BY <1>2
  DEF vars, stats, anomalies, IndInv, TypeOK, Counted, Advances, Span, NoAnomalyIffConsecutive,
      NoAnomaly, Consecutive
<1> QED
  BY <1>1, <1>2 DEF Next

\* The inductive invariant holds in every reachable state.
THEOREM Invariance == Spec => []IndInv
BY InitInv, StepInv, PTL DEF Spec

\* An observation counts a gap exactly when it jumps over an id, and adds to
\* missing_frame_count as many ids as it jumps over: the difference that the
\* code takes, the successor that it compares with and the sum that it keeps in
\* 64 bits are those of the integers.
SumsAreExact ==
  [][LET jumps == seen_any /\ last_frame_id' > last_frame_id + 1
     IN  /\ gap_count' - gap_count = IF jumps THEN 1 ELSE 0
         /\ missing_frame_count' - missing_frame_count
              = IF jumps THEN last_frame_id' - last_frame_id - 1 ELSE 0]_vars

\* No sum of the continuity check wraps, for ids of any width and whatever ids
\* the peer sends.
THEOREM NothingWraps == Spec => SumsAreExact
<1> DEFINE jumps == seen_any /\ last_frame_id' > last_frame_id + 1
           Exact == /\ gap_count' - gap_count = IF jumps THEN 1 ELSE 0
                    /\ missing_frame_count' - missing_frame_count
                         = IF jumps THEN last_frame_id' - last_frame_id - 1 ELSE 0
<1>1. ASSUME IndInv, NEW frame_id \in Ids, observe(frame_id)
      PROVE  Exact
  <2>1. /\ frame_id \in Nat /\ last_frame_id \in Nat
        /\ gap_count \in Nat /\ missing_frame_count \in Nat
    BY <1>1 DEF IndInv, TypeOK, Ids
  <2>2. CASE First(frame_id) \/ Duplicate(frame_id) \/ Reorder(frame_id)
    BY <2>1, <2>2 DEF First, Duplicate, Reorder, anomalies
  <2>3. CASE Advance(frame_id)
    <3>1. seen_any /\ frame_id > last_frame_id /\ last_frame_id' = frame_id
      BY <2>3 DEF Advance
    <3>2. /\ Gap(frame_id) = frame_id - last_frame_id - 1
          /\ IsGap(frame_id) <=> frame_id > last_frame_id + 1
          /\ (missing_frame_count + Gap(frame_id)) % IdSpace
               = missing_frame_count + Gap(frame_id)
      BY <1>1, <3>1, NoWrap
    <3> QED
      BY <2>1, <2>3, <3>1, <3>2 DEF Advance
  <2> QED
    BY <1>1, <2>2, <2>3 DEF observe
<1>2. IndInv /\ [Next]_vars => [Exact]_vars
  BY <1>1 DEF Next
<1> QED
  BY <1>2, Invariance, PTL DEF Spec, SumsAreExact

\* The statistics account for every id of the span.
THEOREM SpanIsAccounted == Spec => []SpanAccounted
<1>1. IndInv => SpanAccounted
  BY DEF IndInv, TypeOK, Counted, Advances, Span, Ids, SpanAccounted
<1> QED
  BY <1>1, Invariance, PTL

\* No anomaly is counted exactly when the ids are consecutive.
THEOREM AnomaliesAreDetected == Spec => []NoAnomalyIffConsecutive
<1>1. IndInv => NoAnomalyIffConsecutive
  BY DEF IndInv
<1> QED
  BY <1>1, Invariance, PTL
-----------------------------------------------------------------------------
(* What missing_frame_count says about the ids that never arrived.         *)

LossOK ==
  /\ seen_any => last_frame_id \in Seen /\ \A i \in Seen : i <= last_frame_id
  /\ MissingBoundsLoss

LEMMA SeenGrows ==
  ASSUME TypeOK, NEW frame_id \in Ids, observed' = Append(observed, frame_id)
  PROVE  Seen' = Seen \union {frame_id}
<1> DEFINE n == Len(observed)
<1>1. /\ n \in Nat /\ Len(observed') = n + 1
      /\ observed'[n + 1] = frame_id
      /\ \A k \in 1 .. n : observed'[k] = observed[k]
  BY DEF TypeOK
<1>2. Seen' = {observed'[k] : k \in 1 .. n + 1}
  BY <1>1 DEF Seen
<1>3. Seen = {observed[k] : k \in 1 .. n}
  BY DEF Seen
<1>4. 1 .. n + 1 = (1 .. n) \union {n + 1}
  BY <1>1
<1> HIDE DEF n
<1> QED
  BY <1>1, <1>2, <1>3, <1>4

LEMMA LostIsFinite ==
  ASSUME TypeOK
  PROVE  IsFiniteSet(Lost) /\ Cardinality(Lost) \in Nat
<1>1. first_frame_id \in Int /\ last_frame_id \in Int
  BY DEF TypeOK, Ids
<1>2. IsFiniteSet(first_frame_id .. last_frame_id)
  BY <1>1, FS_Interval
<1> QED
  BY <1>2, FS_Difference, FS_CardinalityType DEF Lost

LEMMA LossStep ==
  ASSUME IndInv, LossOK, IndInv', NEW frame_id \in Ids, observe(frame_id)
  PROVE  LossOK'
<1>1. Seen' = Seen \union {frame_id}
  BY SeenGrows DEF observe, IndInv
<1>2. /\ first_frame_id \in Nat /\ last_frame_id \in Nat /\ frame_id \in Nat
      /\ missing_frame_count \in Nat /\ reorder_count \in Nat
  BY DEF IndInv, TypeOK, Ids
<1>3. IsFiniteSet(Lost) /\ Cardinality(Lost) \in Nat
  BY LostIsFinite DEF IndInv
<1>4. CASE First(frame_id)
  <2>1. Seen = {} /\ reorder_count = 0 /\ missing_frame_count = 0
    BY <1>4 DEF First, IndInv, TypeOK, Counted, NoAnomaly, Seen
  <2>2. /\ last_frame_id' = frame_id /\ first_frame_id' = frame_id
        /\ missing_frame_count' = 0 /\ reorder_count' = 0
    BY <1>4, <2>1 DEF First, anomalies
  <2>3. Lost' = {}
    BY <1>1, <1>2, <2>1, <2>2 DEF Lost
  <2> QED
    BY <1>1, <1>2, <2>1, <2>2, <2>3, FS_EmptySet DEF LossOK, MissingBoundsLoss
<1>5. CASE Duplicate(frame_id)
  <2>1. /\ seen_any /\ seen_any' /\ frame_id = last_frame_id
        /\ UNCHANGED <<first_frame_id, last_frame_id, missing_frame_count, reorder_count>>
    BY <1>5 DEF Duplicate
  <2>2. Seen' = Seen
    BY <1>1, <2>1 DEF LossOK
  <2>3. Lost' = Lost
    BY <2>1, <2>2 DEF Lost
  <2> QED
    BY <2>1, <2>2, <2>3 DEF LossOK, MissingBoundsLoss
<1>6. CASE Reorder(frame_id)
  <2>1. /\ seen_any /\ seen_any' /\ frame_id < last_frame_id
        /\ reorder_count' = reorder_count + 1
        /\ UNCHANGED <<first_frame_id, last_frame_id, missing_frame_count>>
    BY <1>6 DEF Reorder
  <2>2. Lost' = Lost \ {frame_id}
    BY <1>1, <2>1 DEF Lost
  <2>3. \/ Cardinality(Lost') = Cardinality(Lost)
        \/ Cardinality(Lost') = Cardinality(Lost) - 1
    BY <1>3, <2>2, FS_RemoveElement
  <2>4. Cardinality(Lost) <= missing_frame_count
          /\ missing_frame_count <= Cardinality(Lost) + reorder_count
    BY <2>1 DEF LossOK, MissingBoundsLoss
  <2>5. Cardinality(Lost') <= missing_frame_count'
          /\ missing_frame_count' <= Cardinality(Lost') + reorder_count'
    BY <1>2, <1>3, <2>1, <2>3, <2>4
  <2>6. last_frame_id' \in Seen' /\ \A i \in Seen' : i <= last_frame_id'
    BY <1>1, <1>2, <2>1 DEF LossOK
  <2> QED
    BY <2>5, <2>6 DEF LossOK, MissingBoundsLoss
<1>7. CASE Advance(frame_id)
  <2>1. /\ seen_any /\ seen_any' /\ frame_id > last_frame_id
        /\ last_frame_id' = frame_id
        /\ UNCHANGED <<first_frame_id, reorder_count>>
    BY <1>7 DEF Advance
  <2>2. missing_frame_count' = missing_frame_count + (frame_id - last_frame_id - 1)
    <3>1. CASE IsGap(frame_id)
      BY <1>7, <2>1, <3>1, NoWrap DEF Advance
    <3>2. CASE ~IsGap(frame_id)
      <4>1. frame_id = last_frame_id + 1
        BY <1>2, <2>1, <3>2, NoWrap
      <4>2. missing_frame_count' = missing_frame_count
        BY <1>7, <3>2 DEF Advance
      <4> QED
        BY <1>2, <4>1, <4>2
    <3> QED
      BY <3>1, <3>2
  <2>3. first_frame_id <= last_frame_id
    BY <1>2, <2>1 DEF IndInv, TypeOK, Counted, Span
  <2> DEFINE jumped == last_frame_id + 1 .. frame_id - 1
  <2>4. Lost' = Lost \union jumped
    <3>1. \A i \in Seen : i <= last_frame_id
      BY <2>1 DEF LossOK
    <3>2. first_frame_id .. frame_id =
            (first_frame_id .. last_frame_id) \union jumped \union {frame_id}
      BY <1>2, <2>1, <2>3
    <3>3. frame_id \notin first_frame_id .. last_frame_id /\ frame_id \notin jumped
      BY <1>2, <2>1
    <3>4. jumped \intersect Seen = {}
      BY <1>2, <3>1
    <3>5. Lost' = (first_frame_id .. frame_id) \ (Seen \union {frame_id})
      BY <1>1, <2>1 DEF Lost
    <3> HIDE DEF jumped
    <3> QED
      BY <3>2, <3>3, <3>4, <3>5 DEF Lost
  <2>5. Lost \intersect jumped = {}
    BY <1>2 DEF Lost
  <2>6. IsFiniteSet(jumped) /\ Cardinality(jumped) = frame_id - last_frame_id - 1
    <3>1. last_frame_id + 1 \in Int /\ frame_id - 1 \in Int
      BY <1>2
    <3>2. IsFiniteSet(jumped) /\
          Cardinality(jumped) = IF last_frame_id + 1 > frame_id - 1 THEN 0
                                ELSE (frame_id - 1) - (last_frame_id + 1) + 1
      BY <3>1, FS_Interval
    <3> HIDE DEF jumped
    <3> QED
      BY <1>2, <2>1, <3>2
  <2>7. Cardinality(Lost') = Cardinality(Lost) + (frame_id - last_frame_id - 1)
    <3> HIDE DEF jumped
    <3>1. Cardinality(Lost') = Cardinality(Lost) + Cardinality(jumped) - Cardinality({})
      BY <1>3, <2>4, <2>5, <2>6, FS_Union
    <3> QED
      BY <1>2, <1>3, <2>6, <3>1, FS_EmptySet
  <2>8. Cardinality(Lost) <= missing_frame_count
          /\ missing_frame_count <= Cardinality(Lost) + reorder_count
    BY <2>1 DEF LossOK, MissingBoundsLoss
  <2>9. Cardinality(Lost') <= missing_frame_count'
          /\ missing_frame_count' <= Cardinality(Lost') + reorder_count'
    BY <1>2, <1>3, <2>1, <2>2, <2>7, <2>8
  <2>10. last_frame_id' \in Seen' /\ \A i \in Seen' : i <= last_frame_id'
    <3>1. \A i \in Seen : i \in Nat /\ i <= last_frame_id
      <4>1. Seen \subseteq Nat
        <5>1. \A k \in 1 .. Len(observed) : observed[k] \in Ids
          BY DEF IndInv, TypeOK
        <5> QED
          BY <5>1 DEF Seen, Ids
      <4> QED
        BY <2>1, <4>1 DEF LossOK
    <3> QED
      BY <1>1, <1>2, <2>1, <3>1
  <2> QED
    BY <2>9, <2>10 DEF LossOK, MissingBoundsLoss
<1> QED
  BY <1>4, <1>5, <1>6, <1>7 DEF observe

\* missing_frame_count never understates a loss, and overstates it by at most
\* one for each frame that was counted as reordered.
THEOREM MissingIsBounded == Spec => []MissingBoundsLoss
<1>1. Init => LossOK
  BY DEF Init, LossOK, MissingBoundsLoss
<1>2. IndInv /\ LossOK /\ IndInv' /\ [Next]_vars => LossOK'
  <2> SUFFICES ASSUME IndInv, LossOK, IndInv', [Next]_vars PROVE LossOK'
    OBVIOUS
  <2>1. CASE UNCHANGED vars
    BY <2>1 DEF vars, stats, anomalies, LossOK, MissingBoundsLoss, Lost, Seen
  <2> QED
    BY <2>1, LossStep DEF Next
<1>3. LossOK => MissingBoundsLoss
  BY DEF LossOK
<1> QED
  BY <1>1, <1>2, <1>3, Invariance, PTL DEF Spec
-----------------------------------------------------------------------------
(* The latency statistics.                                                 *)

\* A set of numbers that is not empty has a least element: the induction over
\* the buckets.
LEMMA LeastNumber ==
  ASSUME NEW T \in SUBSET Nat, T # {}
  PROVE  \E m \in T : \A k \in T : m <= k
<1> DEFINE Below == {0 .. m : m \in T}
           R == StrictSubsetOrdering(Nat)
           F == FiniteSubsetsOf(Nat)
<1>1. \A m \in T : 0 .. m \in SUBSET Nat /\ IsFiniteSet(0 .. m)
  BY FS_Interval
<1>2. Below \subseteq F /\ Below # {}
  BY <1>1 DEF FiniteSubsetsOf
<1>3. IsWellFoundedOn(R, F)
  BY FS_StrictSubsetOrderingWellFounded
<1> HIDE DEF Below, R, F
<1>4. PICK B \in Below : \A C \in Below : ~(<<C, B>> \in R)
  BY <1>2, <1>3, WFMin
<1>5. PICK m \in T : B = 0 .. m
  BY <1>4 DEF Below
<1>6. ASSUME NEW k \in T, k < m
      PROVE  FALSE
  <2>1. 0 .. k \in Below
    BY DEF Below
  <2>2. 0 .. k \subseteq 0 .. m /\ m \in 0 .. m /\ m \notin 0 .. k
    BY <1>6
  <2>3. <<0 .. k, 0 .. m>> \in R
    BY <2>2, <1>1 DEF R, StrictSubsetOrdering
  <2> QED
    BY <2>1, <2>3, <1>4, <1>5
<1> QED
  BY <1>6

\* The samples that went into a bucket, or into one up to it.
Clamped(k) == IF samples[k] <= ExactRange THEN samples[k] ELSE ExactRange
InBucket(b) == {k \in 1 .. Len(samples) : Clamped(k) = b}
UpToBucket(b) == {k \in 1 .. Len(samples) : Clamped(k) <= b}

LatencyTyping ==
  /\ buckets \in [0 .. ExactRange -> Nat]
  /\ samples \in Seq(Nat)
  /\ count = Len(samples)
  /\ min_us \in Nat /\ max_us \in Nat

BucketsOK == \A b \in 0 .. ExactRange : buckets[b] = Cardinality(InBucket(b))

\* The extremes are samples, and no sample lies outside of them.
ExtremesOK ==
  samples # << >> =>
    /\ \E k \in 1 .. Len(samples) : samples[k] = min_us
    /\ \E k \in 1 .. Len(samples) : samples[k] = max_us
    /\ \A k \in 1 .. Len(samples) : min_us <= samples[k] /\ samples[k] <= max_us

LatencyInv == LatencyTyping /\ BucketsOK /\ ExtremesOK

LEMMA LeastIs ==
  ASSUME NEW S \in SUBSET Nat, NEW m \in S, \A k \in S : m <= k
  PROVE  Min(S) = m
<1>1. \A x \in S : (\A y \in S : x <= y) => x = m
  OBVIOUS
<1>2. Min(S) \in S /\ \A y \in S : Min(S) <= y
  BY DEF Min
<1> QED
  BY <1>1, <1>2

LEMMA TwoExtremes ==
  ASSUME NEW a \in Nat, NEW b \in Nat
  PROVE  /\ Min({a, b}) = IF a <= b THEN a ELSE b
         /\ Max({a, b}) = IF a <= b THEN b ELSE a
<1>1. Min({a, b}) = IF a <= b THEN a ELSE b
  <2>1. CASE a <= b
    BY <2>1, LeastIs
  <2>2. CASE ~(a <= b)
    BY <2>2, LeastIs
  <2> QED
    BY <2>1, <2>2
<1>2. Max({a, b}) \in {a, b} /\ \A y \in {a, b} : Max({a, b}) >= y
  <2>1. \E x \in {a, b} : \A y \in {a, b} : x >= y
    OBVIOUS
  <2> QED
    BY <2>1 DEF Max
<1> QED
  BY <1>1, <1>2

LEMMA BucketsFinite ==
  ASSUME LatencyTyping, NEW b
  PROVE  IsFiniteSet(InBucket(b)) /\ IsFiniteSet(UpToBucket(b))
<1>1. IsFiniteSet(1 .. Len(samples))
  BY FS_Interval DEF LatencyTyping
<1>2. InBucket(b) \in SUBSET (1 .. Len(samples)) /\ UpToBucket(b) \in SUBSET (1 .. Len(samples))
  BY DEF InBucket, UpToBucket
<1> QED
  BY <1>1, <1>2, FS_Subset

LEMMA LatencyInitInv == LatencyInit => LatencyInv
<1> SUFFICES ASSUME LatencyInit PROVE LatencyInv
  OBVIOUS
<1>1. LatencyTyping /\ ExtremesOK
  BY DEF LatencyInit, LatencyTyping, ExtremesOK
<1>2. \A b : InBucket(b) = {}
  BY DEF LatencyInit, InBucket
<1> QED
  BY <1>1, <1>2, FS_EmptySet DEF LatencyInit, BucketsOK, LatencyInv

LEMMA AddStep ==
  ASSUME LatencyInv, NEW value \in Nat, add(value)
  PROVE  LatencyInv'
<1>1. PICK n \in Nat : n = Len(samples)
  BY DEF LatencyInv, LatencyTyping
<1>2. PICK bucket : bucket = IF value <= ExactRange THEN value ELSE ExactRange
  OBVIOUS
<1>3. /\ n \in Nat /\ samples' = Append(samples, value) /\ samples' \in Seq(Nat)
      /\ Len(samples') = n + 1 /\ samples'[n + 1] = value
      /\ \A k \in 1 .. n : samples'[k] = samples[k] /\ samples[k] \in Nat
      /\ count = n /\ samples' # << >>
  BY <1>1 DEF add, LatencyInv, LatencyTyping
<1>4. /\ bucket \in 0 .. ExactRange
      /\ buckets' = [buckets EXCEPT ![bucket] = @ + 1]
  <2>1. Min({value, ExactRange}) = bucket
    BY <1>2, LatencyAssumption, TwoExtremes
  <2>2. buckets' = [buckets EXCEPT ![Min({value, ExactRange})] = @ + 1]
    BY DEF add
  <2>3. bucket \in 0 .. ExactRange
    BY <1>2, LatencyAssumption
  <2> QED
    BY <2>1, <2>2, <2>3
<1>5. /\ min_us' = IF n = 0 \/ ~(min_us <= value) THEN value ELSE min_us
      /\ max_us' = IF n = 0 \/ max_us <= value THEN value ELSE max_us
  BY <1>3, TwoExtremes DEF add, LatencyInv, LatencyTyping
<1>6. LatencyTyping'
  <2>1. buckets' \in [0 .. ExactRange -> Nat]
    BY <1>4 DEF LatencyInv, LatencyTyping
  <2>2. count' = Len(samples')
    BY <1>3 DEF add
  <2> QED
    BY <1>3, <1>5, <2>1, <2>2 DEF LatencyInv, LatencyTyping
<1>7. BucketsOK'
  <2> SUFFICES ASSUME NEW b \in 0 .. ExactRange
               PROVE  buckets'[b] = Cardinality(InBucket(b)')
    BY DEF BucketsOK
  <2>1. IsFiniteSet(InBucket(b)) /\ buckets[b] = Cardinality(InBucket(b)) /\ buckets[b] \in Nat
    BY BucketsFinite DEF LatencyInv, LatencyTyping, BucketsOK
  <2>2. InBucket(b)' = InBucket(b) \union {k \in {n + 1} : bucket = b}
    <3>1. 1 .. n + 1 = (1 .. n) \union {n + 1}
      BY <1>3
    <3>2. \A k \in 1 .. n : Clamped(k)' = Clamped(k)
      BY <1>3 DEF Clamped
    <3>3. Clamped(n + 1)' = bucket
      BY <1>3, <1>2 DEF Clamped
    <3>4. InBucket(b)' = {k \in 1 .. n + 1 : Clamped(k)' = b}
      BY <1>3 DEF InBucket
    <3>5. InBucket(b) = {k \in 1 .. n : Clamped(k) = b}
      BY <1>1 DEF InBucket
    <3> QED
      BY <3>1, <3>2, <3>3, <3>4, <3>5
  <2>3. CASE b = bucket
    <3>1. InBucket(b)' = InBucket(b) \union {n + 1} /\ n + 1 \notin InBucket(b)
      BY <1>1, <1>3, <2>2, <2>3 DEF InBucket
    <3>2. Cardinality(InBucket(b)') = Cardinality(InBucket(b)) + 1
      BY <2>1, <3>1, FS_AddElement
    <3> QED
      BY <1>4, <2>1, <2>3, <3>2 DEF LatencyInv, LatencyTyping
  <2>4. CASE b # bucket
    <3>1. InBucket(b)' = InBucket(b)
      BY <2>2, <2>4
    <3> QED
      BY <1>4, <2>1, <2>4, <3>1 DEF LatencyInv, LatencyTyping
  <2> QED
    BY <2>3, <2>4
<1>8. ExtremesOK'
  <2>1. CASE n = 0
    BY <1>3, <1>5, <2>1 DEF ExtremesOK
  <2>2. CASE n # 0
    <3>1. samples # << >>
      BY <1>1, <2>2
    <3>2. PICK i \in 1 .. n, j \in 1 .. n : samples[i] = min_us /\ samples[j] = max_us
      BY <1>1, <3>1 DEF LatencyInv, ExtremesOK
    <3>3. \A k \in 1 .. n : min_us <= samples[k] /\ samples[k] <= max_us
      BY <1>1, <3>1 DEF LatencyInv, ExtremesOK
    <3>4. \A k \in 1 .. n + 1 : k \in 1 .. n \/ k = n + 1
      BY <1>3
    <3>5. i \in 1 .. n + 1 /\ j \in 1 .. n + 1 /\ n + 1 \in 1 .. n + 1
      BY <1>3
    <3>6. min_us \in Nat /\ max_us \in Nat
      BY DEF LatencyInv, LatencyTyping
    <3>7. /\ \E k \in 1 .. n + 1 : samples'[k] = min_us'
          /\ \E k \in 1 .. n + 1 : samples'[k] = max_us'
      BY <1>3, <1>5, <3>2, <3>5
    <3>8. \A k \in 1 .. n + 1 : min_us' <= samples'[k] /\ samples'[k] <= max_us'
      BY <1>3, <1>5, <2>2, <3>3, <3>4, <3>6
    <3> QED
      BY <1>3, <3>7, <3>8 DEF ExtremesOK
  <2> QED
    BY <2>1, <2>2
<1> QED
  BY <1>6, <1>7, <1>8 DEF LatencyInv

\* The statistics agree with the samples that were added.
THEOREM LatencyInvariance == LatencySpec => []LatencyInv
<1>1. LatencyInv /\ [AddSample]_latency_vars => LatencyInv'
  <2> SUFFICES ASSUME LatencyInv, [AddSample]_latency_vars PROVE LatencyInv'
    OBVIOUS
  <2>1. CASE AddSample
    BY <2>1, AddStep, LatencyAssumption DEF AddSample
  <2>2. CASE UNCHANGED latency_vars
    BY <2>2 DEF latency_vars, LatencyInv, LatencyTyping, BucketsOK, ExtremesOK, InBucket,
       Clamped
  <2> QED
    BY <2>1, <2>2
<1> QED
  BY <1>1, LatencyInitInv, PTL DEF LatencySpec

-----------------------------------------------------------------------------
(* What the loop of percentile adds up.                                    *)

\* The counts of samples solve the recursion of Cumulative ...
LEMMA CountsAddUp ==
  ASSUME LatencyInv, NEW b \in 0 .. ExactRange
  PROVE  Cardinality(UpToBucket(b)) =
           (IF b = 0 THEN 0 ELSE Cardinality(UpToBucket(b - 1))) + buckets[b]
<1>1. /\ IsFiniteSet(InBucket(b)) /\ buckets[b] = Cardinality(InBucket(b)) /\ buckets[b] \in Nat
      /\ \A k \in 1 .. Len(samples) : Clamped(k) \in Nat
  BY BucketsFinite, LatencyAssumption DEF LatencyInv, LatencyTyping, BucketsOK, Clamped
<1>2. CASE b = 0
  <2>1. UpToBucket(b) = InBucket(b)
    BY <1>1, <1>2 DEF UpToBucket, InBucket
  <2> QED
    BY <1>1, <1>2, <2>1
<1>3. CASE b # 0
  <2>1. UpToBucket(b) = UpToBucket(b - 1) \union InBucket(b)
        /\ UpToBucket(b - 1) \cap InBucket(b) = {}
    BY <1>1, <1>3 DEF UpToBucket, InBucket
  <2>2. IsFiniteSet(UpToBucket(b - 1)) /\ Cardinality(UpToBucket(b - 1)) \in Nat
    BY BucketsFinite, FS_CardinalityType DEF LatencyInv
  <2>3. Cardinality(UpToBucket(b)) =
          Cardinality(UpToBucket(b - 1)) + Cardinality(InBucket(b)) - Cardinality({})
    BY <1>1, <2>1, <2>2, FS_Union
  <2> QED
    BY <1>1, <1>3, <2>2, <2>3, FS_EmptySet
<1> QED
  BY <1>2, <1>3

\* ... so that Cumulative is well defined, and they are its only solution.
LEMMA CumulativeCounts ==
  ASSUME LatencyInv
  PROVE  \A b \in 0 .. ExactRange : Cumulative[b] = Cardinality(UpToBucket(b))
<1> DEFINE B == 0 .. ExactRange
           Solves(f) == f = [b \in B |-> (IF b = 0 THEN 0 ELSE f[b - 1]) + buckets[b]]
           g == [b \in B |-> Cardinality(UpToBucket(b))]
<1>1. ExactRange \in Nat
  BY LatencyAssumption
<1>2. Solves(g)
  <2>1. ASSUME NEW b \in B
        PROVE  g[b] = (IF b = 0 THEN 0 ELSE g[b - 1]) + buckets[b]
    <3>1. b # 0 => b - 1 \in B
      BY <1>1
    <3> QED
      BY <3>1, CountsAddUp
  <2> HIDE DEF B
  <2>2. g = [b \in B |-> g[b]]
    OBVIOUS
  <2> HIDE DEF g
  <2> QED
    BY <2>1, <2>2
<1>3. Cumulative = CHOOSE f : Solves(f)
  BY DEF Cumulative
<1> HIDE DEF Solves, g
<1>4. Solves(Cumulative)
  BY <1>2, <1>3
<1> DEFINE Wrong == {b \in B : Cumulative[b] # g[b]}
<1>5. SUFFICES ASSUME Wrong # {} PROVE FALSE
  BY DEF g
<1>6. PICK b \in Wrong : \A k \in Wrong : b <= k
  <2>1. Wrong \in SUBSET Nat
    OBVIOUS
  <2> HIDE DEF Wrong
  <2> QED
    BY <1>5, <2>1, LeastNumber
<1>7. b # 0 => b - 1 \in B /\ Cumulative[b - 1] = g[b - 1]
  BY <1>1, <1>6
<1>8. \A f : Solves(f) => f[b] = (IF b = 0 THEN 0 ELSE f[b - 1]) + buckets[b]
  BY DEF Solves
<1>9. Cumulative[b] = g[b]
  BY <1>2, <1>4, <1>7, <1>8
<1> QED
  BY <1>9

-----------------------------------------------------------------------------
(* Ranks.                                                                  *)

LEMMA RankFacts ==
  ASSUME LatencyInv, samples # << >>
  PROVE  /\ \A p \in Quantiles : Rank(p) \in Nat /\ Rank(p) < count
         /\ \A p, q \in Quantiles : p <= q => Rank(p) <= Rank(q)
         /\ Rank(0) = 0 /\ Rank(1000) = count - 1
<1>1. PICK m \in Nat : count = m + 1
  <2>1. count \in Nat \ {0}
    BY DEF LatencyInv, LatencyTyping
  <2>2. count - 1 \in Nat /\ count = (count - 1) + 1
    BY <2>1
  <2> QED
    BY <2>2
<1>2. /\ Rank(0) = 0
      /\ Rank(250) = (500 * m + 1000) \div 2000
      /\ Rank(500) = (1000 * m + 1000) \div 2000
      /\ Rank(900) = (1800 * m + 1000) \div 2000
      /\ Rank(999) = (1998 * m + 1000) \div 2000
      /\ Rank(1000) = m
  BY <1>1 DEF Rank
<1>3. /\ \A p \in Quantiles : Rank(p) \in 0 .. m
      /\ Rank(0) <= Rank(250) /\ Rank(250) <= Rank(500) /\ Rank(500) <= Rank(900)
      /\ Rank(900) <= Rank(999) /\ Rank(999) <= Rank(1000)
  BY <1>2 DEF Quantiles
<1>4. \A p, q \in Quantiles : p <= q => Rank(p) <= Rank(q)
  BY <1>3 DEF Quantiles
<1> QED
  BY <1>1, <1>2, <1>3, <1>4

LEMMA CountsFinite ==
  ASSUME LatencyInv, NEW v
  PROVE  /\ IsFiniteSet({k \in 1 .. Len(samples) : samples[k] <= v})
         /\ IsFiniteSet({k \in 1 .. Len(samples) : samples[k] < v})
         /\ CountUpTo(v) \in Nat /\ CountBelow(v) \in Nat
<1>1. IsFiniteSet(1 .. Len(samples))
  BY FS_Interval DEF LatencyInv, LatencyTyping
<1>2. /\ {k \in 1 .. Len(samples) : samples[k] <= v} \in SUBSET (1 .. Len(samples))
      /\ {k \in 1 .. Len(samples) : samples[k] < v} \in SUBSET (1 .. Len(samples))
  OBVIOUS
<1>3. /\ IsFiniteSet({k \in 1 .. Len(samples) : samples[k] <= v})
      /\ IsFiniteSet({k \in 1 .. Len(samples) : samples[k] < v})
  BY <1>1, <1>2, FS_Subset
<1> QED
  BY <1>3, FS_CardinalityType DEF CountUpTo, CountBelow

LEMMA CountsGrow ==
  ASSUME LatencyInv, NEW v \in Nat, NEW w \in Nat, v <= w
  PROVE  CountUpTo(v) <= CountUpTo(w)
<1> DEFINE S == {k \in 1 .. Len(samples) : samples[k] <= v}
           T == {k \in 1 .. Len(samples) : samples[k] <= w}
<1>1. S \in SUBSET T
  BY DEF LatencyInv, LatencyTyping
<1>2. IsFiniteSet(T)
  BY CountsFinite
<1> HIDE DEF S, T
<1>3. Cardinality(S) <= Cardinality(T)
  BY <1>1, <1>2, FS_Subset
<1> QED
  BY <1>3 DEF CountUpTo, S, T

LEMMA AllUpToMax ==
  ASSUME LatencyInv, samples # << >>
  PROVE  CountUpTo(max_us) = count
<1>1. {k \in 1 .. Len(samples) : samples[k] <= max_us} = 1 .. Len(samples)
  BY DEF LatencyInv, ExtremesOK
<1>2. Len(samples) \in Nat /\ count = Len(samples)
  BY DEF LatencyInv, LatencyTyping
<1>3. Cardinality(1 .. Len(samples)) = Len(samples)
  BY <1>2, FS_Interval
<1> QED
  BY <1>1, <1>2, <1>3 DEF CountUpTo

\* v is the least value up to which more than r samples lie.
IsLeast(v, r) ==
  /\ v \in Nat /\ r < CountUpTo(v)
  /\ \A w \in Nat : w < v => CountUpTo(w) <= r

\* Every rank has such a value, and it is a sample of this rank.
LEMMA RankedSample ==
  ASSUME LatencyInv, samples # << >>, NEW r \in Nat, r < count
  PROVE  \E k \in 1 .. Len(samples) : IsLeast(samples[k], r) /\ IsRanked(samples[k], r)
<1> DEFINE Above == {v \in Nat : r < CountUpTo(v)}
<1>1. max_us \in Above
  BY AllUpToMax DEF LatencyInv, LatencyTyping
<1>2. PICK v \in Above : \A w \in Above : v <= w
  <2>1. Above \in SUBSET Nat /\ Above # {}
    BY <1>1
  <2> HIDE DEF Above
  <2> QED
    BY <2>1, LeastNumber
<1>3. v \in Nat /\ r < CountUpTo(v) /\ \A w \in Nat : w < v => CountUpTo(w) <= r
  <2>1. \A w \in Nat : CountUpTo(w) \in Nat
    BY CountsFinite
  <2> QED
    BY <1>2, <2>1
<1>4. CountBelow(v) <= r
  <2>1. \A k \in 1 .. Len(samples) : samples[k] \in Nat
    BY DEF LatencyInv, LatencyTyping
  <2>2. CASE v = 0
    <3>1. {k \in 1 .. Len(samples) : samples[k] < v} = {}
      BY <2>1, <2>2
    <3> QED
      BY <3>1, FS_EmptySet DEF CountBelow
  <2>3. CASE v # 0
    <3>1. v - 1 \in Nat /\ v - 1 < v
      BY <1>3, <2>3
    <3>2. \A k \in 1 .. Len(samples) : samples[k] < v <=> samples[k] <= v - 1
      BY <1>3, <2>1
    <3>3. CountBelow(v) = CountUpTo(v - 1)
      BY <3>2 DEF CountBelow, CountUpTo
    <3> QED
      BY <1>3, <3>1, <3>3
  <2> QED
    BY <2>2, <2>3
<1>5. PICK k \in 1 .. Len(samples) : samples[k] = v
  <2> SUFFICES ASSUME \A k \in 1 .. Len(samples) : samples[k] # v PROVE FALSE
    OBVIOUS
  <2>1. \A k \in 1 .. Len(samples) : samples[k] <= v <=> samples[k] < v
    BY <1>3 DEF LatencyInv, LatencyTyping
  <2>2. CountUpTo(v) = CountBelow(v)
    BY <2>1 DEF CountUpTo, CountBelow
  <2>3. CountBelow(v) \in Nat
    BY CountsFinite
  <2> QED
    BY <1>3, <1>4, <2>2, <2>3
<1> QED
  BY <1>3, <1>4, <1>5 DEF IsLeast, IsRanked

\* What the loop returns for a rank.
LEMMA LoopStops ==
  ASSUME LatencyInv, samples # << >>, NEW p \in Quantiles, NEW v, IsLeast(v, Rank(p))
  PROVE  Bucket(p) = IF v < ExactRange THEN v ELSE ExactRange
<1> DEFINE r == Rank(p)
           S == {b \in 0 .. ExactRange : Cumulative[b] > r}
<1>1. r \in Nat /\ r < count /\ v \in Nat /\ ExactRange \in Nat
  BY RankFacts, LatencyAssumption DEF IsLeast
<1>2. \A k \in 1 .. Len(samples) : samples[k] \in Nat
  BY DEF LatencyInv, LatencyTyping
<1>3. ASSUME NEW b \in 0 .. ExactRange, b < ExactRange
      PROVE  Cumulative[b] = CountUpTo(b)
  <2>1. \A k \in 1 .. Len(samples) : Clamped(k) <= b <=> samples[k] <= b
    BY <1>1, <1>2, <1>3 DEF Clamped
  <2>2. UpToBucket(b) = {k \in 1 .. Len(samples) : samples[k] <= b}
    BY <2>1 DEF UpToBucket
  <2> QED
    BY <2>2, CumulativeCounts DEF CountUpTo
<1>4. Cumulative[ExactRange] = count
  <2>1. UpToBucket(ExactRange) = 1 .. Len(samples)
    BY <1>1, <1>2 DEF UpToBucket, Clamped
  <2>2. Cumulative[ExactRange] = Cardinality(1 .. Len(samples))
    BY <1>1, <2>1, CumulativeCounts
  <2> QED
    BY <2>2, FS_Interval DEF LatencyInv, LatencyTyping
<1>5. \A w \in Nat : w < v => CountUpTo(w) <= r /\ CountUpTo(w) \in Nat
  BY CountsFinite DEF IsLeast
<1>6. ASSUME NEW b \in S
      PROVE  b >= v \/ b = ExactRange
  BY <1>1, <1>3, <1>5, <1>6
<1>7. CASE v < ExactRange
  <2>1. v \in S
    BY <1>1, <1>3, <1>7 DEF IsLeast
  <2>2. \A b \in S : v <= b
    BY <1>1, <1>6, <1>7
  <2>3. S \in SUBSET Nat
    OBVIOUS
  <2> HIDE DEF S
  <2>4. Min(S) = v
    BY <2>1, <2>2, <2>3, LeastIs
  <2> QED
    BY <1>7, <2>4 DEF Bucket, S
<1>8. CASE ~(v < ExactRange)
  <2>1. ExactRange \in S
    BY <1>1, <1>4
  <2>2. \A b \in S : ExactRange <= b
    BY <1>1, <1>6, <1>8
  <2>3. S \in SUBSET Nat
    OBVIOUS
  <2> HIDE DEF S
  <2>4. Min(S) = ExactRange
    BY <2>1, <2>2, <2>3, LeastIs
  <2> QED
    BY <1>8, <2>4 DEF Bucket, S
<1> QED
  BY <1>7, <1>8

\* A percentile, by the value of its rank.
LEMMA PercentileIs ==
  ASSUME LatencyInv, samples # << >>, NEW p \in Quantiles, NEW v, IsLeast(v, Rank(p))
  PROVE  percentile(p) = IF p = 0 THEN min_us
                         ELSE IF p = 1000 \/ ~(v < ExactRange) THEN max_us ELSE v
<1>1. count > 0 /\ v \in Nat /\ ExactRange \in Nat
  BY LatencyAssumption DEF LatencyInv, LatencyTyping, IsLeast
<1>2. p \in Int /\ (p <= 0 <=> p = 0) /\ (p >= 1000 <=> p = 1000)
  BY DEF Quantiles
<1>3. Bucket(p) = IF v < ExactRange THEN v ELSE ExactRange
  BY LoopStops
<1> QED
  BY <1>1, <1>2, <1>3 DEF percentile

LEMMA PercentileFollows == LatencyInv => PercentileIsExact
<1> SUFFICES ASSUME LatencyInv, samples # << >>
             PROVE  /\ \A p \in Quantiles : \E k \in 1 .. Len(samples) :
                         /\ IsRanked(samples[k], Rank(p))
                         /\ \/ percentile(p) = samples[k]
                            \/ samples[k] >= ExactRange /\ percentile(p) = max_us
                    /\ \A p, q \in Quantiles : p <= q => percentile(p) <= percentile(q)
  BY DEF PercentileIsExact
<1>1. /\ \A k \in 1 .. Len(samples) : /\ samples[k] \in Nat
                                      /\ min_us <= samples[k] /\ samples[k] <= max_us
      /\ min_us \in Nat /\ max_us \in Nat /\ ExactRange \in Nat
  BY LatencyAssumption DEF LatencyInv, LatencyTyping, ExtremesOK
<1>2. ASSUME NEW p \in Quantiles
      PROVE  \E k \in 1 .. Len(samples) :
               IsLeast(samples[k], Rank(p)) /\ IsRanked(samples[k], Rank(p))
  BY RankFacts, RankedSample
<1>3. ASSUME NEW k \in 1 .. Len(samples), IsLeast(samples[k], Rank(0))
      PROVE  samples[k] = min_us
  <2>1. PICK i \in 1 .. Len(samples) : samples[i] = min_us
    BY DEF LatencyInv, ExtremesOK
  <2>2. 0 < CountUpTo(min_us)
    <3> DEFINE S == {j \in 1 .. Len(samples) : samples[j] <= min_us}
    <3>1. i \in S /\ IsFiniteSet(S) /\ Cardinality(S) \in Nat
      BY <1>1, <2>1, CountsFinite, FS_CardinalityType
    <3> HIDE DEF S
    <3>2. Cardinality(S) # 0
      BY <3>1, FS_EmptySet
    <3> QED
      BY <3>1, <3>2 DEF CountUpTo, S
  <2>3. CountUpTo(min_us) \in Nat /\ Rank(0) = 0
    BY CountsFinite, RankFacts
  <2>4. ~(min_us < samples[k])
    BY <1>1, <1>3, <2>2, <2>3 DEF IsLeast
  <2> QED
    BY <1>1, <2>4
<1>4. ASSUME NEW k \in 1 .. Len(samples), IsLeast(samples[k], Rank(1000))
      PROVE  samples[k] = max_us
  <2>1. PICK i \in 1 .. Len(samples) : samples[i] = max_us
    BY DEF LatencyInv, ExtremesOK
  <2> SUFFICES ASSUME samples[k] < max_us PROVE FALSE
    BY <1>1
  <2> DEFINE S == {j \in 1 .. Len(samples) : samples[j] <= samples[k]}
  <2>2. S \in SUBSET (1 .. Len(samples)) /\ S # 1 .. Len(samples)
    BY <1>1, <2>1
  <2>3. IsFiniteSet(1 .. Len(samples)) /\ Cardinality(1 .. Len(samples)) = count
        /\ count \in Nat
    BY FS_Interval DEF LatencyInv, LatencyTyping
  <2> HIDE DEF S
  <2>4. Cardinality(S) <= count /\ Cardinality(S) # count
    BY <2>2, <2>3, FS_Subset
  <2>5. Cardinality(S) = CountUpTo(samples[k])
    BY DEF CountUpTo, S
  <2>6. CountUpTo(samples[k]) \in Nat /\ Rank(1000) = count - 1
    BY CountsFinite, RankFacts
  <2> QED
    BY <1>4, <2>3, <2>4, <2>5, <2>6 DEF IsLeast
<1>5. ASSUME NEW p \in Quantiles
      PROVE  \E k \in 1 .. Len(samples) :
               /\ IsRanked(samples[k], Rank(p))
               /\ \/ percentile(p) = samples[k]
                  \/ samples[k] >= ExactRange /\ percentile(p) = max_us
  <2>1. PICK k \in 1 .. Len(samples) :
          IsLeast(samples[k], Rank(p)) /\ IsRanked(samples[k], Rank(p))
    BY <1>2
  <2>2. percentile(p) = IF p = 0 THEN min_us
                        ELSE IF p = 1000 \/ ~(samples[k] < ExactRange) THEN max_us
                        ELSE samples[k]
    BY <2>1, PercentileIs
  <2>3. (p = 0 => samples[k] = min_us) /\ (p = 1000 => samples[k] = max_us)
    BY <1>3, <1>4, <2>1
  <2> QED
    BY <1>1, <2>1, <2>2, <2>3
<1>6. ASSUME NEW p \in Quantiles, NEW q \in Quantiles, p <= q
      PROVE  percentile(p) <= percentile(q)
  <2>1. PICK i \in 1 .. Len(samples) : IsLeast(samples[i], Rank(p))
    BY <1>2
  <2>2. PICK j \in 1 .. Len(samples) : IsLeast(samples[j], Rank(q))
    BY <1>2
  <2>3. samples[i] <= samples[j]
    <3>1. Rank(p) <= Rank(q) /\ Rank(p) \in Nat /\ Rank(q) \in Nat
      BY <1>6, RankFacts
    <3>2. CountUpTo(samples[j]) \in Nat /\ Rank(q) < CountUpTo(samples[j])
      BY <2>2, CountsFinite DEF IsLeast
    <3>3. ~(samples[j] < samples[i])
      BY <1>1, <2>1, <3>1, <3>2 DEF IsLeast
    <3> QED
      BY <1>1, <3>3
  <2>4. percentile(p) = IF p = 0 THEN min_us
                        ELSE IF p = 1000 \/ ~(samples[i] < ExactRange) THEN max_us
                        ELSE samples[i]
    BY <2>1, PercentileIs
  <2>5. percentile(q) = IF q = 0 THEN min_us
                        ELSE IF q = 1000 \/ ~(samples[j] < ExactRange) THEN max_us
                        ELSE samples[j]
    BY <2>2, PercentileIs
  <2>6. (q = 0 => p = 0) /\ (p = 1000 => q = 1000)
    BY <1>6 DEF Quantiles
  <2>7. /\ samples[i] \in Nat /\ samples[j] \in Nat
        /\ min_us <= samples[i] /\ samples[i] <= max_us
        /\ min_us <= samples[j] /\ samples[j] <= max_us
    BY <1>1
  <2> QED
    BY <1>1, <2>3, <2>4, <2>5, <2>6, <2>7
<1> QED
  BY <1>5, <1>6

\* A percentile is the sample of its rank or, above the limit, the maximum;
\* for any limit and any number of samples.
THEOREM PercentileExact == LatencySpec => []PercentileIsExact
BY PercentileFollows, LatencyInvariance, PTL
-----------------------------------------------------------------------------
(* The frame format: what the parser takes.                                *)

\* Any bytes, as the model sees them.
WireBytes ==
  [header_len : Nat,
   header : [magic : Nat, version : Nat, header_size : Nat, tags : Tags,
             channel_count : Nat, sample_rate_hz : Nat, sample_format : Nat,
             payload_len : Nat, header_crc : Nat],
   payload : Seq(Samples),
   payload_crc : Nat,
   extra : -(kSampleBytes - 1) .. kSampleBytes - 1]

\* The header that a frame gets.
WrittenHeader(tags, rate, n) ==
  [magic |-> kFrameMagic, version |-> kProtocolVersion, header_size |-> kHeaderSize,
   tags |-> tags, channel_count |-> ChannelCount, sample_rate_hz |-> rate,
   sample_format |-> kSampleFormat, payload_len |-> n * kSampleBytes,
   header_crc |-> 0]

LEMMA SerializedIs ==
  ASSUME NEW tags, NEW rate, NEW payload
  PROVE  LET h == WrittenHeader(tags, rate, Len(payload))
         IN  serialize_frame_into(Frame(tags, rate, payload)) =
               [header_len |-> kHeaderSize,
                header |-> [h EXCEPT !.header_crc = HeaderCrc(h)],
                payload |-> payload,
                payload_crc |-> PayloadCrc(payload),
                extra |-> 0]
<1> DEFINE h == WrittenHeader(tags, rate, Len(payload))
<1>1. [Frame(tags, rate, payload).header EXCEPT
         !.payload_len = Len(Frame(tags, rate, payload).payload) * kSampleBytes,
         !.header_crc = 0] = h
  <2> DEFINE n == Len(payload) * kSampleBytes
             g == [magic |-> kFrameMagic, version |-> kProtocolVersion,
                   header_size |-> kHeaderSize, tags |-> tags,
                   channel_count |-> ChannelCount, sample_rate_hz |-> rate,
                   sample_format |-> kSampleFormat, payload_len |-> 0,
                   header_crc |-> 0]
  <2>1. Frame(tags, rate, payload).header = g /\ Frame(tags, rate, payload).payload = payload
    BY DEF Frame
  <2>2. [g EXCEPT !.payload_len = n, !.header_crc = 0] = h
    <3>1. h = [magic |-> kFrameMagic, version |-> kProtocolVersion,
               header_size |-> kHeaderSize, tags |-> tags,
               channel_count |-> ChannelCount, sample_rate_hz |-> rate,
               sample_format |-> kSampleFormat, payload_len |-> n,
               header_crc |-> 0]
      BY DEF WrittenHeader
    <3> HIDE DEF h, n
    <3>2. [g EXCEPT !.payload_len = n] = h
      BY <3>1
    <3>3. [h EXCEPT !.header_crc = 0] = h
      BY <3>1
    <3> QED
      BY <3>2, <3>3
  <2> HIDE DEF g
  <2> QED
    BY <2>1, <2>2
<1>2. Frame(tags, rate, payload).payload = payload
  BY DEF Frame
<1> HIDE DEF h
<1> QED
  BY <1>1, <1>2 DEF serialize_frame_into, h

LEMMA SizesAgree ==
  ASSUME NEW bytes \in WireBytes
  PROVE  ~Malformed(bytes) <=>
           /\ bytes.header_len = kHeaderSize
           /\ bytes.header.payload_len = kPayloadBytes
           /\ Len(bytes.payload) = ChannelCount
           /\ bytes.extra = 0
<1>1. /\ bytes.extra \in -7 .. 7 /\ bytes.header_len \in Nat
      /\ bytes.header.payload_len \in Nat /\ Len(bytes.payload) \in Nat
  BY DEF WireBytes, kSampleBytes
<1>2. ChannelCount \in Nat \ {0}
  BY FormatAssumption
<1> DEFINE n == Len(bytes.payload)
<1>3. size(bytes) = 52 + 8 * n + bytes.extra
  BY <1>1 DEF size, kFramePrefixSize, kHeaderSize, kFrameCrcSize, kSampleBytes
<1>4. kPayloadBytes = 8 * ChannelCount /\ (8 * ChannelCount) % 8 = 0
  BY <1>2 DEF kPayloadBytes, kSampleBytes
<1>5. Malformed(bytes) <=>
        \/ size(bytes) < 52
        \/ bytes.header_len # 44
        \/ bytes.header.payload_len % 8 # 0
        \/ bytes.header.payload_len # 8 * ChannelCount
        \/ size(bytes) # 4 + bytes.header_len + bytes.header.payload_len + 4
  BY <1>4 DEF Malformed, kFramePrefixSize, kHeaderSize, kFrameCrcSize, kSampleBytes
<1> HIDE DEF n
<1>6. ASSUME ~Malformed(bytes)
      PROVE  n = ChannelCount /\ bytes.extra = 0
  <2>1. PICK x \in Nat, y \in Nat, z \in -7 .. 7 :
          x = n /\ y = ChannelCount /\ z = bytes.extra
    BY <1>1, <1>2 DEF n
  <2>2. /\ size(bytes) = 4 + bytes.header_len + bytes.header.payload_len + 4
        /\ bytes.header_len = 44 /\ bytes.header.payload_len = 8 * ChannelCount
    BY <1>5, <1>6
  <2>3. 52 + 8 * x + z = 4 + 44 + 8 * y + 4
    BY <1>3, <2>1, <2>2
  <2>4. x = y /\ z = 0
    BY <2>3
  <2> QED
    BY <2>1, <2>4
<1>7. ASSUME bytes.header_len = 44, bytes.header.payload_len = 8 * ChannelCount,
             n = ChannelCount, bytes.extra = 0
      PROVE  ~Malformed(bytes)
  BY <1>2, <1>3, <1>4, <1>5, <1>7 DEF n
<1> QED
  BY <1>4, <1>5, <1>6, <1>7 DEF n, kHeaderSize

LEMMA ValidIs ==
  ASSUME NEW bytes
  PROVE  validate_frame(bytes) = "kNone" <=>
           /\ ~FieldsWrong(bytes.header)
           /\ bytes.header.header_crc = HeaderCrc(HeaderBytes(bytes.header))
           /\ bytes.payload_crc = PayloadCrc(bytes.payload)
BY DEF validate_frame

\* What serialize_frame_into makes is taken ...
LEMMA SerializedParses ==
  ASSUME NEW bytes \in WireBytes, bytes \in Serialized
  PROVE  parse_frame_into(bytes) = "kNone"
<1>1. PICK tags \in Tags, rate \in 1 .. kMaxSampleRateHz,
           payload \in [1 .. ChannelCount -> Samples] :
        bytes = serialize_frame_into(Frame(tags, rate, payload))
  BY DEF Serialized
<1>2. payload \in Seq(Samples) /\ Len(payload) = ChannelCount
  BY FormatAssumption
<1> DEFINE h == WrittenHeader(tags, rate, ChannelCount)
<1>3. /\ bytes.header_len = kHeaderSize
      /\ bytes.header = [h EXCEPT !.header_crc = HeaderCrc(h)]
      /\ bytes.payload = payload
      /\ bytes.payload_crc = PayloadCrc(payload)
      /\ bytes.extra = 0
  <2>1. bytes = [header_len |-> kHeaderSize,
                 header |-> [h EXCEPT !.header_crc = HeaderCrc(h)],
                 payload |-> payload,
                 payload_crc |-> PayloadCrc(payload),
                 extra |-> 0]
    BY <1>1, <1>2, SerializedIs
  <2> HIDE DEF h
  <2> QED
    BY <2>1
<1>4. /\ bytes.header.payload_len = kPayloadBytes
      /\ ~FieldsWrong(bytes.header)
      /\ HeaderBytes(bytes.header) = h
      /\ bytes.header.header_crc = HeaderCrc(h)
  <2> DEFINE c == HeaderCrc(h)
             n == kPayloadBytes
             g == [magic |-> kFrameMagic, version |-> kProtocolVersion,
                   header_size |-> kHeaderSize, tags |-> tags,
                   channel_count |-> ChannelCount, sample_rate_hz |-> rate,
                   sample_format |-> kSampleFormat, payload_len |-> n,
                   header_crc |-> c]
  <2>1. bytes.header = [h EXCEPT !.header_crc = c]
    BY <1>3
  <2> HIDE DEF c, n
  <2>2. h = [g EXCEPT !.header_crc = 0] /\ bytes.header = g
    BY <2>1 DEF WrittenHeader, kPayloadBytes, n
  <2> HIDE DEF h
  <2>3. g.header_crc = c /\ [g EXCEPT !.header_crc = 0] = h
    BY <2>2
  <2>4. bytes.header.header_crc = c /\ HeaderBytes(bytes.header) = h
    BY <2>2, <2>3 DEF HeaderBytes
  <2>5. ~FieldsWrong(g) /\ g.payload_len = n
    BY DEF FieldsWrong, kMaxSampleRateHz
  <2> QED
    BY <2>2, <2>4, <2>5 DEF c, n
<1> HIDE DEF h
<1>5. ~Malformed(bytes)
  BY <1>2, <1>3, <1>4, SizesAgree
<1>6. validate_frame(bytes) = "kNone"
  BY <1>3, <1>4, ValidIs
<1> QED
  BY <1>5, <1>6 DEF parse_frame_into

\* ... and nothing else is.
LEMMA ParsedIsSerialized ==
  ASSUME NEW bytes \in WireBytes, parse_frame_into(bytes) = "kNone"
  PROVE  bytes \in Serialized
<1>1. /\ bytes.header_len = kHeaderSize /\ bytes.header.payload_len = kPayloadBytes
      /\ Len(bytes.payload) = ChannelCount /\ bytes.extra = 0
  BY SizesAgree DEF parse_frame_into
<1>2. /\ ~FieldsWrong(bytes.header)
      /\ bytes.header.header_crc = HeaderCrc(HeaderBytes(bytes.header))
      /\ bytes.payload_crc = PayloadCrc(bytes.payload)
  BY ValidIs DEF parse_frame_into
<1> DEFINE tags == bytes.header.tags
           rate == bytes.header.sample_rate_hz
           payload == bytes.payload
           h == WrittenHeader(tags, rate, ChannelCount)
<1>3. /\ tags \in Tags /\ payload \in Seq(Samples) /\ rate \in 1 .. kMaxSampleRateHz
  <2>1. tags \in Tags /\ payload \in Seq(Samples) /\ rate \in Nat
    BY DEF WireBytes
  <2>2. rate # 0 /\ ~(rate > kMaxSampleRateHz)
    BY <1>2 DEF FieldsWrong
  <2> HIDE DEF tags, payload, rate
  <2> QED
    BY <2>1, <2>2 DEF kMaxSampleRateHz
<1>4. payload \in [1 .. ChannelCount -> Samples]
  BY <1>1, <1>3
<1>5. HeaderBytes(bytes.header) = h
  BY <1>1, <1>2 DEF WireBytes, HeaderBytes, WrittenHeader, FieldsWrong, kPayloadBytes
<1>6. bytes.header = [h EXCEPT !.header_crc = HeaderCrc(h)]
  <2> DEFINE c == HeaderCrc(h)
  <2>1. bytes.header.header_crc = c
    BY <1>2, <1>5
  <2> HIDE DEF c
  <2>2. bytes.header = [h EXCEPT !.header_crc = c]
    BY <1>5, <2>1 DEF WireBytes, HeaderBytes
  <2> QED
    BY <2>2 DEF c
<1>7. bytes = [header_len |-> kHeaderSize,
               header |-> [h EXCEPT !.header_crc = HeaderCrc(h)],
               payload |-> payload,
               payload_crc |-> PayloadCrc(payload),
               extra |-> 0]
  <2> DEFINE g == [h EXCEPT !.header_crc = HeaderCrc(h)]
             c == PayloadCrc(payload)
  <2>1. bytes.header = g /\ bytes.payload_crc = c
    BY <1>2, <1>6
  <2> HIDE DEF g, c, h
  <2>2. bytes = [header_len |-> kHeaderSize, header |-> g, payload |-> payload,
                 payload_crc |-> c, extra |-> 0]
    BY <1>1, <2>1 DEF WireBytes
  <2> QED
    BY <2>2 DEF g, c
<1>8. bytes = serialize_frame_into(Frame(tags, rate, payload))
  <2> HIDE DEF tags, rate
  <2> QED
    BY <1>1, <1>7, SerializedIs
<1> QED
  BY <1>3, <1>4, <1>8 DEF Serialized

\* The parser takes exactly what the sender can make, whatever the two CRC
\* functions, the number of channels and the contents are.
THEOREM ParserExact == wire \in WireBytes => ParserIsExact
BY SerializedParses, ParsedIsSerialized DEF ParserIsExact

-----------------------------------------------------------------------------
(* The CRC.                                                                *)

\* Two loops of N rounds, and the rounds of one over the values S.
Over(f, N) == f = [n \in 0 .. N |-> f[n]]
Steps(N, S) == [1 .. N -> [S -> S]]
Runs(f, N, S, a, step) ==
  /\ f \in [0 .. N -> S]
  /\ f[0] = a
  /\ \A n \in 1 .. N : f[n] = step[n][f[n - 1]]

\* Two loops that start alike and step alike are alike.
LEMMA TwoLoops ==
  ASSUME NEW N \in Nat, NEW f, NEW g,
         Over(f, N), Over(g, N), f[0] = g[0],
         \A n \in 1 .. N : f[n - 1] = g[n - 1] => f[n] = g[n]
  PROVE  f = g
<1> DEFINE Differ == {n \in 0 .. N : f[n] # g[n]}
<1>1. SUFFICES ASSUME Differ # {} PROVE FALSE
  BY <1>1 DEF Over
<1>2. Differ \in SUBSET Nat
  OBVIOUS
<1>3. PICK n \in Differ : \A k \in Differ : n <= k
  <2> HIDE DEF Differ
  <2> QED
    BY <1>1, <1>2, LeastNumber
<1>4. n \in 1 .. N /\ n - 1 \in 0 .. N
  BY <1>3
<1>5. n - 1 \notin Differ
  BY <1>3, <1>4
<1> QED
  BY <1>3, <1>4, <1>5

\* A loop over a set of values runs.
LEMMA LoopRuns ==
  ASSUME NEW N \in Nat, NEW S, NEW a \in S, NEW step \in Steps(N, S)
  PROVE  \E f : Runs(f, N, S, a, step)
<1> DEFINE Fails == {m \in 0 .. N : ~ \E f : Runs(f, m, S, a, step)}
<1>1. SUFFICES ASSUME Fails # {} PROVE FALSE
  <2>1. N \in 0 .. N /\ N \notin Fails
    BY <1>1
  <2> QED
    BY <2>1
<1>2. Fails \in SUBSET Nat
  OBVIOUS
<1>3. PICK m \in Fails : \A k \in Fails : m <= k
  <2> HIDE DEF Fails
  <2> QED
    BY <1>1, <1>2, LeastNumber
<1>4. m # 0
  <2> DEFINE z == [n \in 0 .. 0 |-> a]
  <2>1. z \in [0 .. 0 -> S] /\ z[0] = a /\ 1 .. 0 = {}
    OBVIOUS
  <2>2. Runs(z, 0, S, a, step)
    BY <2>1 DEF Runs
  <2> QED
    BY <1>3, <2>1, <2>2
<1>5. m \in 1 .. N /\ m - 1 \in 0 .. N /\ m - 1 \notin Fails
  <2>1. m \in 0 .. N
    OBVIOUS
  <2> HIDE DEF Fails
  <2>2. m \in 1 .. N /\ m - 1 \in 0 .. N /\ ~ (m <= m - 1)
    BY <1>4, <2>1
  <2> QED
    BY <1>3, <2>2
<1>6. PICK f : Runs(f, m - 1, S, a, step)
  BY <1>5
<1> DEFINE g == [n \in 0 .. m |-> IF n = m THEN step[m][f[m - 1]] ELSE f[n]]
<1>7. g \in [0 .. m -> S]
  <2>1. f[m - 1] \in S
    BY <1>5, <1>6 DEF Runs
  <2>2. step[m] \in [S -> S]
    BY <1>5 DEF Steps
  <2>3. step[m][f[m - 1]] \in S
    BY <2>1, <2>2
  <2>4. \A n \in 0 .. m : n # m => n \in 0 .. m - 1
    BY <1>5
  <2> QED
    BY <1>6, <2>3, <2>4 DEF Runs
<1>8. Runs(g, m, S, a, step)
  <2>1. g[0] = a
    BY <1>5, <1>6 DEF Runs
  <2>2. ASSUME NEW n \in 1 .. m PROVE g[n] = step[n][g[n - 1]]
    <3>1. n - 1 \in 0 .. m /\ n - 1 # m
      BY <1>5
    <3>2. g[n - 1] = f[n - 1]
      BY <3>1
    <3>3. CASE n = m
      BY <3>2, <3>3
    <3>4. CASE n # m
      <4>1. n \in 1 .. m - 1
        BY <1>5, <3>4
      <4>2. f[n] = step[n][f[n - 1]]
        BY <1>6, <4>1 DEF Runs
      <4> QED
        BY <3>2, <3>4, <4>2
    <3> QED
      BY <3>3, <3>4
  <2> QED
    BY <1>7, <2>1, <2>2 DEF Runs
<1> QED
  BY <1>3, <1>8

-----------------------------------------------------------------------------
(* One byte.                                                               *)

LEMMA BitStepLinear ==
  ASSUME NEW x \in Words, NEW y \in Words
  PROVE  /\ x \oplus y \in Words
         /\ BitStep(x) \in Words
         /\ BitStep(x \oplus y) = BitStep(x) \oplus BitStep(y)
<1>1. x \oplus y \in Words
  BY DEF \oplus, Words
<1>2. BitStep(x) \in Words
  BY CrcAssumption DEF BitStep, ShiftRight, \oplus, Words
<1>3. ShiftRight(x \oplus y, 1) = ShiftRight(x, 1) \oplus ShiftRight(y, 1)
  BY DEF ShiftRight, \oplus
<1>4. (0 \in x \oplus y) <=> ~ (0 \in x <=> 0 \in y)
  BY DEF \oplus
<1>5. BitStep(x \oplus y) = BitStep(x) \oplus BitStep(y)
  <2>1. CASE 0 \in x
    BY <1>3, <1>4, <2>1 DEF BitStep, \oplus
  <2>2. CASE 0 \notin x
    BY <1>3, <1>4, <2>2 DEF BitStep, \oplus
  <2> QED
    BY <2>1, <2>2
<1> QED
  BY <1>1, <1>2, <1>5

LEMMA ByteStepLoop ==
  ASSUME NEW x \in Words
  PROVE  \E f \in [0 .. ByteBits -> Words] :
            /\ f[0] = x
            /\ \A n \in 1 .. ByteBits : f[n] = BitStep(f[n - 1])
            /\ ByteStep(x) = f[ByteBits]
<1> DEFINE step == [n \in 1 .. ByteBits |-> [w \in Words |-> BitStep(w)]]
           Solves(g) ==
             g = [n \in 0 .. ByteBits |-> IF n = 0 THEN x ELSE BitStep(g[n - 1])]
<1>1. ByteBits \in Nat
  BY CrcAssumption
<1>2. step \in Steps(ByteBits, Words)
  BY BitStepLinear DEF Steps
<1>3. PICK f : Runs(f, ByteBits, Words, x, step)
  <2> HIDE DEF step, Solves
  <2> QED
    BY <1>1, <1>2, LoopRuns
<1>4. \A n \in 1 .. ByteBits : f[n - 1] \in Words /\ f[n] = BitStep(f[n - 1])
  <2> SUFFICES ASSUME NEW n \in 1 .. ByteBits
               PROVE  f[n - 1] \in Words /\ f[n] = BitStep(f[n - 1])
    OBVIOUS
  <2>1. n - 1 \in 0 .. ByteBits
    BY <1>1
  <2> QED
    BY <1>3, <2>1 DEF Runs
<1>5. Solves(f)
  <2>1. \A n \in 0 .. ByteBits : n = 0 \/ n \in 1 .. ByteBits
    BY <1>1
  <2>2. \A n \in 0 .. ByteBits : f[n] = IF n = 0 THEN x ELSE BitStep(f[n - 1])
    BY <1>3, <1>4, <2>1 DEF Runs
  <2>3. f = [n \in 0 .. ByteBits |-> f[n]]
    BY <1>3 DEF Runs
  <2> QED
    BY <2>2, <2>3
<1> DEFINE g == CHOOSE h : Solves(h)
<1>6. Solves(g)
  BY <1>5
<1>7. ByteStep(x) = g[ByteBits]
  BY DEF ByteStep
<1> HIDE DEF g
<1>8. Over(f, ByteBits) /\ Over(g, ByteBits)
  <2>1. Over(f, ByteBits)
    BY <1>3 DEF Runs, Over
  <2>2. DOMAIN g = 0 .. ByteBits /\ g = [n \in DOMAIN g |-> g[n]]
    BY <1>6
  <2> QED
    BY <2>1, <2>2 DEF Over
<1>9. g[0] = f[0] /\ \A n \in 1 .. ByteBits : g[n] = BitStep(g[n - 1])
  <2>1. 0 \in 0 .. ByteBits /\ \A n \in 1 .. ByteBits : n \in 0 .. ByteBits /\ n # 0
    BY <1>1
  <2> QED
    BY <1>3, <1>6, <2>1 DEF Runs
<1>10. f = g
  <2> HIDE DEF Solves, step
  <2>1. f[0] = g[0] /\ \A n \in 1 .. ByteBits : f[n - 1] = g[n - 1] => f[n] = g[n]
    BY <1>3, <1>4, <1>9 DEF Runs
  <2> QED
    BY <1>1, <1>8, <2>1, TwoLoops
<1> QED
  BY <1>3, <1>4, <1>7, <1>10 DEF Runs

LEMMA ByteStepLinear ==
  ASSUME NEW x \in Words, NEW y \in Words
  PROVE  /\ ByteStep(x) \in Words
         /\ ByteStep(x \oplus y) = ByteStep(x) \oplus ByteStep(y)
<1> DEFINE Loop(w, f) == /\ f[0] = w
                         /\ \A n \in 1 .. ByteBits : f[n] = BitStep(f[n - 1])
                         /\ ByteStep(w) = f[ByteBits]
<1>1. ByteBits \in Nat /\ 0 \in 0 .. ByteBits /\ ByteBits \in 0 .. ByteBits
  BY CrcAssumption
<1>2. PICK f \in [0 .. ByteBits -> Words] : Loop(x, f)
  BY ByteStepLoop
<1>3. PICK g \in [0 .. ByteBits -> Words] : Loop(y, g)
  BY ByteStepLoop
<1>4. x \oplus y \in Words
  BY BitStepLinear
<1>5. PICK h \in [0 .. ByteBits -> Words] : Loop(x \oplus y, h)
  BY <1>4, ByteStepLoop
<1> DEFINE s == [n \in 0 .. ByteBits |-> f[n] \oplus g[n]]
<1>6. Over(h, ByteBits) /\ Over(s, ByteBits)
  BY DEF Over
<1>7. h[0] = s[0]
  BY <1>1, <1>2, <1>3, <1>5
<1>8. ASSUME NEW n \in 1 .. ByteBits, h[n - 1] = s[n - 1] PROVE h[n] = s[n]
  <2>1. n \in 0 .. ByteBits /\ n - 1 \in 0 .. ByteBits
    BY <1>1
  <2>2. BitStep(f[n - 1] \oplus g[n - 1]) = BitStep(f[n - 1]) \oplus BitStep(g[n - 1])
    BY <2>1, BitStepLinear
  <2>3. h[n - 1] = f[n - 1] \oplus g[n - 1]
    BY <1>8, <2>1
  <2>4. h[n] = f[n] \oplus g[n]
    BY <1>2, <1>3, <1>5, <2>2, <2>3
  <2> QED
    BY <2>1, <2>4
<1>9. h = s
  <2> HIDE DEF s
  <2>1. \A n \in 1 .. ByteBits : h[n - 1] = s[n - 1] => h[n] = s[n]
    BY <1>8
  <2> QED
    BY <1>1, <1>6, <1>7, <2>1, TwoLoops
<1>10. ByteStep(x \oplus y) = f[ByteBits] \oplus g[ByteBits]
  BY <1>1, <1>5, <1>9
<1> QED
  BY <1>1, <1>2, <1>3, <1>10

\* Without ones in the low byte, a byte step only shifts.
LEMMA ByteStepShifts ==
  ASSUME NEW x \in Words, Low(x) = {}
  PROVE  ByteStep(x) = Drop(x, 1)
<1>1. ByteBits \in Nat /\ 0 \in 0 .. ByteBits /\ ByteBits \in 0 .. ByteBits
  BY CrcAssumption
<1>2. PICK f \in [0 .. ByteBits -> Words] :
         /\ f[0] = x
         /\ \A n \in 1 .. ByteBits : f[n] = BitStep(f[n - 1])
         /\ ByteStep(x) = f[ByteBits]
  BY ByteStepLoop
<1> DEFINE s == [n \in 0 .. ByteBits |-> ShiftRight(x, n)]
<1>3. Over(f, ByteBits) /\ Over(s, ByteBits)
  BY DEF Over
<1>4. f[0] = s[0]
  <2>1. \A i \in Bits : i + 0 = i
    BY <1>1 DEF Bits
  <2>2. x \subseteq Bits
    BY DEF Words
  <2>3. ShiftRight(x, 0) = x
    BY <2>1, <2>2 DEF ShiftRight
  <2> QED
    BY <1>1, <1>2, <2>3
<1>5. ASSUME NEW n \in 1 .. ByteBits, f[n - 1] = s[n - 1] PROVE f[n] = s[n]
  <2>1. n \in 0 .. ByteBits /\ n - 1 \in 0 .. ByteBits
    BY <1>1
  <2>2. 0 \notin ShiftRight(x, n - 1)
    <3>1. n - 1 \notin x
      BY <1>1, <2>1 DEF Low
    <3> QED
      BY <2>1, <3>1 DEF ShiftRight
  <2>3. ShiftRight(ShiftRight(x, n - 1), 1) = ShiftRight(x, n)
    <3>1. ASSUME NEW i \in Bits, i + n \in x PROVE i + 1 \in Bits /\ (i + 1) + (n - 1) \in x
      <4>1. i \in Nat /\ i + n \in Bits
        BY <1>1, <3>1 DEF Words, Bits
      <4>2. (i + 1) + (n - 1) = i + n
        BY <1>1, <4>1
      <4> QED
        BY <1>1, <3>1, <4>1, <4>2 DEF Bits
    <3>2. ASSUME NEW i \in Bits, (i + 1) + (n - 1) \in x PROVE i + n \in x
      <4>1. (i + 1) + (n - 1) = i + n
        BY <1>1 DEF Bits
      <4> QED
        BY <3>2, <4>1
    <3> QED
      BY <3>1, <3>2 DEF ShiftRight
  <2>4. BitStep(ShiftRight(x, n - 1)) = ShiftRight(ShiftRight(x, n - 1), 1)
    BY <2>2 DEF BitStep, \oplus
  <2>5. f[n - 1] = ShiftRight(x, n - 1)
    BY <1>5, <2>1
  <2> QED
    BY <1>2, <2>1, <2>3, <2>4, <2>5
<1>6. f = s
  <2> HIDE DEF s
  <2>1. \A n \in 1 .. ByteBits : f[n - 1] = s[n - 1] => f[n] = s[n]
    BY <1>5
  <2> QED
    BY <1>1, <1>3, <1>4, <2>1, TwoLoops
<1>7. ShiftRight(x, ByteBits) = Drop(x, 1)
  BY <1>1 DEF Drop
<1> QED
  BY <1>1, <1>2, <1>6, <1>7

\* The step with the first table is a byte step.
LEMMA NextEntryIs ==
  ASSUME NEW x \in Words
  PROVE  /\ Low(x) \in Bytes
         /\ NextEntry(x) = ByteStep(x)
<1> DEFINE l == Low(x)
           h == x \ l
<1>1. ByteBits \in Nat
  BY CrcAssumption
<1>2. l \in Bytes /\ l \in Words /\ h \in Words /\ Low(h) = {}
  <2>1. x \subseteq Bits
    BY DEF Words
  <2>2. \A i \in x : i < ByteBits => i \in 0 .. ByteBits - 1
    BY <1>1, <2>1 DEF Bits
  <2>3. l \in Bytes
    BY <2>2 DEF Low, Bytes
  <2>4. l \in Words /\ h \in Words
    BY <2>1 DEF Low, Words
  <2>5. Low(h) = {}
    BY DEF Low
  <2> QED
    BY <2>3, <2>4, <2>5
<1>3. x = h \oplus l
  BY DEF Low, \oplus
<1>4. Drop(h, 1) = Drop(x, 1)
  <2>1. \A i \in Bits : i + 1 * ByteBits \notin l
    BY <1>1 DEF Low, Bits
  <2> QED
    BY <2>1 DEF Drop, ShiftRight
<1>5. FirstTable[l] = ByteStep(l)
  BY <1>2 DEF FirstTable
<1> HIDE DEF l, h
<1>6. ByteStep(h) = Drop(x, 1)
  BY <1>2, <1>4, ByteStepShifts
<1>7. ByteStep(x) = ByteStep(h) \oplus ByteStep(l)
  BY <1>2, <1>3, ByteStepLinear
<1>8. NextEntry(x) = Drop(x, 1) \oplus FirstTable[l]
  BY DEF NextEntry, l
<1> QED
  BY <1>2, <1>5, <1>6, <1>7, <1>8 DEF l

-----------------------------------------------------------------------------
(* Up to eight bytes.                                                      *)

\* Byte steps: ByteSteps(x)[k] is the word after k of them.
ByteStepEach == [n \in 1 .. 8 |-> [w \in Words |-> ByteStep(w)]]
ByteSteps(x) == CHOOSE f : Runs(f, 8, Words, x, ByteStepEach)

LEMMA ByteStepsRun ==
  ASSUME NEW x \in Words
  PROVE  /\ ByteSteps(x) \in [0 .. 8 -> Words]
         /\ ByteSteps(x)[0] = x
         /\ \A n \in 1 .. 8 : ByteSteps(x)[n] = ByteStep(ByteSteps(x)[n - 1])
<1>1. ByteStepEach \in Steps(8, Words)
  BY ByteStepLinear DEF ByteStepEach, Steps
<1>2. 8 \in Nat
  OBVIOUS
<1>3. \E f : Runs(f, 8, Words, x, ByteStepEach)
  BY <1>1, <1>2, LoopRuns
<1>4. Runs(ByteSteps(x), 8, Words, x, ByteStepEach)
  BY <1>3 DEF ByteSteps
<1>5. \A n \in 1 .. 8 : n - 1 \in 0 .. 8
  OBVIOUS
<1> QED
  BY <1>4, <1>5 DEF Runs, ByteStepEach

LEMMA ByteStepsLinear ==
  ASSUME NEW x \in Words, NEW y \in Words, NEW k \in 0 .. 8
  PROVE  ByteSteps(x \oplus y)[k] = ByteSteps(x)[k] \oplus ByteSteps(y)[k]
<1> DEFINE f == ByteSteps(x)
           g == ByteSteps(y)
           h == ByteSteps(x \oplus y)
           s == [n \in 0 .. 8 |-> f[n] \oplus g[n]]
<1>1. x \oplus y \in Words
  BY BitStepLinear
<1>2. /\ f \in [0 .. 8 -> Words] /\ f[0] = x
      /\ \A n \in 1 .. 8 : f[n] = ByteStep(f[n - 1])
  BY ByteStepsRun
<1>3. /\ g \in [0 .. 8 -> Words] /\ g[0] = y
      /\ \A n \in 1 .. 8 : g[n] = ByteStep(g[n - 1])
  BY ByteStepsRun
<1>4. /\ h \in [0 .. 8 -> Words] /\ h[0] = x \oplus y
      /\ \A n \in 1 .. 8 : h[n] = ByteStep(h[n - 1])
  BY <1>1, ByteStepsRun
<1> HIDE DEF f, g, h
<1>5. Over(h, 8) /\ Over(s, 8)
  BY <1>4 DEF Over
<1>6. h[0] = s[0]
  BY <1>2, <1>3, <1>4
<1>7. ASSUME NEW n \in 1 .. 8, h[n - 1] = s[n - 1] PROVE h[n] = s[n]
  <2>1. n \in 0 .. 8 /\ n - 1 \in 0 .. 8
    OBVIOUS
  <2>2. f[n - 1] \in Words /\ g[n - 1] \in Words
    BY <1>2, <1>3, <2>1
  <2>3. h[n - 1] = f[n - 1] \oplus g[n - 1]
    BY <1>7, <2>1
  <2>4. ByteStep(f[n - 1] \oplus g[n - 1]) = ByteStep(f[n - 1]) \oplus ByteStep(g[n - 1])
    BY <2>2, ByteStepLinear
  <2>5. h[n] = f[n] \oplus g[n]
    BY <1>2, <1>3, <1>4, <2>3, <2>4
  <2> QED
    BY <2>1, <2>5
<1>8. h = s
  <2> HIDE DEF s
  <2>1. \A n \in 1 .. 8 : h[n - 1] = s[n - 1] => h[n] = s[n]
    BY <1>7
  <2>2. 8 \in Nat
    OBVIOUS
  <2> QED
    BY <1>5, <1>6, <2>1, <2>2, TwoLoops
<1>9. h[k] = f[k] \oplus g[k]
  BY <1>8
<1> QED
  BY <1>9 DEF f, g, h

\* The first step taken apart from the rest.
LEMMA FirstByteStep ==
  ASSUME NEW x \in Words, NEW k \in 0 .. 7
  PROVE  ByteSteps(x)[k + 1] = ByteSteps(ByteStep(x))[k]
<1> DEFINE f == ByteSteps(x)
           g == ByteSteps(ByteStep(x))
           s == [n \in 0 .. 7 |-> f[n + 1]]
           t == [n \in 0 .. 7 |-> g[n]]
<1>1. ByteStep(x) \in Words
  BY ByteStepLinear
<1>2. f[0] = x /\ \A n \in 1 .. 8 : f[n] = ByteStep(f[n - 1])
  BY ByteStepsRun
<1>3. g[0] = ByteStep(x) /\ \A n \in 1 .. 8 : g[n] = ByteStep(g[n - 1])
  BY <1>1, ByteStepsRun
<1> HIDE DEF f, g
<1>4. Over(s, 7) /\ Over(t, 7)
  BY DEF Over
<1>5. s[0] = t[0]
  <2>1. f[1] = ByteStep(f[1 - 1]) /\ 1 - 1 = 0
    BY <1>2
  <2> QED
    BY <1>2, <1>3, <2>1
<1>6. ASSUME NEW n \in 1 .. 7, s[n - 1] = t[n - 1] PROVE s[n] = t[n]
  <2>1. n \in 0 .. 7 /\ n - 1 \in 0 .. 7 /\ n \in 1 .. 8 /\ n + 1 \in 1 .. 8
    OBVIOUS
  <2>2. (n - 1) + 1 = n /\ (n + 1) - 1 = n
    OBVIOUS
  <2>3. f[n] = g[n - 1]
    BY <1>6, <2>1, <2>2
  <2>4. f[n + 1] = ByteStep(f[n]) /\ g[n] = ByteStep(g[n - 1])
    BY <1>2, <1>3, <2>1, <2>2
  <2> QED
    BY <2>1, <2>3, <2>4
<1>7. s = t
  <2> HIDE DEF s, t
  <2>1. \A n \in 1 .. 7 : s[n - 1] = t[n - 1] => s[n] = t[n]
    BY <1>6
  <2>2. 7 \in Nat
    OBVIOUS
  <2> QED
    BY <1>4, <1>5, <2>1, <2>2, TwoLoops
<1>8. f[k + 1] = g[k]
  BY <1>7
<1> QED
  BY <1>8 DEF f, g

\* A byte that is not the low one comes down by one with a step.
LEMMA PlacesShift ==
  ASSUME NEW b \in Bytes
  PROVE  /\ b \in Words
         /\ Place(b, 1) \in Words /\ ByteStep(Place(b, 1)) = b
         /\ Place(b, 2) \in Words /\ ByteStep(Place(b, 2)) = Place(b, 1)
         /\ Place(b, 3) \in Words /\ ByteStep(Place(b, 3)) = Place(b, 2)
<1>1. ByteBits \in Nat \ {0}
  BY CrcAssumption
<1>2. b \subseteq 0 .. ByteBits - 1
  BY DEF Bytes
<1>3. b \in Words
  BY <1>1, <1>2 DEF Words, Bits
<1>4. Place(b, 1) \in Words /\ Place(b, 2) \in Words /\ Place(b, 3) \in Words
  BY DEF Place, Words
<1>5. Low(Place(b, 1)) = {} /\ Low(Place(b, 2)) = {} /\ Low(Place(b, 3)) = {}
  <2>1. \A i \in Bits : i < ByteBits => /\ i - 1 * ByteBits \notin 0 .. ByteBits - 1
                                       /\ i - 2 * ByteBits \notin 0 .. ByteBits - 1
                                       /\ i - 3 * ByteBits \notin 0 .. ByteBits - 1
    BY <1>1 DEF Bits
  <2> QED
    BY <1>2, <2>1 DEF Low, Place
<1>6. Drop(Place(b, 1), 1) = b
  <2>1. \A i \in Bits : i \in b => i + 1 * ByteBits \in Bits
    BY <1>1, <1>2 DEF Bits
  <2>2. \A i \in Bits : (i + 1 * ByteBits) - 1 * ByteBits = i
    BY <1>1 DEF Bits
  <2>3. b \subseteq Bits
    BY <1>3 DEF Words
  <2> QED
    BY <2>1, <2>2, <2>3 DEF Drop, ShiftRight, Place
<1>7. Drop(Place(b, 2), 1) = Place(b, 1)
  <2>1. \A i \in Bits : i - 1 * ByteBits \in b => i + 1 * ByteBits \in Bits
    BY <1>1, <1>2 DEF Bits
  <2>2. \A i \in Bits : (i + 1 * ByteBits) - 2 * ByteBits = i - 1 * ByteBits
    BY <1>1 DEF Bits
  <2> QED
    BY <2>1, <2>2 DEF Drop, ShiftRight, Place
<1>8. Drop(Place(b, 3), 1) = Place(b, 2)
  <2>1. \A i \in Bits : i - 2 * ByteBits \in b => i + 1 * ByteBits \in Bits
    BY <1>1, <1>2 DEF Bits
  <2>2. \A i \in Bits : (i + 1 * ByteBits) - 3 * ByteBits = i - 2 * ByteBits
    BY <1>1 DEF Bits
  <2> QED
    BY <2>1, <2>2 DEF Drop, ShiftRight, Place
<1> QED
  BY <1>3, <1>4, <1>5, <1>6, <1>7, <1>8, ByteStepShifts

LEMMA TablesAre ==
  ASSUME NEW k \in 0 .. 7, NEW b \in Bytes
  PROVE  kTables[k][b] = ByteSteps(b)[k + 1]
<1> DEFINE s == [n \in 0 .. 7 |-> [c \in Bytes |-> ByteSteps(c)[n + 1]]]
           Solves(t) == t = [n \in 0 .. 7 |->
                               IF n = 0 THEN FirstTable
                               ELSE [c \in Bytes |-> NextEntry(t[n - 1][c])]]
<1>1. ASSUME NEW c \in Bytes
      PROVE  /\ ByteSteps(c)[1] = FirstTable[c]
             /\ \A n \in 1 .. 7 : ByteSteps(c)[n + 1] = NextEntry(ByteSteps(c)[n])
  <2>1. c \in Words
    BY PlacesShift
  <2>2. /\ ByteSteps(c) \in [0 .. 8 -> Words] /\ ByteSteps(c)[0] = c
        /\ \A n \in 1 .. 8 : ByteSteps(c)[n] = ByteStep(ByteSteps(c)[n - 1])
    BY <2>1, ByteStepsRun
  <2>3. ByteSteps(c)[1] = ByteStep(c)
    <3>1. ByteSteps(c)[1] = ByteStep(ByteSteps(c)[1 - 1]) /\ 1 - 1 = 0
      BY <2>2
    <3> QED
      BY <2>2, <3>1
  <2>4. ASSUME NEW n \in 1 .. 7 PROVE ByteSteps(c)[n + 1] = NextEntry(ByteSteps(c)[n])
    <3>1. n \in 0 .. 8 /\ n + 1 \in 1 .. 8 /\ (n + 1) - 1 = n
      OBVIOUS
    <3>2. ByteSteps(c)[n] \in Words /\ ByteSteps(c)[n + 1] = ByteStep(ByteSteps(c)[n])
      BY <2>2, <3>1
    <3> QED
      BY <3>2, NextEntryIs
  <2> QED
    BY <2>3, <2>4 DEF FirstTable
<1>2. s[0] = FirstTable
  <2>1. FirstTable = [c \in Bytes |-> FirstTable[c]]
    BY DEF FirstTable
  <2>2. \A c \in Bytes : ByteSteps(c)[0 + 1] = FirstTable[c]
    BY <1>1
  <2>3. s[0] = [c \in Bytes |-> ByteSteps(c)[0 + 1]]
    OBVIOUS
  <2> QED
    BY <2>1, <2>2, <2>3
<1>3. ASSUME NEW n \in 1 .. 7 PROVE s[n] = [c \in Bytes |-> NextEntry(s[n - 1][c])]
  <2>1. n \in 0 .. 7 /\ n - 1 \in 0 .. 7 /\ (n - 1) + 1 = n
    OBVIOUS
  <2>2. s[n] = [c \in Bytes |-> ByteSteps(c)[n + 1]]
    BY <2>1
  <2>3. \A c \in Bytes : s[n - 1][c] = ByteSteps(c)[n]
    BY <2>1
  <2>4. \A c \in Bytes : ByteSteps(c)[n + 1] = NextEntry(s[n - 1][c])
    BY <1>1, <2>3
  <2> QED
    BY <2>2, <2>4
<1>4. Solves(s)
  <2> DEFINE r == [n \in 0 .. 7 |-> IF n = 0 THEN FirstTable
                                    ELSE [c \in Bytes |-> NextEntry(s[n - 1][c])]]
  <2>1. \A n \in 0 .. 7 : n = 0 \/ n \in 1 .. 7
    OBVIOUS
  <2>2. s = [n \in 0 .. 7 |-> s[n]] /\ r = [n \in 0 .. 7 |-> r[n]]
    OBVIOUS
  <2>3. ASSUME NEW n \in 0 .. 7 PROVE s[n] = r[n]
    <3>1. r[n] = IF n = 0 THEN FirstTable
                 ELSE [c \in Bytes |-> NextEntry(s[n - 1][c])]
      OBVIOUS
    <3> HIDE DEF s, r
    <3> QED
      BY <1>2, <1>3, <2>1, <3>1
  <2>4. s = r
    <3> HIDE DEF s, r
    <3> QED
      BY <2>2, <2>3
  <2> QED
    BY <2>4
<1> DEFINE t == CHOOSE u : Solves(u)
<1>5. Solves(t)
  BY <1>4
<1>6. kTables = t
  BY DEF kTables
<1> HIDE DEF t
<1>7. Over(s, 7) /\ Over(t, 7)
  <2>1. Over(s, 7)
    BY DEF Over
  <2>2. DOMAIN t = 0 .. 7 /\ t = [n \in DOMAIN t |-> t[n]]
    BY <1>5
  <2> QED
    BY <2>1, <2>2 DEF Over
<1>8. t[0] = FirstTable /\ \A n \in 1 .. 7 : t[n] = [c \in Bytes |-> NextEntry(t[n - 1][c])]
  <2>1. \A n \in 1 .. 7 : n \in 0 .. 7 /\ n # 0
    OBVIOUS
  <2> QED
    BY <1>5, <2>1
<1>9. t = s
  <2> HIDE DEF s, Solves
  <2>1. t[0] = s[0]
    BY <1>2, <1>8
  <2>2. \A n \in 1 .. 7 : t[n - 1] = s[n - 1] => t[n] = s[n]
    BY <1>3, <1>8
  <2>3. 7 \in Nat
    OBVIOUS
  <2> QED
    BY <1>7, <2>1, <2>2, <2>3, TwoLoops
<1> QED
  BY <1>6, <1>9

\* The order of exclusive ors does not matter.
LEMMA XorFacts ==
  ASSUME NEW x, NEW y, NEW z
  PROVE  /\ x \oplus y = y \oplus x
         /\ (x \oplus y) \oplus z = x \oplus (y \oplus z)
         /\ x \oplus {} = x
BY DEF \oplus

\* Bytes that meet no ones are joined as they are exclusive-ored.
LEMMA JoinedIs ==
  ASSUME NEW a \in Bytes, NEW b \in Bytes, NEW c \in Bytes, NEW d \in Bytes
  PROVE  a \cup Place(b, 1) \cup Place(c, 2) \cup Place(d, 3)
           = a \oplus Place(b, 1) \oplus Place(c, 2) \oplus Place(d, 3)
<1>1. ByteBits \in Nat \ {0}
  BY CrcAssumption
<1>2. /\ a \subseteq 0 .. ByteBits - 1 /\ b \subseteq 0 .. ByteBits - 1
      /\ c \subseteq 0 .. ByteBits - 1 /\ d \subseteq 0 .. ByteBits - 1
  BY DEF Bytes
<1>3. \A i \in Bits : /\ i \in a => i < ByteBits
                      /\ i - 1 * ByteBits \in b => ByteBits <= i /\ i < 2 * ByteBits
                      /\ i - 2 * ByteBits \in c => 2 * ByteBits <= i /\ i < 3 * ByteBits
                      /\ i - 3 * ByteBits \in d => 3 * ByteBits <= i
  BY <1>1, <1>2 DEF Bits
<1>4. \A i \in Bits : /\ i < ByteBits => i < 2 * ByteBits /\ ~ (ByteBits <= i)
                      /\ i < 2 * ByteBits => i < 3 * ByteBits /\ ~ (2 * ByteBits <= i)
                      /\ i < 3 * ByteBits => ~ (3 * ByteBits <= i)
  BY <1>1 DEF Bits
<1>5. a \subseteq Bits
  BY PlacesShift DEF Words
<1>6. \A i \in Bits : /\ ~ (i \in a /\ i \in Place(b, 1))
                      /\ ~ (i \in a /\ i \in Place(c, 2))
                      /\ ~ (i \in a /\ i \in Place(d, 3))
                      /\ ~ (i \in Place(b, 1) /\ i \in Place(c, 2))
                      /\ ~ (i \in Place(b, 1) /\ i \in Place(d, 3))
                      /\ ~ (i \in Place(c, 2) /\ i \in Place(d, 3))
  BY <1>3, <1>4 DEF Place
<1>7. Place(b, 1) \subseteq Bits /\ Place(c, 2) \subseteq Bits /\ Place(d, 3) \subseteq Bits
  BY DEF Place
<1> QED
  BY <1>5, <1>6, <1>7 DEF \oplus

\* A word is made of its four bytes.
LEMMA FourParts ==
  ASSUME NEW x \in Words
  PROVE  /\ \A k \in 0 .. 3 : Low(Drop(x, k)) \in Bytes
         /\ x = Low(Drop(x, 0)) \oplus Place(Low(Drop(x, 1)), 1)
                  \oplus Place(Low(Drop(x, 2)), 2) \oplus Place(Low(Drop(x, 3)), 3)
<1>1. ByteBits \in Nat \ {0}
  BY CrcAssumption
<1>2. x \subseteq Bits
  BY DEF Words
<1>3. ASSUME NEW k \in 0 .. 3 PROVE Low(Drop(x, k)) \in Bytes
  <2>1. Drop(x, k) \in Words
    BY DEF Drop, ShiftRight, Words
  <2> QED
    BY <2>1, NextEntryIs
<1> DEFINE a == Low(Drop(x, 0))
           b == Low(Drop(x, 1))
           c == Low(Drop(x, 2))
           d == Low(Drop(x, 3))
<1>4. \A i \in Bits : /\ i \in a <=> i \in x /\ i < ByteBits
                      /\ i \in Place(b, 1) <=> i \in x /\ ByteBits <= i /\ i < 2 * ByteBits
                      /\ i \in Place(c, 2) <=> i \in x /\ 2 * ByteBits <= i /\ i < 3 * ByteBits
                      /\ i \in Place(d, 3) <=> i \in x /\ 3 * ByteBits <= i
  <2> SUFFICES ASSUME NEW i \in Bits
               PROVE  /\ i \in a <=> i \in x /\ i < ByteBits
                      /\ i \in Place(b, 1) <=> i \in x /\ ByteBits <= i /\ i < 2 * ByteBits
                      /\ i \in Place(c, 2) <=> i \in x /\ 2 * ByteBits <= i /\ i < 3 * ByteBits
                      /\ i \in Place(d, 3) <=> i \in x /\ 3 * ByteBits <= i
    OBVIOUS
  <2>1. i \in Nat /\ i < 4 * ByteBits
    BY <1>1 DEF Bits
  <2>2. i \in a <=> i \in x /\ i < ByteBits
    <3>1. i + 0 * ByteBits = i
      BY <1>1, <2>1
    <3> QED
      BY <3>1 DEF Low, Drop, ShiftRight
  <2>3. i \in Place(b, 1) <=> i \in x /\ ByteBits <= i /\ i < 2 * ByteBits
    <3> DEFINE j == i - 1 * ByteBits
    <3>1. j + 1 * ByteBits = i /\ (j \in Bits <=> ByteBits <= i)
           /\ (j < ByteBits <=> i < 2 * ByteBits)
      BY <1>1, <2>1 DEF Bits
    <3>2. i \in Place(b, 1) <=> j \in b
      BY DEF Place
    <3>3. j \in b <=> j \in Bits /\ j + 1 * ByteBits \in x /\ j < ByteBits
      BY DEF Low, Drop, ShiftRight
    <3> QED
      BY <3>1, <3>2, <3>3
  <2>4. i \in Place(c, 2) <=> i \in x /\ 2 * ByteBits <= i /\ i < 3 * ByteBits
    <3> DEFINE j == i - 2 * ByteBits
    <3>1. j + 2 * ByteBits = i /\ (j \in Bits <=> 2 * ByteBits <= i)
           /\ (j < ByteBits <=> i < 3 * ByteBits)
      BY <1>1, <2>1 DEF Bits
    <3>2. i \in Place(c, 2) <=> j \in c
      BY DEF Place
    <3>3. j \in c <=> j \in Bits /\ j + 2 * ByteBits \in x /\ j < ByteBits
      BY DEF Low, Drop, ShiftRight
    <3> QED
      BY <3>1, <3>2, <3>3
  <2>5. i \in Place(d, 3) <=> i \in x /\ 3 * ByteBits <= i
    <3> DEFINE j == i - 3 * ByteBits
    <3>1. j + 3 * ByteBits = i /\ (j \in Bits <=> 3 * ByteBits <= i) /\ j < ByteBits
      BY <1>1, <2>1 DEF Bits
    <3>2. i \in Place(d, 3) <=> j \in d
      BY DEF Place
    <3>3. j \in d <=> j \in Bits /\ j + 3 * ByteBits \in x /\ j < ByteBits
      BY DEF Low, Drop, ShiftRight
    <3> QED
      BY <3>1, <3>2, <3>3
  <2> QED
    BY <2>2, <2>3, <2>4, <2>5
<1>5. \A i \in Bits : /\ i < ByteBits => i < 2 * ByteBits
                      /\ i < 2 * ByteBits => i < 3 * ByteBits
                      /\ i < ByteBits <=> ~ (ByteBits <= i)
                      /\ i < 2 * ByteBits <=> ~ (2 * ByteBits <= i)
                      /\ i < 3 * ByteBits <=> ~ (3 * ByteBits <= i)
  BY <1>1 DEF Bits
<1>6. /\ Place(b, 1) \subseteq Bits /\ Place(c, 2) \subseteq Bits
      /\ Place(d, 3) \subseteq Bits
  BY DEF Place
<1>7. a \subseteq Bits
  BY DEF Low, Drop, ShiftRight
<1> HIDE DEF a, b, c, d
<1>8. x = a \oplus Place(b, 1) \oplus Place(c, 2) \oplus Place(d, 3)
  <2> DEFINE b1 == Place(b, 1)
             c2 == Place(c, 2)
             d3 == Place(d, 3)
  <2>1. \A i \in Bits : i \in x <=> i \in a \oplus b1 \oplus c2 \oplus d3
    <3> HIDE DEF b1, c2, d3
    <3>1. \A i : i \in a \oplus b1 \oplus c2 \oplus d3
                   <=> ~ (~ (~ (i \in a <=> i \in b1) <=> i \in c2) <=> i \in d3)
      BY DEF \oplus
    <3> QED
      BY <1>4, <1>5, <3>1 DEF b1, c2, d3
  <2>2. a \oplus b1 \oplus c2 \oplus d3 \subseteq Bits
    <3> HIDE DEF b1, c2, d3
    <3>1. b1 \subseteq Bits /\ c2 \subseteq Bits /\ d3 \subseteq Bits
      BY <1>6 DEF b1, c2, d3
    <3> QED
      BY <1>7, <3>1 DEF \oplus
  <2> HIDE DEF b1, c2, d3
  <2>3. x = a \oplus b1 \oplus c2 \oplus d3
    BY <1>2, <2>1, <2>2
  <2> QED
    BY <2>3 DEF b1, c2, d3
<1> QED
  BY <1>3, <1>8 DEF a, b, c, d

LEMMA ByteStepOfFour ==
  ASSUME NEW w \in Words, NEW x \in Words, NEW y \in Words, NEW z \in Words
  PROVE  /\ w \oplus x \in Words
         /\ w \oplus x \oplus y \in Words
         /\ w \oplus x \oplus y \oplus z \in Words
         /\ ByteStep(w \oplus x \oplus y) = ByteStep(w) \oplus ByteStep(x) \oplus ByteStep(y)
         /\ ByteStep(w \oplus x \oplus y \oplus z)
              = ByteStep(w) \oplus ByteStep(x) \oplus ByteStep(y) \oplus ByteStep(z)
<1>1. w \oplus x \in Words
  BY BitStepLinear
<1>2. w \oplus x \oplus y \in Words
  BY <1>1, BitStepLinear
<1>3. w \oplus x \oplus y \oplus z \in Words
  BY <1>2, BitStepLinear
<1>4. ByteStep(w \oplus x) = ByteStep(w) \oplus ByteStep(x)
  BY ByteStepLinear
<1>5. ByteStep((w \oplus x) \oplus y) = ByteStep(w \oplus x) \oplus ByteStep(y)
  BY <1>1, ByteStepLinear
<1>6. ByteStep((w \oplus x \oplus y) \oplus z) = ByteStep(w \oplus x \oplus y) \oplus ByteStep(z)
  BY <1>2, ByteStepLinear
<1> QED
  BY <1>1, <1>2, <1>3, <1>4, <1>5, <1>6

\* Four bytes at once, set into the word: four steps from there.
LEMMA FourAtOnce ==
  ASSUME NEW w \in Words,
         NEW a \in Bytes, NEW b \in Bytes, NEW c \in Bytes, NEW d \in Bytes
  PROVE  LET lo == w \oplus (a \cup Place(b, 1) \cup Place(c, 2) \cup Place(d, 3))
             one == ByteStep(w \oplus a)
             two == ByteStep(one \oplus b)
             three == ByteStep(two \oplus c)
         IN  lo \in Words /\ ByteSteps(lo)[4] = ByteStep(three \oplus d)
<1> DEFINE lo == w \oplus (a \cup Place(b, 1) \cup Place(c, 2) \cup Place(d, 3))
           one == ByteStep(w \oplus a)
           two == ByteStep(one \oplus b)
           three == ByteStep(two \oplus c)
<1>1. /\ a \in Words
      /\ b \in Words /\ Place(b, 1) \in Words /\ ByteStep(Place(b, 1)) = b
      /\ c \in Words /\ Place(c, 1) \in Words /\ ByteStep(Place(c, 1)) = c
      /\ Place(c, 2) \in Words /\ ByteStep(Place(c, 2)) = Place(c, 1)
      /\ d \in Words /\ Place(d, 1) \in Words /\ ByteStep(Place(d, 1)) = d
      /\ Place(d, 2) \in Words /\ ByteStep(Place(d, 2)) = Place(d, 1)
      /\ Place(d, 3) \in Words /\ ByteStep(Place(d, 3)) = Place(d, 2)
  BY PlacesShift
<1>2. w \oplus a \in Words
  BY <1>1, BitStepLinear
<1>3. one \in Words /\ one \oplus b \in Words
  BY <1>1, <1>2, BitStepLinear, ByteStepLinear
<1>4. two \in Words /\ two \oplus c \in Words
  BY <1>1, <1>3, BitStepLinear, ByteStepLinear
<1>5. three \in Words /\ three \oplus d \in Words
  BY <1>1, <1>4, BitStepLinear, ByteStepLinear
<1>6. lo = (w \oplus a) \oplus Place(b, 1) \oplus Place(c, 2) \oplus Place(d, 3)
  <2> DEFINE b1 == Place(b, 1)
             c2 == Place(c, 2)
             d3 == Place(d, 3)
  <2>1. lo = w \oplus (a \oplus b1 \oplus c2 \oplus d3)
    <3>1. a \cup Place(b, 1) \cup Place(c, 2) \cup Place(d, 3)
            = a \oplus Place(b, 1) \oplus Place(c, 2) \oplus Place(d, 3)
      BY JoinedIs
    <3> QED
      BY <3>1
  <2> HIDE DEF b1, c2, d3, lo
  <2>2. w \oplus (a \oplus b1 \oplus c2 \oplus d3) = (w \oplus a) \oplus b1 \oplus c2 \oplus d3
    BY XorFacts
  <2>3. lo = (w \oplus a) \oplus b1 \oplus c2 \oplus d3
    BY <2>1, <2>2
  <2> QED
    BY <2>3 DEF b1, c2, d3
<1> HIDE DEF lo, one, two, three
<1>7. lo \in Words /\ ByteStep(lo) = (one \oplus b) \oplus Place(c, 1) \oplus Place(d, 2)
  BY <1>1, <1>2, <1>6, ByteStepOfFour DEF one
<1>8. ByteStep(ByteStep(lo)) = (two \oplus c) \oplus Place(d, 1)
  BY <1>1, <1>3, <1>7, ByteStepOfFour DEF two
<1>9. ByteStep(ByteStep(ByteStep(lo))) = three \oplus d
  BY <1>1, <1>4, <1>8, ByteStepLinear DEF three
<1>10. ByteSteps(lo)[4] = ByteStep(ByteStep(ByteStep(ByteStep(lo))))
  <2> DEFINE f == ByteSteps(lo)
  <2>1. f[0] = lo /\ \A n \in 1 .. 8 : f[n] = ByteStep(f[n - 1])
    BY <1>7, ByteStepsRun
  <2> HIDE DEF f
  <2>2. f[1] = ByteStep(f[0]) /\ f[2] = ByteStep(f[1])
    BY <2>1
  <2>3. f[3] = ByteStep(f[2]) /\ f[4] = ByteStep(f[3])
    BY <2>1
  <2> QED
    BY <2>1, <2>2, <2>3 DEF f
<1>11. lo \in Words /\ ByteSteps(lo)[4] = ByteStep(three \oplus d)
  BY <1>7, <1>9, <1>10
<1> QED
  BY <1>11 DEF lo, one, two, three

\* A byte more: one step more of each part.
LEMMA StepParts ==
  ASSUME NEW x \in Words, NEW k \in 0 .. 7
  PROVE  /\ ByteSteps(x)[k] \in Words
         /\ ByteSteps(x)[k + 1] \in Words
         /\ ByteStep(ByteSteps(x)[k]) = ByteSteps(x)[k + 1]
<1> DEFINE f == ByteSteps(x)
<1>1. f \in [0 .. 8 -> Words] /\ \A n \in 1 .. 8 : f[n] = ByteStep(f[n - 1])
  BY ByteStepsRun
<1> HIDE DEF f
<1>2. k \in 0 .. 8 /\ k + 1 \in 0 .. 8 /\ k + 1 \in 1 .. 8 /\ (k + 1) - 1 = k
  OBVIOUS
<1>3. f[k] \in Words /\ f[k + 1] \in Words /\ ByteStep(f[k]) = f[k + 1]
  BY <1>1, <1>2
<1> QED
  BY <1>3 DEF f

\* Eight steps from a word are the table entries of its bytes.
LEMMA EightStepsOf ==
  ASSUME NEW x \in Words
  PROVE  ByteSteps(x)[8] = kTables[7][Low(Drop(x, 0))] \oplus kTables[6][Low(Drop(x, 1))]
                             \oplus kTables[5][Low(Drop(x, 2))]
                             \oplus kTables[4][Low(Drop(x, 3))]
<1>1. PICK a \in Bytes, b \in Bytes, c \in Bytes, d \in Bytes :
         /\ a = Low(Drop(x, 0)) /\ b = Low(Drop(x, 1))
         /\ c = Low(Drop(x, 2)) /\ d = Low(Drop(x, 3))
         /\ x = a \oplus Place(b, 1) \oplus Place(c, 2) \oplus Place(d, 3)
  <2>1. 0 \in 0 .. 3 /\ 1 \in 0 .. 3 /\ 2 \in 0 .. 3 /\ 3 \in 0 .. 3
    OBVIOUS
  <2> QED
    BY <2>1, FourParts
<1>2. /\ a \in Words /\ b \in Words /\ c \in Words /\ d \in Words
      /\ Place(b, 1) \in Words /\ ByteStep(Place(b, 1)) = b
      /\ Place(c, 1) \in Words /\ ByteStep(Place(c, 1)) = c
      /\ Place(c, 2) \in Words /\ ByteStep(Place(c, 2)) = Place(c, 1)
      /\ Place(d, 1) \in Words /\ ByteStep(Place(d, 1)) = d
      /\ Place(d, 2) \in Words /\ ByteStep(Place(d, 2)) = Place(d, 1)
      /\ Place(d, 3) \in Words /\ ByteStep(Place(d, 3)) = Place(d, 2)
  BY PlacesShift
<1>3. ByteSteps(x)[8] = ByteSteps(a)[8] \oplus ByteSteps(Place(b, 1))[8]
                          \oplus ByteSteps(Place(c, 2))[8] \oplus ByteSteps(Place(d, 3))[8]
  <2>1. a \oplus Place(b, 1) \in Words /\ a \oplus Place(b, 1) \oplus Place(c, 2) \in Words
    BY <1>2, BitStepLinear
  <2>2. 8 \in 0 .. 8
    OBVIOUS
  <2>3. ByteSteps(a \oplus Place(b, 1))[8] = ByteSteps(a)[8] \oplus ByteSteps(Place(b, 1))[8]
    BY <1>2, <2>2, ByteStepsLinear
  <2>4. ByteSteps((a \oplus Place(b, 1)) \oplus Place(c, 2))[8]
          = ByteSteps(a \oplus Place(b, 1))[8] \oplus ByteSteps(Place(c, 2))[8]
    BY <1>2, <2>1, <2>2, ByteStepsLinear
  <2>5. ByteSteps((a \oplus Place(b, 1) \oplus Place(c, 2)) \oplus Place(d, 3))[8]
          = ByteSteps(a \oplus Place(b, 1) \oplus Place(c, 2))[8] \oplus ByteSteps(Place(d, 3))[8]
    BY <1>2, <2>1, <2>2, ByteStepsLinear
  <2> QED
    BY <1>1, <2>3, <2>4, <2>5
<1>4. \A w \in Words : /\ ByteSteps(w)[8] = ByteSteps(ByteStep(w))[7]
                       /\ ByteSteps(w)[7] = ByteSteps(ByteStep(w))[6]
                       /\ ByteSteps(w)[6] = ByteSteps(ByteStep(w))[5]
  <2> TAKE w \in Words
  <2>1. 5 \in 0 .. 7 /\ 6 \in 0 .. 7 /\ 7 \in 0 .. 7 /\ 5 + 1 = 6 /\ 6 + 1 = 7 /\ 7 + 1 = 8
    OBVIOUS
  <2>2. ByteSteps(w)[7 + 1] = ByteSteps(ByteStep(w))[7]
    BY <2>1, FirstByteStep
  <2>3. ByteSteps(w)[6 + 1] = ByteSteps(ByteStep(w))[6]
    BY <2>1, FirstByteStep
  <2>4. ByteSteps(w)[5 + 1] = ByteSteps(ByteStep(w))[5]
    BY <2>1, FirstByteStep
  <2> QED
    BY <2>1, <2>2, <2>3, <2>4
<1>5. /\ ByteSteps(Place(b, 1))[8] = ByteSteps(b)[7]
      /\ ByteSteps(Place(c, 2))[8] = ByteSteps(c)[6]
      /\ ByteSteps(Place(d, 3))[8] = ByteSteps(d)[5]
  BY <1>2, <1>4
<1>6. \A e \in Bytes : /\ kTables[7][e] = ByteSteps(e)[8]
                       /\ kTables[6][e] = ByteSteps(e)[7]
                       /\ kTables[5][e] = ByteSteps(e)[6]
                       /\ kTables[4][e] = ByteSteps(e)[5]
  <2> TAKE e \in Bytes
  <2>1. 4 \in 0 .. 7 /\ 5 \in 0 .. 7 /\ 6 \in 0 .. 7 /\ 7 \in 0 .. 7
    OBVIOUS
  <2>2. 4 + 1 = 5 /\ 5 + 1 = 6 /\ 6 + 1 = 7 /\ 7 + 1 = 8
    OBVIOUS
  <2>3. /\ kTables[7][e] = ByteSteps(e)[7 + 1]
        /\ kTables[6][e] = ByteSteps(e)[6 + 1]
        /\ kTables[5][e] = ByteSteps(e)[5 + 1]
        /\ kTables[4][e] = ByteSteps(e)[4 + 1]
    BY <2>1, TablesAre
  <2> QED
    BY <2>2, <2>3
<1> QED
  BY <1>1, <1>3, <1>5, <1>6

-----------------------------------------------------------------------------
(* The loops over the message.                                             *)

\* A round on eight bytes is eight byte steps.
LEMMA EightBytesAre ==
  ASSUME NEW m \in [1 .. 8 -> Bytes], NEW w \in [0 .. 8 -> Words], NEW p \in Nat,
         \A j \in 1 .. 8 : message[p + j] = m[j],
         \A j \in 1 .. 8 : w[j] = ByteStep(w[j - 1] \oplus m[j])
  PROVE  EightBytes(w[0], p) = w[8]
<1> DEFINE lo == w[0] \oplus (m[1] \cup Place(m[2], 1) \cup Place(m[3], 2) \cup Place(m[4], 3))
<1>1. /\ m[1] \in Bytes /\ m[2] \in Bytes /\ m[3] \in Bytes /\ m[4] \in Bytes
      /\ m[5] \in Bytes /\ m[6] \in Bytes /\ m[7] \in Bytes /\ m[8] \in Bytes
  OBVIOUS
<1>2. /\ m[5] \in Words /\ m[6] \in Words /\ m[7] \in Words /\ m[8] \in Words
  BY <1>1, PlacesShift
<1>3. /\ w[1] = ByteStep(w[0] \oplus m[1]) /\ w[2] = ByteStep(w[1] \oplus m[2])
      /\ w[3] = ByteStep(w[2] \oplus m[3]) /\ w[4] = ByteStep(w[3] \oplus m[4])
      /\ w[5] = ByteStep(w[4] \oplus m[5]) /\ w[6] = ByteStep(w[5] \oplus m[6])
      /\ w[7] = ByteStep(w[6] \oplus m[7]) /\ w[8] = ByteStep(w[7] \oplus m[8])
  OBVIOUS
<1>4. lo \in Words /\ ByteSteps(lo)[4] = w[4]
  <2>1. w[0] \in Words
    OBVIOUS
  <2> QED
    BY <1>1, <1>3, <2>1, FourAtOnce
<1>5. EightBytes(w[0], p)
        = kTables[7][Low(Drop(lo, 0))] \oplus kTables[6][Low(Drop(lo, 1))]
            \oplus kTables[5][Low(Drop(lo, 2))] \oplus kTables[4][Low(Drop(lo, 3))]
            \oplus kTables[3][m[5]] \oplus kTables[2][m[6]]
            \oplus kTables[1][m[7]] \oplus kTables[0][m[8]]
  <2>1. /\ message[p + 1] = m[1] /\ message[p + 2] = m[2]
        /\ message[p + 3] = m[3] /\ message[p + 4] = m[4]
    OBVIOUS
  <2>2. /\ message[p + 4 + 1] = m[5] /\ message[p + 5 + 1] = m[6]
        /\ message[p + 6 + 1] = m[7] /\ message[p + 7 + 1] = m[8]
    <3>1. p + 4 + 1 = p + 5 /\ p + 5 + 1 = p + 6 /\ p + 6 + 1 = p + 7 /\ p + 7 + 1 = p + 8
      OBVIOUS
    <3>2. /\ message[p + 5] = m[5] /\ message[p + 6] = m[6]
          /\ message[p + 7] = m[7] /\ message[p + 8] = m[8]
      OBVIOUS
    <3> QED
      BY <3>1, <3>2
  <2>3. /\ 7 - 0 = 7 /\ 7 - 1 = 6 /\ 7 - 2 = 5 /\ 7 - 3 = 4
        /\ 7 - 4 = 3 /\ 7 - 5 = 2 /\ 7 - 6 = 1 /\ 7 - 7 = 0
    OBVIOUS
  <2> QED
    BY <2>1, <2>2, <2>3 DEF EightBytes
<1> HIDE DEF lo
<1>6. \A x \in Words : \A k \in 0 .. 7 : /\ ByteSteps(x)[k] \in Words
                                         /\ ByteSteps(x)[k + 1] \in Words
                                         /\ ByteStep(ByteSteps(x)[k]) = ByteSteps(x)[k + 1]
  BY StepParts
<1> DEFINE s(x, k) == ByteSteps(x)[k]
<1>7. \A x \in Words : /\ s(x, 1) \in Words /\ s(x, 2) \in Words /\ s(x, 3) \in Words
                       /\ s(x, 4) \in Words /\ s(x, 5) \in Words /\ s(x, 6) \in Words
                       /\ s(x, 7) \in Words /\ s(x, 8) \in Words
                       /\ ByteStep(x) = s(x, 1)
                       /\ ByteStep(s(x, 1)) = s(x, 2) /\ ByteStep(s(x, 2)) = s(x, 3)
                       /\ ByteStep(s(x, 3)) = s(x, 4) /\ ByteStep(s(x, 4)) = s(x, 5)
                       /\ ByteStep(s(x, 5)) = s(x, 6) /\ ByteStep(s(x, 6)) = s(x, 7)
                       /\ ByteStep(s(x, 7)) = s(x, 8)
  <2> TAKE x \in Words
  <2>1. /\ 0 \in 0 .. 7 /\ 1 \in 0 .. 7 /\ 2 \in 0 .. 7 /\ 3 \in 0 .. 7
        /\ 4 \in 0 .. 7 /\ 5 \in 0 .. 7 /\ 6 \in 0 .. 7 /\ 7 \in 0 .. 7
    OBVIOUS
  <2>2. /\ 0 + 1 = 1 /\ 1 + 1 = 2 /\ 2 + 1 = 3 /\ 3 + 1 = 4
        /\ 4 + 1 = 5 /\ 5 + 1 = 6 /\ 6 + 1 = 7 /\ 7 + 1 = 8
    OBVIOUS
  <2>3. ByteSteps(x)[0] = x
    BY ByteStepsRun
  <2> QED
    BY <1>6, <2>1, <2>2, <2>3
<1> HIDE DEF s
<1>8. /\ w[0] \in Words /\ w[4] = s(lo, 4)
  BY <1>4 DEF s
<1>9. w[5] = s(lo, 5) \oplus s(m[5], 1)
  BY <1>2, <1>3, <1>4, <1>7, <1>8, ByteStepLinear
<1>10. w[6] = s(lo, 6) \oplus s(m[5], 2) \oplus s(m[6], 1)
  <2>1. s(lo, 5) \in Words /\ s(m[5], 1) \in Words
    BY <1>2, <1>4, <1>7
  <2>2. ByteStep(s(lo, 5) \oplus s(m[5], 1) \oplus m[6])
          = ByteStep(s(lo, 5)) \oplus ByteStep(s(m[5], 1)) \oplus ByteStep(m[6])
    BY <1>2, <2>1, ByteStepOfFour
  <2> QED
    BY <1>2, <1>3, <1>4, <1>7, <1>9, <2>2
<1>11. w[7] = s(lo, 7) \oplus s(m[5], 3) \oplus s(m[6], 2) \oplus s(m[7], 1)
  BY <1>2, <1>3, <1>4, <1>7, <1>10, ByteStepOfFour
<1>12. w[8] = s(lo, 8) \oplus s(m[5], 4) \oplus s(m[6], 3) \oplus s(m[7], 2) \oplus s(m[8], 1)
  <2> DEFINE x == s(lo, 7) \oplus s(m[5], 3) \oplus s(m[6], 2) \oplus s(m[7], 1)
  <2>1. x \in Words /\ ByteStep(x) = s(lo, 8) \oplus s(m[5], 4) \oplus s(m[6], 3) \oplus s(m[7], 2)
    BY <1>2, <1>4, <1>7, ByteStepOfFour
  <2>2. w[8] = ByteStep(x \oplus m[8])
    BY <1>3, <1>11
  <2> HIDE DEF x
  <2>3. ByteStep(x \oplus m[8]) = ByteStep(x) \oplus ByteStep(m[8])
    BY <1>2, <2>1, ByteStepLinear
  <2>4. ByteStep(m[8]) = s(m[8], 1)
    BY <1>2, <1>7
  <2> QED
    BY <2>1, <2>2, <2>3, <2>4
<1>13. s(lo, 8) = kTables[7][Low(Drop(lo, 0))] \oplus kTables[6][Low(Drop(lo, 1))]
            \oplus kTables[5][Low(Drop(lo, 2))] \oplus kTables[4][Low(Drop(lo, 3))]
  BY <1>4, EightStepsOf DEF s
<1>14. /\ kTables[3][m[5]] = s(m[5], 4) /\ kTables[2][m[6]] = s(m[6], 3)
       /\ kTables[1][m[7]] = s(m[7], 2) /\ kTables[0][m[8]] = s(m[8], 1)
  <2>1. 0 \in 0 .. 7 /\ 1 \in 0 .. 7 /\ 2 \in 0 .. 7 /\ 3 \in 0 .. 7
    OBVIOUS
  <2>2. 0 + 1 = 1 /\ 1 + 1 = 2 /\ 2 + 1 = 3 /\ 3 + 1 = 4
    OBVIOUS
  <2>3. /\ kTables[3][m[5]] = ByteSteps(m[5])[3 + 1]
        /\ kTables[2][m[6]] = ByteSteps(m[6])[2 + 1]
        /\ kTables[1][m[7]] = ByteSteps(m[7])[1 + 1]
        /\ kTables[0][m[8]] = ByteSteps(m[8])[0 + 1]
    BY <1>1, <2>1, TablesAre
  <2> QED
    BY <2>2, <2>3 DEF s
<1> QED
  BY <1>5, <1>12, <1>13, <1>14

\* The last loop makes a byte step, too.
LEMMA OneByteIs ==
  ASSUME NEW crc \in Words, NEW p \in Nat, message[p + 1] \in Bytes
  PROVE  OneByte(crc, p) = ByteStep(crc \oplus message[p + 1])
<1> DEFINE b == message[p + 1]
<1>1. ByteBits \in Nat \ {0}
  BY CrcAssumption
<1>2. b \in Bytes /\ b \in Words /\ b \subseteq 0 .. ByteBits - 1
  BY PlacesShift DEF Bytes
<1> HIDE DEF b
<1>3. crc \oplus b \in Words
  BY <1>2, BitStepLinear
<1>4. Low(crc \oplus b) \in Bytes /\ NextEntry(crc \oplus b) = ByteStep(crc \oplus b)
  BY <1>3, NextEntryIs
<1>5. Drop(crc \oplus b, 1) = Drop(crc, 1)
  <2>1. \A i \in Bits : i + 1 * ByteBits \notin b
    BY <1>1, <1>2 DEF Bits
  <2> QED
    BY <2>1 DEF Drop, ShiftRight, \oplus
<1>6. \A c \in Bytes : kTables[0][c] = FirstTable[c]
  <2> TAKE c \in Bytes
  <2>1. 0 \in 0 .. 7 /\ 0 + 1 = 1 /\ 1 \in 1 .. 8 /\ 1 - 1 = 0
    OBVIOUS
  <2>2. kTables[0][c] = ByteSteps(c)[0 + 1]
    BY <2>1, TablesAre
  <2>3. c \in Words
    BY PlacesShift
  <2>4. ByteSteps(c)[1] = ByteStep(ByteSteps(c)[1 - 1]) /\ ByteSteps(c)[0] = c
    BY <2>1, <2>3, ByteStepsRun
  <2> QED
    BY <2>1, <2>2, <2>4 DEF FirstTable
<1> QED
  BY <1>4, <1>5, <1>6 DEF OneByte, NextEntry, b

CrcTyping == message \in Seq(Bytes)

LEMMA AfterBytesRun ==
  ASSUME CrcTyping
  PROVE  /\ AfterBytes \in [0 .. Len(message) -> Words]
         /\ AfterBytes[0] = Bits
         /\ \A p \in 1 .. Len(message) :
               AfterBytes[p] = ByteStep(AfterBytes[p - 1] \oplus message[p])
<1>1. PICK N \in Nat : N = Len(message)
  BY DEF CrcTyping
<1>2. \A p \in 1 .. N : message[p] \in Bytes /\ message[p] \in Words
  BY <1>1, PlacesShift DEF CrcTyping
<1> DEFINE step == [p \in 1 .. N |-> [w \in Words |-> ByteStep(w \oplus message[p])]]
           Solves(g) ==
             g = [p \in 0 .. N |-> IF p = 0 THEN Bits ELSE ByteStep(g[p - 1] \oplus message[p])]
<1>3. step \in Steps(N, Words)
  <2>1. \A p \in 1 .. N : \A w \in Words : ByteStep(w \oplus message[p]) \in Words
    BY <1>2, BitStepLinear, ByteStepLinear
  <2> QED
    BY <2>1 DEF Steps
<1>4. Bits \in Words
  BY DEF Words
<1>5. PICK f : Runs(f, N, Words, Bits, step)
  <2> HIDE DEF step, Solves
  <2> QED
    BY <1>3, <1>4, LoopRuns
<1>6. \A p \in 1 .. N : f[p - 1] \in Words /\ f[p] = ByteStep(f[p - 1] \oplus message[p])
  <2> TAKE p \in 1 .. N
  <2>1. p - 1 \in 0 .. N
    OBVIOUS
  <2> QED
    BY <1>5, <2>1 DEF Runs
<1>7. Solves(f)
  <2>1. \A p \in 0 .. N : p = 0 \/ p \in 1 .. N
    OBVIOUS
  <2>2. \A p \in 0 .. N : f[p] = IF p = 0 THEN Bits ELSE ByteStep(f[p - 1] \oplus message[p])
    BY <1>5, <1>6, <2>1 DEF Runs
  <2>3. f = [p \in 0 .. N |-> f[p]]
    BY <1>5 DEF Runs
  <2> QED
    BY <2>2, <2>3
<1> DEFINE g == CHOOSE h : Solves(h)
<1>8. Solves(g)
  BY <1>7
<1>9. AfterBytes = g
  BY <1>1 DEF AfterBytes
<1> HIDE DEF g
<1>10. Over(f, N) /\ Over(g, N)
  <2>1. Over(f, N)
    BY <1>5 DEF Runs, Over
  <2>2. DOMAIN g = 0 .. N /\ g = [p \in DOMAIN g |-> g[p]]
    BY <1>8
  <2> QED
    BY <2>1, <2>2 DEF Over
<1>11. g[0] = f[0] /\ \A p \in 1 .. N : g[p] = ByteStep(g[p - 1] \oplus message[p])
  <2>1. 0 \in 0 .. N /\ \A p \in 1 .. N : p \in 0 .. N /\ p # 0
    OBVIOUS
  <2> QED
    BY <1>5, <1>8, <2>1 DEF Runs
<1>12. f = g
  <2> HIDE DEF Solves, step
  <2>1. f[0] = g[0] /\ \A p \in 1 .. N : f[p - 1] = g[p - 1] => f[p] = g[p]
    BY <1>6, <1>11
  <2> QED
    BY <1>10, <2>1, TwoLoops
<1> QED
  BY <1>1, <1>5, <1>6, <1>9, <1>12 DEF Runs

LEMMA AfterRoundsIs ==
  ASSUME CrcTyping
  PROVE  AfterRounds = AfterBytes[8 * Rounds]
<1>1. PICK R \in Nat, N \in Nat : R = Rounds /\ N = Len(message) /\ 8 * R <= N
  BY DEF CrcTyping, Rounds
<1>2. /\ AfterBytes \in [0 .. N -> Words] /\ AfterBytes[0] = Bits
      /\ \A p \in 1 .. N : AfterBytes[p] = ByteStep(AfterBytes[p - 1] \oplus message[p])
  BY <1>1, AfterBytesRun
<1> DEFINE f == [r \in 0 .. R |-> AfterBytes[8 * r]]
           Solves(g) ==
             g = [r \in 0 .. R |-> IF r = 0 THEN Bits ELSE EightBytes(g[r - 1], 8 * (r - 1))]
<1>3. ASSUME NEW r \in 1 .. R
      PROVE  AfterBytes[8 * r] = EightBytes(AfterBytes[8 * (r - 1)], 8 * (r - 1))
  <2>1. PICK p \in Nat : p = 8 * (r - 1) /\ p + 8 = 8 * r /\ p + 8 <= N
    BY <1>1
  <2> DEFINE m == [j \in 1 .. 8 |-> message[p + j]]
             w == [j \in 0 .. 8 |-> AfterBytes[p + j]]
  <2>2. m \in [1 .. 8 -> Bytes]
    <3>1. \A j \in 1 .. 8 : p + j \in 1 .. Len(message)
      BY <1>1, <2>1
    <3> QED
      BY <3>1 DEF CrcTyping
  <2>3. w \in [0 .. 8 -> Words]
    <3>1. \A j \in 0 .. 8 : p + j \in 0 .. N
      BY <2>1
    <3> QED
      BY <1>2, <3>1
  <2>4. \A j \in 1 .. 8 : message[p + j] = m[j]
    OBVIOUS
  <2>5. ASSUME NEW j \in 1 .. 8 PROVE w[j] = ByteStep(w[j - 1] \oplus m[j])
    <3>1. p + j \in 1 .. N /\ (p + j) - 1 = p + (j - 1) /\ j \in 0 .. 8 /\ j - 1 \in 0 .. 8
      BY <2>1
    <3>2. AfterBytes[p + j] = ByteStep(AfterBytes[(p + j) - 1] \oplus message[p + j])
      BY <1>2, <3>1
    <3>3. w[j] = AfterBytes[p + j] /\ w[j - 1] = AfterBytes[p + (j - 1)] /\ m[j] = message[p + j]
      BY <3>1
    <3> QED
      BY <3>1, <3>2, <3>3
  <2>6. w[0] = AfterBytes[p] /\ w[8] = AfterBytes[p + 8]
    BY <2>1
  <2>7. EightBytes(w[0], p) = w[8]
    <3> HIDE DEF m, w
    <3>1. \A j \in 1 .. 8 : w[j] = ByteStep(w[j - 1] \oplus m[j])
      BY <2>5
    <3> QED
      BY <2>2, <2>3, <2>4, <3>1, EightBytesAre
  <2> QED
    BY <2>1, <2>6, <2>7
<1>4. \A r \in 1 .. R : r \in 0 .. R /\ r - 1 \in 0 .. R /\ r # 0
  OBVIOUS
<1>5. f[0] = Bits /\ \A r \in 1 .. R : f[r] = EightBytes(f[r - 1], 8 * (r - 1))
  <2>1. 0 \in 0 .. R /\ 8 * 0 = 0
    OBVIOUS
  <2> QED
    BY <1>2, <1>3, <1>4, <2>1
<1>6. Solves(f)
  <2>1. \A r \in 0 .. R : r = 0 \/ r \in 1 .. R
    OBVIOUS
  <2>2. f = [r \in 0 .. R |-> f[r]]
    OBVIOUS
  <2> HIDE DEF f
  <2>3. \A r \in 0 .. R : f[r] = IF r = 0 THEN Bits ELSE EightBytes(f[r - 1], 8 * (r - 1))
    BY <1>5, <2>1
  <2> QED
    BY <2>2, <2>3
<1> DEFINE g == CHOOSE h : Solves(h)
<1>7. Solves(g)
  BY <1>6
<1>8. AfterRounds = g[R]
  BY <1>1 DEF AfterRounds
<1> HIDE DEF g
<1>9. Over(f, R) /\ Over(g, R)
  <2>1. Over(f, R)
    BY DEF Over
  <2>2. DOMAIN g = 0 .. R /\ g = [r \in DOMAIN g |-> g[r]]
    BY <1>7
  <2> QED
    BY <2>1, <2>2 DEF Over
<1>10. g[0] = Bits /\ \A r \in 1 .. R : g[r] = EightBytes(g[r - 1], 8 * (r - 1))
  BY <1>4, <1>7
<1>11. f[R] = AfterBytes[8 * R]
  OBVIOUS
<1>12. f = g
  <2> HIDE DEF f, Solves
  <2>1. f[0] = g[0] /\ \A r \in 1 .. R : f[r - 1] = g[r - 1] => f[r] = g[r]
    BY <1>5, <1>10
  <2> QED
    BY <1>9, <2>1, TwoLoops
<1> QED
  BY <1>1, <1>8, <1>11, <1>12

LEMMA crc32Is ==
  ASSUME CrcTyping
  PROVE  crc32 = Bits \ AfterBytes[Len(message)]
<1>1. PICK R \in Nat, N \in Nat, M \in Nat :
         R = 8 * Rounds /\ N = Len(message) /\ M = N - R
  BY DEF CrcTyping, Rounds
<1>2. /\ AfterBytes \in [0 .. N -> Words]
      /\ \A p \in 1 .. N : AfterBytes[p] = ByteStep(AfterBytes[p - 1] \oplus message[p])
  BY <1>1, AfterBytesRun
<1> DEFINE f == [n \in 0 .. M |-> AfterBytes[R + n]]
           Solves(g) ==
             g = [n \in 0 .. M |-> IF n = 0 THEN AfterRounds ELSE OneByte(g[n - 1], R + n - 1)]
<1>3. ASSUME NEW n \in 1 .. M
      PROVE  AfterBytes[R + n] = OneByte(AfterBytes[R + (n - 1)], R + n - 1)
  <2>1. PICK p \in Nat : p = R + n - 1 /\ p = R + (n - 1) /\ p + 1 = R + n /\ p + 1 \in 1 .. N
                          /\ p \in 0 .. N /\ (p + 1) - 1 = p
    BY <1>1
  <2>2. message[p + 1] \in Bytes
    BY <1>1, <2>1 DEF CrcTyping
  <2>3. AfterBytes[p] \in Words
    BY <1>2, <2>1
  <2>4. AfterBytes[p + 1] = ByteStep(AfterBytes[p] \oplus message[p + 1])
    BY <1>2, <2>1
  <2>5. OneByte(AfterBytes[p], p) = ByteStep(AfterBytes[p] \oplus message[p + 1])
    BY <2>2, <2>3, OneByteIs
  <2> QED
    BY <2>1, <2>4, <2>5
<1>4. \A n \in 1 .. M : n \in 0 .. M /\ n - 1 \in 0 .. M /\ n # 0
  OBVIOUS
<1>5. f[0] = AfterRounds /\ \A n \in 1 .. M : f[n] = OneByte(f[n - 1], R + n - 1)
  <2>1. 0 \in 0 .. M /\ R + 0 = R
    OBVIOUS
  <2>2. AfterRounds = AfterBytes[R]
    BY <1>1, AfterRoundsIs
  <2> QED
    BY <1>3, <1>4, <2>1, <2>2
<1>6. Solves(f)
  <2>1. \A n \in 0 .. M : n = 0 \/ n \in 1 .. M
    OBVIOUS
  <2>2. f = [n \in 0 .. M |-> f[n]]
    OBVIOUS
  <2> HIDE DEF f
  <2>3. \A n \in 0 .. M : f[n] = IF n = 0 THEN AfterRounds ELSE OneByte(f[n - 1], R + n - 1)
    BY <1>5, <2>1
  <2> QED
    BY <2>2, <2>3
<1> DEFINE g == CHOOSE h : Solves(h)
<1>7. Solves(g)
  BY <1>6
<1>8. crc32 = Bits \ g[M]
  BY <1>1 DEF crc32
<1> HIDE DEF g
<1>9. Over(f, M) /\ Over(g, M)
  <2>1. Over(f, M)
    BY DEF Over
  <2>2. DOMAIN g = 0 .. M /\ g = [n \in DOMAIN g |-> g[n]]
    BY <1>7
  <2> QED
    BY <2>1, <2>2 DEF Over
<1>10. g[0] = AfterRounds /\ \A n \in 1 .. M : g[n] = OneByte(g[n - 1], R + n - 1)
  BY <1>4, <1>7
<1>11. f[M] = AfterBytes[N]
  <2>1. M \in 0 .. M /\ R + M = N
    BY <1>1
  <2> QED
    BY <2>1
<1>12. f = g
  <2> HIDE DEF f, Solves
  <2>1. f[0] = g[0] /\ \A n \in 1 .. M : f[n - 1] = g[n - 1] => f[n] = g[n]
    BY <1>5, <1>10
  <2> QED
    BY <1>9, <2>1, TwoLoops
<1> QED
  BY <1>1, <1>8, <1>11, <1>12

\* crc32 is the CRC taken bit by bit, for bytes of every width, every
\* polynomial and messages of every length.
THEOREM CrcExact == CrcSpec => []CrcIsBitwise
<1>1. message = << >> => CrcTyping
  BY DEF CrcTyping
<1>2. CrcTyping /\ [AppendByte]_message => CrcTyping'
  BY DEF CrcTyping, AppendByte
<1>3. CrcTyping => CrcIsBitwise
  BY crc32Is DEF CrcIsBitwise
<1> QED
  BY <1>1, <1>2, <1>3, PTL DEF CrcSpec
=============================================================================
