---------------------------- MODULE LossDetector ----------------------------
(***************************************************************************)
(* The continuity check of receiver/loss_detector.cpp: every validated     *)
(* frame's frame_id is observed once, in the order of the TCP stream, and  *)
(* counted as an advance, a gap, a duplicate or a reordered frame.         *)
(*                                                                         *)
(* The peer chooses the ids, so any sequence of them may arrive.  They are *)
(* uint64 in the code and IdBits wide here; the sums that the code does on *)
(* ids wrap at that width.                                                 *)
(***************************************************************************)
EXTENDS Integers, Sequences, FiniteSets

CONSTANTS
  IdBits,        \* the width of a frame_id (64 in the code)
  MaxObserved    \* bound: how many frames are observed (expected_frames)

ASSUME DetectorAssumption ==
  /\ IdBits \in Nat \ {0}
  /\ 2 ^ IdBits \in Nat \ {0, 1}
  /\ MaxObserved \in Nat

VARIABLES
  seen_any,
  frame_count, first_frame_id, last_frame_id,      \* ContinuityStats
  gap_count, duplicate_count, reorder_count, missing_frame_count,
  observed     \* history: the ids, in the order they were observed

anomalies == <<gap_count, duplicate_count, reorder_count, missing_frame_count>>

stats == <<frame_count, first_frame_id, last_frame_id, anomalies>>

vars == <<seen_any, stats, observed>>

IdSpace == 2 ^ IdBits
Ids == 0 .. IdSpace - 1

Init ==
  /\ seen_any = FALSE
  /\ frame_count = 0
  /\ first_frame_id = 0
  /\ last_frame_id = 0
  /\ gap_count = 0
  /\ duplicate_count = 0
  /\ reorder_count = 0
  /\ missing_frame_count = 0
  /\ observed = << >>

\* Definitions named Variant_... are plausible mistakes, for checking that
\* the properties would notice them; no specification uses one.

First(frame_id) ==
  /\ ~seen_any
  /\ seen_any' = TRUE
  /\ first_frame_id' = frame_id
  /\ last_frame_id' = frame_id
  /\ frame_count' = 1
  /\ UNCHANGED anomalies

Duplicate(frame_id) ==
  /\ seen_any
  /\ frame_id = last_frame_id
  /\ frame_count' = frame_count + 1
  /\ duplicate_count' = duplicate_count + 1
  /\ UNCHANGED <<seen_any, first_frame_id, last_frame_id, gap_count,
                 reorder_count, missing_frame_count>>

Variant_Reorder_moves_last(frame_id) ==
  /\ seen_any
  /\ frame_id < last_frame_id
  /\ frame_count' = frame_count + 1
  /\ reorder_count' = reorder_count + 1
  /\ last_frame_id' = frame_id
  /\ UNCHANGED <<seen_any, first_frame_id, gap_count, duplicate_count,
                 missing_frame_count>>

\* The late frame is counted, and stays in missing_frame_count if it was
\* taken for missing before.
Reorder(frame_id) ==
  /\ seen_any
  /\ frame_id < last_frame_id
  /\ frame_count' = frame_count + 1
  /\ reorder_count' = reorder_count + 1
  /\ UNCHANGED <<seen_any, first_frame_id, last_frame_id, gap_count,
                 duplicate_count, missing_frame_count>>

Variant_Gap_counts_an_end(frame_id) == frame_id - last_frame_id

Gap(frame_id) == (frame_id - last_frame_id - 1) % IdSpace

Variant_IsGap_off_by_one(frame_id) == frame_id > (last_frame_id + 2) % IdSpace

IsGap(frame_id) == frame_id > (last_frame_id + 1) % IdSpace

Advance(frame_id) ==
  /\ seen_any
  /\ frame_id > last_frame_id
  /\ frame_count' = frame_count + 1
  /\ last_frame_id' = frame_id
  /\ IF IsGap(frame_id)
     THEN /\ gap_count' = gap_count + 1
          /\ missing_frame_count' = (missing_frame_count + Gap(frame_id)) % IdSpace
     ELSE UNCHANGED <<gap_count, missing_frame_count>>
  /\ UNCHANGED <<seen_any, first_frame_id, duplicate_count, reorder_count>>

observe(frame_id) ==
  /\ Len(observed) < MaxObserved
  /\ observed' = Append(observed, frame_id)
  /\ \/ First(frame_id)
     \/ Duplicate(frame_id)
     \/ Reorder(frame_id)
     \/ Advance(frame_id)

Next == \E frame_id \in Ids : observe(frame_id)

Spec == Init /\ [][Next]_vars
-----------------------------------------------------------------------------
\* Every variable has its type.
TypeOK ==
  /\ seen_any \in BOOLEAN
  /\ frame_count \in Nat
  /\ first_frame_id \in Ids
  /\ last_frame_id \in Ids
  /\ gap_count \in Nat
  /\ duplicate_count \in Nat
  /\ reorder_count \in Nat
  /\ missing_frame_count \in Ids
  /\ observed \in Seq(Ids)

\* The statistics account for the whole span of ids: every id from the first
\* to the last belongs to a frame that moved last_frame_id forward, or is
\* counted missing.  It takes all the counters to say so, and it is lost as
\* soon as one of the sums wraps.
SpanAccounted ==
  seen_any =>
    last_frame_id - first_frame_id + 1
      = frame_count - duplicate_count - reorder_count
          + missing_frame_count

\* The ids are consecutive.
Consecutive == \A k \in 1 .. Len(observed) : observed[k] = observed[1] + k - 1

NoAnomaly ==
  gap_count = 0 /\ duplicate_count = 0 /\ reorder_count = 0

\* No anomaly is counted exactly when the ids are consecutive: a gap cannot be
\* hidden by a duplicate, nor by a frame that comes late.
NoAnomalyIffConsecutive == NoAnomaly <=> Consecutive

Seen == {observed[k] : k \in 1 .. Len(observed)}

\* The ids of the span that never arrived.
Lost == (first_frame_id .. last_frame_id) \ Seen

\* missing_frame_count never understates a loss, and overstates it by at most
\* one for each late frame, which is counted as reordered but is not
\* subtracted.
MissingBoundsLoss ==
  seen_any =>
    /\ Cardinality(Lost) <= missing_frame_count
    /\ missing_frame_count <= Cardinality(Lost) + reorder_count
=============================================================================
