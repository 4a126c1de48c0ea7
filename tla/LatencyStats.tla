---------------------------- MODULE LatencyStats ----------------------------
(***************************************************************************)
(* common/latency_stats.cpp: the distribution of a duration, kept in one   *)
(* bucket per microsecond up to a limit and one more for everything above. *)
(* Its averages, maxima and 99.9th percentiles are in every metrics row.   *)
(* A quantile p is given in thousandths.                                   *)
(***************************************************************************)
EXTENDS Integers, Sequences, FiniteSets, FiniteSetsExt

CONSTANTS
  ExactRange,     \* kExactRangeUs
  MaxValue,       \* bound: the largest duration
  MaxSamples      \* bound: how many are added

ASSUME LatencyAssumption ==
  ExactRange \in Nat /\ MaxValue \in Nat /\ MaxSamples \in Nat

VARIABLES
  buckets, count, total, min_us, max_us,
  samples      \* history: the durations, in the order they were added

latency_vars == <<buckets, count, total, min_us, max_us, samples>>

LatencyInit ==
  /\ buckets = [b \in 0 .. ExactRange |-> 0]
  /\ count = 0
  /\ total = 0
  /\ min_us = 0
  /\ max_us = 0
  /\ samples = << >>

add(value) ==
  /\ buckets' = [buckets EXCEPT ![Min({value, ExactRange})] = @ + 1]
  /\ count' = count + 1
  /\ total' = total + value
  /\ min_us' = IF count = 0 THEN value ELSE Min({min_us, value})
  /\ max_us' = IF count = 0 THEN value ELSE Max({max_us, value})
  /\ samples' = Append(samples, value)

average == IF count = 0 THEN 0 ELSE total \div count

\* (count_ - 1) * p + 0.5, truncated.
Rank(p) == (2 * (count - 1) * p + 1000) \div 2000

\* The sum of the buckets up to one, as the loop adds them.
Cumulative[bucket \in 0 .. ExactRange] ==
  (IF bucket = 0 THEN 0 ELSE Cumulative[bucket - 1]) + buckets[bucket]

\* Definitions named Variant_... are plausible mistakes, for checking that
\* the properties would notice them; no specification uses one.
Variant_Bucket_reached(p) ==
  Min({b \in 0 .. ExactRange : Cumulative[b] >= Rank(p)})

\* The first bucket at which the loop stops.
Bucket(p) == Min({b \in 0 .. ExactRange : Cumulative[b] > Rank(p)})

percentile(p) ==
  CASE count = 0              -> 0
    [] count > 0 /\ p <= 0    -> min_us
    [] count > 0 /\ p >= 1000 -> max_us
    [] OTHER -> IF Bucket(p) = ExactRange THEN max_us ELSE Bucket(p)

AddSample ==
  /\ Len(samples) < MaxSamples
  /\ \E value \in 0 .. MaxValue : add(value)

LatencySpec == LatencyInit /\ [][AddSample]_latency_vars
-----------------------------------------------------------------------------
Quantiles == {0, 250, 500, 900, 999, 1000}

CountBelow(v) == Cardinality({k \in 1 .. Len(samples) : samples[k] < v})
CountUpTo(v) == Cardinality({k \in 1 .. Len(samples) : samples[k] <= v})

\* v is the sample of rank r (from 0) when the samples are sorted.
IsRanked(v, r) == CountBelow(v) <= r /\ r < CountUpTo(v)

\* A reported percentile is the sample of its rank; where that sample is above
\* the limit it is the maximum instead: a latency is never understated, and
\* higher quantiles never report less.
PercentileIsExact ==
  samples # << >> =>
    /\ \A p \in Quantiles : \E k \in 1 .. Len(samples) :
         /\ IsRanked(samples[k], Rank(p))
         /\ \/ percentile(p) = samples[k]
            \/ samples[k] >= ExactRange /\ percentile(p) = max_us
    /\ \A p, q \in Quantiles : p <= q => percentile(p) <= percentile(q)
=============================================================================
