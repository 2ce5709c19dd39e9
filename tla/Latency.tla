------------------------------ MODULE Latency -------------------------------
(***************************************************************************)
(* The statistics of app/services/observability.py: how many durations     *)
(* were measured, their average, their 50th and 95th percentile and the    *)
(* longest, all in whole milliseconds.                                     *)
(*                                                                         *)
(* The code computes in floats; here a rank is a whole number of           *)
(* hundredths and nothing is lost before the rounding.                     *)
(***************************************************************************)
EXTENDS Integers, Sequences, FiniteSets, SequencesExt

CONSTANTS MaxSample,  \* bound: durations in a sample, for the ASSUME
          MaxMs       \* bound: the longest of them

(* Python's round() of a / b: to the nearest, a half to the even side.     *)
RoundedQuotient(a, b) ==
  LET q == a \div b
      r == 2 * (a % b)
  IN  CASE r < b -> q
        [] r > b -> q + 1
        [] OTHER -> q + (q % 2)

(* Percentile p of a sorted sample by linear interpolation between the two *)
(* values around the rank (n - 1) * p / 100, which counts from zero.       *)
Percentile(sorted, p) ==
  LET k == (Len(sorted) - 1) * p
      f == k \div 100
      past == k % 100
  IN  IF past = 0
      THEN sorted[f + 1]
      ELSE RoundedQuotient(sorted[f + 1] * (100 - past) + sorted[f + 2] * past, 100)

NoStats == [count |-> 0]

StatsOfSorted(s) ==
  IF s = <<>> THEN NoStats
  ELSE [count |-> Len(s),
        avg   |-> RoundedQuotient(FoldSeq(+, 0, s), Len(s)),
        p50   |-> Percentile(s, 50),
        p95   |-> Percentile(s, 95),
        max   |-> s[Len(s)]]

(* sorted(): the same values, none after a greater one.                    *)
Sorted(values) ==
  LET places == 1 .. Len(values)
      order == CHOOSE p \in Bijection(places, places) :
                 \A i, j \in places : i <= j => values[p[i]] <= values[p[j]]
  IN  [i \in places |-> values[order[i]]]

LatencyStats(values) == StatsOfSorted(Sorted(values))

-----------------------------------------------------------------------------
(* The same without sorting: v is percentile p of the sample when, of its  *)
(* n values, as many as the rank rounded down and one more do not exceed   *)
(* v, and as many as are left above the rank rounded up are not below it.  *)
IsPercentile(values, p, v) ==
  LET n == Len(values)
      k == (n - 1) * p
      atMost == {i \in 1 .. n : values[i] <= v}
      atLeast == {i \in 1 .. n : values[i] >= v}
  IN  /\ Cardinality(atMost) >= k \div 100 + 1
      /\ Cardinality(atLeast) >= n - (k + 99) \div 100

(* What a reader of the statistics takes for granted.                      *)
AreStatsOf(stats, values) ==
  LET n == Len(values)
  IN  /\ stats.count = n
      /\ n > 0 =>
           /\ \A i \in 1 .. n : values[i] <= stats.max
           /\ \E i \in 1 .. n : values[i] = stats.max
           /\ IsPercentile(values, 50, stats.p50)
           /\ IsPercentile(values, 95, stats.p95)
           /\ stats.p50 <= stats.p95 /\ stats.p95 <= stats.max
           /\ 2 * n * stats.avg - 2 * FoldSeq(+, 0, values) \in -n .. n

(* Both agree on every small sample, in every order.                       *)
ASSUME PercentilesByRank ==
  \A n \in 0 .. MaxSample : \A values \in [1 .. n -> 0 .. MaxMs] :
    AreStatsOf(LatencyStats(values), values)
=============================================================================
