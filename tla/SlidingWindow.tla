----------------------------- MODULE SlidingWindow ----------------------------
(***************************************************************************)
(* The window of the latest samples and its percentiles (controller/src/   *)
(* sliding_window.cpp).  A percentile is computed on a copy taken under the*)
(* mutex, so it is an operator on a sequence of values.                    *)
(***************************************************************************)
EXTENDS Integers, Sequences, FiniteSets

CONSTANTS
  WindowCapacity,
  SmallWindows,    \* contents of windows, not empty, to ask for any percentile of
  LargeWindows     \* and contents to ask p50(), p95() and p99() of
ASSUME WindowAssumption ==
  /\ WindowCapacity \in Nat \ {0}
  /\ \A values \in SmallWindows \union LargeWindows : values \in Seq(Int) /\ values # <<>>

VARIABLE samples

WindowInit == samples = <<>>

(* Mutant of AddSample: one sample too many is dropped.                    *)
AddSampleShort(value) ==
  samples' = Append(IF Len(samples) >= WindowCapacity - 1 /\ samples # <<>>
                    THEN Tail(samples) ELSE samples, value)

AddSample(value) ==
  samples' = Append(IF Len(samples) = WindowCapacity THEN Tail(samples) ELSE samples, value)

(* Mutant of Rank: rounds down.                                            *)
RankDown(p, n) == (p * n) \div 100

(* std::ceil((p / 100) * n)                                                *)
Rank(p, n) == (p * n + 99) \div 100

(* std::sort: the sample in the k-th place has k - 1 others before it.  Of *)
(* two equal ones it does not matter which is first.                       *)
NotAfter(values, i, j) == values[i] < values[j] \/ (values[i] = values[j] /\ i <= j)
PlaceOf(values, j) == Cardinality({i \in DOMAIN values : NotAfter(values, i, j)})
Sorted(values) ==
  [k \in 1..Len(values) |-> values[CHOOSE j \in DOMAIN values : PlaceOf(values, j) = k]]

(* percentile(p) of values that are not empty, p a whole number of percent.*)
Percentile(values, p) ==
  LET sorted == Sorted(values)
      n      == Len(values)
      index  == IF Rank(p, n) < 1 THEN 0 ELSE Rank(p, n) - 1
  IN  IF p = 0 THEN sorted[1]
      ELSE sorted[(IF index < n - 1 THEN index ELSE n - 1) + 1]

-----------------------------------------------------------------------------
NotAbove(values, v) == Cardinality({i \in DOMAIN values : values[i] <= v})

IsNearestRank(values, p) ==
  LET v == Percentile(values, p)
  IN  /\ \E i \in DOMAIN values : values[i] = v
      /\ 100 * NotAbove(values, v) >= p * Len(values)
      /\ \A i \in DOMAIN values :
           values[i] < v => 100 * NotAbove(values, values[i]) < p * Len(values)

NearestRankOfGiven ==
  /\ \A values \in SmallWindows, p \in 0..100 : IsNearestRank(values, p)
  /\ \A values \in LargeWindows, p \in {50, 95, 99} : IsNearestRank(values, p)

(***************************************************************************)
(* percentile() is the nearest rank: the least sample such that at least p *)
(* percent of them are not above it.  For the window as it is, and for the *)
(* given contents, in any order, with equal samples, one sample, and sizes *)
(* at which the rank of p95 steps from one sample to the next.             *)
(***************************************************************************)
NearestRank ==
  /\ samples # <<>> => \A p \in {50, 95, 99} : IsNearestRank(samples, p)
  /\ NearestRankOfGiven
=============================================================================
