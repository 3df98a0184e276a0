---------------------------- MODULE AdmissionPolicy ---------------------------
(***************************************************************************)
(* The threshold policy that recommends how many requests may be in flight *)
(* (controller/src/admission_policy.cpp).  An evaluation classifies one    *)
(* sample of the service's metrics, moves the recommendation, and decides  *)
(* about one request.                                                      *)
(*                                                                         *)
(* Ratios and rates are in percent.  The history variables kind, quiet and *)
(* calm say what the recent samples were; the code does not keep them.     *)
(***************************************************************************)
EXTENDS Integers

CONSTANTS
  MinInflight, MaxInflight, MaxQueueSize,
  TargetP95, CriticalP95,        \* milliseconds
  MaxKvUsage, MaxGpuUsage,       \* percent
  MaxWaiting,
  RecoveryPct,                   \* recovery_ratio, in percent
  CooldownSamples,
  Samples,                       \* the metrics that may be sampled
  Counts                         \* what a caller may pass as a request counter

Metrics == [p95 : Int, kv : Int, gpu : Int, waiting : Int, errors : Int]

(* What the constructor checks.                                            *)
ASSUME PolicyAssumption ==
  /\ MinInflight \in Nat \ {0} /\ MaxInflight \in Nat /\ MinInflight <= MaxInflight
  /\ MaxQueueSize \in Nat
  /\ TargetP95 \in Nat \ {0} /\ CriticalP95 \in Nat /\ TargetP95 <= CriticalP95
  /\ MaxKvUsage \in 0..100 /\ MaxGpuUsage \in 0..100
  /\ MaxWaiting \in Nat
  /\ RecoveryPct \in 1..99
  /\ CooldownSamples \in Nat \ {0}
  /\ Samples \subseteq Metrics /\ Counts \subseteq Int

VARIABLES
  recommended,       \* recommended_max_inflight_
  cooldown,          \* cooldown_remaining_
  recoveries,        \* consecutive_recovery_samples_
  result,            \* what the last evaluation returned
  kind,              \* history: class of the last sample
  quiet,             \* history: samples since the last overload
  calm               \* history: recovery samples since the last other one

policyVars == <<recommended, cooldown, recoveries, result, kind, quiet, calm>>

(* Bounds of the two history counters: nothing distinguishes larger values.*)
MaxQuiet == 2 * CooldownSamples
MaxCalm  == CooldownSamples

PolicyInit ==
  /\ recommended = MaxInflight /\ cooldown = 0 /\ recoveries = 0
  /\ result = "none" /\ kind = "none" /\ quiet = 0 /\ calm = 0

-----------------------------------------------------------------------------
(***************************************************************************)
(* Classification of a sample                                              *)
(***************************************************************************)
SoftOverload(m) ==
  \/ m.p95 >= TargetP95
  \/ m.kv >= MaxKvUsage
  \/ m.gpu >= MaxGpuUsage
  \/ m.waiting >= MaxWaiting

CriticalOverload(m) ==
  m.p95 >= CriticalP95 \/ m.kv >= 98 \/ m.gpu >= 98 \/ m.errors >= 10

RecoverySample(m) ==
  /\ m.p95 * 100 < TargetP95 * RecoveryPct
  /\ m.kv * 100 < MaxKvUsage * RecoveryPct
  /\ m.gpu * 100 < MaxGpuUsage * RecoveryPct
  /\ m.waiting * 100 < MaxWaiting * RecoveryPct
  /\ m.errors < 1

Overload(m) == SoftOverload(m) \/ CriticalOverload(m)

-----------------------------------------------------------------------------
(* Mutant of AtLeastMin: no lower limit.                                   *)
AtLeastMinForgotten(n) == n

AtLeastMin(n) == IF n < MinInflight THEN MinInflight ELSE n
AtMostMax(n)  == IF n > MaxInflight THEN MaxInflight ELSE n

(* The three fields that update_recommendation assigns.                    *)
Fields(r, c, n) == [recommended |-> r, cooldown |-> c, recoveries |-> n]

(* Mutants of AfterOverload: the cooldown is not restarted; an overload    *)
(* during the cooldown lowers nothing.                                     *)
AfterOverloadUncooled(r) == Fields(AtLeastMin(r), cooldown, 0)
AfterOverloadOnce(r) ==
  Fields(IF cooldown > 0 THEN recommended ELSE AtLeastMin(r), CooldownSamples, 0)

AfterOverload(r) == Fields(AtLeastMin(r), CooldownSamples, 0)

(* Mutant of CooledDown: the cooldown never ends.                          *)
CooledDownNever == Fields(recommended, cooldown, recoveries)

CooledDown == Fields(recommended, cooldown - 1, recoveries)

Recovered ==
  IF recoveries + 1 >= CooldownSamples
  THEN Fields(AtMostMax(recommended + 1), cooldown, 0)
  ELSE Fields(recommended, cooldown, recoveries + 1)

(* Mutant of UpdateRecommendation: soft is tested before critical.         *)
UpdateRecommendationSoftFirst(m) ==
  IF SoftOverload(m) THEN AfterOverload(recommended - 1)
  ELSE IF CriticalOverload(m) THEN AfterOverload(recommended \div 2)
  ELSE IF cooldown > 0 THEN CooledDown
  ELSE IF RecoverySample(m) THEN Recovered
  ELSE Fields(recommended, cooldown, 0)

UpdateRecommendation(m) ==
  IF CriticalOverload(m) THEN AfterOverload(recommended \div 2)
  ELSE IF SoftOverload(m) THEN AfterOverload(recommended - 1)
  ELSE IF cooldown > 0 THEN CooledDown
  ELSE IF RecoverySample(m) THEN Recovered
  ELSE Fields(recommended, cooldown, 0)

(* The decision, taken with the recommendation already updated.            *)
Decision(m, inflight, queue) ==
  IF CriticalOverload(m) \/ queue >= MaxQueueSize THEN "Reject"
  ELSE IF SoftOverload(m) \/ inflight >= UpdateRecommendation(m).recommended THEN "Queue"
  ELSE "Admit"

-----------------------------------------------------------------------------
Class(m) ==
  IF CriticalOverload(m) THEN "critical"
  ELSE IF SoftOverload(m) THEN "soft"
  ELSE IF RecoverySample(m) THEN "recovery"
  ELSE "neutral"

CountTo(n, bound) == IF n < bound THEN n + 1 ELSE bound

(* evaluate() of a sample m and a request's counters.                      *)
Evaluate(m, inflight, queue) ==
  /\ inflight >= 0 /\ queue >= 0
  /\ LET new == UpdateRecommendation(m)
     IN  /\ recommended' = new.recommended
         /\ cooldown' = new.cooldown
         /\ recoveries' = new.recoveries
  /\ result' = Decision(m, inflight, queue)
  /\ kind' = Class(m)
  /\ quiet' = IF Overload(m) THEN 0 ELSE CountTo(quiet, MaxQuiet)
  /\ calm' = IF ~Overload(m) /\ RecoverySample(m) THEN CountTo(calm, MaxCalm) ELSE 0

(* evaluate() of a negative counter throws before it changes anything.     *)
EvaluateThrows(inflight, queue) ==
  /\ inflight < 0 \/ queue < 0
  /\ result' = "throws"
  /\ UNCHANGED <<recommended, cooldown, recoveries, kind, quiet, calm>>

EvaluateSample == \E m \in Samples, i \in Counts, q \in Counts : Evaluate(m, i, q)

PolicyNext ==
  EvaluateSample \/ \E i \in Counts, q \in Counts : EvaluateThrows(i, q)

PolicySpec == PolicyInit /\ [][PolicyNext]_policyVars

(* Samples keep coming: the controller polls the metrics.                  *)
FairPolicySpec == PolicySpec /\ WF_policyVars(EvaluateSample)

-----------------------------------------------------------------------------
(***************************************************************************)
(* The recommendation stays between min_inflight and max_inflight, and the *)
(* two counters within cooldown_samples, whatever is sampled.              *)
(***************************************************************************)
PolicyTypeOK ==
  /\ recommended \in MinInflight..MaxInflight
  /\ cooldown \in 0..CooldownSamples
  /\ recoveries \in 0..(CooldownSamples - 1)
  /\ result \in {"none", "throws", "Admit", "Queue", "Reject"}
  /\ kind \in {"none", "critical", "soft", "neutral", "recovery"}
  /\ quiet \in 0..MaxQuiet
  /\ calm \in 0..MaxCalm

(***************************************************************************)
(* No flapping: update_recommendation raises the recommendation only when  *)
(* the last 2 * cooldown_samples samples held no overload, of any kind, and*)
(* the last cooldown_samples of them were recovery samples without a break.*)
(***************************************************************************)
RaiseEarned ==
  [][recommended' > recommended => quiet' = MaxQuiet /\ calm' = MaxCalm]_policyVars

(***************************************************************************)
(* A worse sample, in any combination of metrics, never makes evaluate()   *)
(* recommend more, wait less before it recovers, or treat a request better.*)
(***************************************************************************)
NoWorse(m1, m2) ==
  /\ m1.p95 <= m2.p95 /\ m1.kv <= m2.kv /\ m1.gpu <= m2.gpu
  /\ m1.waiting <= m2.waiting /\ m1.errors <= m2.errors

Severity == [Admit |-> 0, Queue |-> 1, Reject |-> 2]

Monotone ==
  \A m1, m2 \in Samples :
    NoWorse(m1, m2) =>
      /\ UpdateRecommendation(m2).recommended <= UpdateRecommendation(m1).recommended
      /\ UpdateRecommendation(m2).cooldown >= UpdateRecommendation(m1).cooldown
      /\ \A i, q \in Counts :
           Severity[Decision(m2, i, q)] >= Severity[Decision(m1, i, q)]

(***************************************************************************)
(* A service that recovers for good gets its full limit back and keeps it. *)
(***************************************************************************)
Recovers == <>[](kind = "recovery") => <>[](recommended = MaxInflight)

(***************************************************************************)
(* A lasting critical overload brings the limit down to its minimum.       *)
(***************************************************************************)
Sheds == <>[](kind = "critical") => <>[](recommended = MinInflight)
=============================================================================
