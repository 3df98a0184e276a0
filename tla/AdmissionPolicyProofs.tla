------------------------ MODULE AdmissionPolicyProofs -------------------------
(***************************************************************************)
(* Proofs about AdmissionPolicy, for every configuration that the          *)
(* constructor accepts and any samples.                                    *)
(***************************************************************************)
EXTENDS AdmissionPolicy, TLAPS

(* Updating yields fields within their bounds.                             *)
LEMMA UpdateTyped ==
  ASSUME PolicyTypeOK, NEW m \in Metrics
  PROVE  LET new == UpdateRecommendation(m)
         IN  /\ new.recommended \in MinInflight..MaxInflight
             /\ new.cooldown \in 0..CooldownSamples
             /\ new.recoveries \in 0..(CooldownSamples - 1)
<1>1. /\ MinInflight \in Nat \ {0} /\ MaxInflight \in Nat /\ MinInflight <= MaxInflight
      /\ CooldownSamples \in Nat \ {0}
  BY PolicyAssumption
<1>2. /\ recommended \in MinInflight..MaxInflight /\ cooldown \in 0..CooldownSamples
      /\ recoveries \in 0..(CooldownSamples - 1)
  BY DEF PolicyTypeOK
<1>3. /\ AtLeastMin(recommended \div 2) \in MinInflight..MaxInflight
      /\ AtLeastMin(recommended - 1) \in MinInflight..MaxInflight
      /\ AtMostMax(recommended + 1) \in MinInflight..MaxInflight
  BY <1>1, <1>2 DEF AtLeastMin, AtMostMax
<1>4. CASE CriticalOverload(m) \/ SoftOverload(m)
  BY <1>1, <1>3, <1>4 DEF UpdateRecommendation, AfterOverload, Fields
<1>5. CASE ~CriticalOverload(m) /\ ~SoftOverload(m) /\ cooldown > 0
  BY <1>1, <1>2, <1>5 DEF UpdateRecommendation, CooledDown, Fields
<1>6. CASE ~CriticalOverload(m) /\ ~SoftOverload(m) /\ ~(cooldown > 0)
  BY <1>1, <1>2, <1>3, <1>6 DEF UpdateRecommendation, Recovered, Fields
<1> QED BY <1>4, <1>5, <1>6

(* The history counters that an evaluation leaves are within their bounds. *)
LEMMA HistoryTyped ==
  ASSUME NEW bound \in Nat, NEW n \in 0..bound
  PROVE  CountTo(n, bound) \in 0..bound
BY DEF CountTo

LEMMA PolicyTypeStep == PolicyTypeOK /\ [PolicyNext]_policyVars => PolicyTypeOK'
<1> SUFFICES ASSUME PolicyTypeOK, [PolicyNext]_policyVars PROVE PolicyTypeOK'
  OBVIOUS
<1>1. ASSUME NEW m \in Samples, NEW i \in Counts, NEW q \in Counts, Evaluate(m, i, q)
      PROVE  PolicyTypeOK'
  <2>1. m \in Metrics
    BY PolicyAssumption
  <2>2. /\ recommended' \in MinInflight..MaxInflight
        /\ cooldown' \in 0..CooldownSamples
        /\ recoveries' \in 0..(CooldownSamples - 1)
    BY <1>1, <2>1, UpdateTyped DEF Evaluate
  <2>3. /\ result' \in {"none", "throws", "Admit", "Queue", "Reject"}
        /\ kind' \in {"none", "critical", "soft", "neutral", "recovery"}
    BY <1>1 DEF Evaluate, Decision, Class
  <2>4. quiet' \in 0..MaxQuiet /\ calm' \in 0..MaxCalm
    <3>1. MaxQuiet \in Nat /\ MaxCalm \in Nat
      BY PolicyAssumption DEF MaxQuiet, MaxCalm
    <3>2. CountTo(quiet, MaxQuiet) \in 0..MaxQuiet /\ CountTo(calm, MaxCalm) \in 0..MaxCalm
      BY <3>1, HistoryTyped DEF PolicyTypeOK
    <3> QED BY <1>1, <3>1, <3>2 DEF Evaluate
  <2> QED BY <2>2, <2>3, <2>4 DEF PolicyTypeOK, MaxQuiet, MaxCalm
<1>2. ASSUME NEW i \in Counts, NEW q \in Counts, EvaluateThrows(i, q)
      PROVE  PolicyTypeOK'
  BY <1>2 DEF EvaluateThrows, PolicyTypeOK, MaxQuiet, MaxCalm
<1>3. CASE UNCHANGED policyVars
  BY <1>3 DEF policyVars, PolicyTypeOK, MaxQuiet, MaxCalm
<1> QED BY <1>1, <1>2, <1>3 DEF PolicyNext, EvaluateSample

(* evaluate() keeps the recommendation between min_inflight and            *)
(* max_inflight and its counters within cooldown_samples.                  *)
THEOREM PolicyTypeCorrect == PolicySpec => []PolicyTypeOK
<1>1. PolicyInit => PolicyTypeOK
  BY PolicyAssumption DEF PolicyInit, PolicyTypeOK, MaxQuiet, MaxCalm
<1> QED BY <1>1, PolicyTypeStep, PTL DEF PolicySpec

-----------------------------------------------------------------------------
(***************************************************************************)
(* While the recommendation is below its maximum, an overload lies behind  *)
(* it: every sample since then either took one off the cooldown or, after  *)
(* that, may have counted as a recovery.                                   *)
(***************************************************************************)
QuietCounts ==
  /\ calm >= recoveries
  /\ cooldown > 0 => recoveries = 0
  /\ recommended < MaxInflight =>
       quiet = MaxQuiet \/ quiet >= CooldownSamples - cooldown + recoveries

PolicyInv == PolicyTypeOK /\ QuietCounts

LEMMA QuietStep ==
  ASSUME PolicyInv, [PolicyNext]_policyVars
  PROVE  /\ QuietCounts'
         /\ recommended' > recommended => quiet' = MaxQuiet /\ calm' = MaxCalm
<1> DEFINE Goal == /\ QuietCounts'
                   /\ recommended' > recommended => quiet' = MaxQuiet /\ calm' = MaxCalm
<1>1. /\ MinInflight \in Nat \ {0} /\ MaxInflight \in Nat /\ MinInflight <= MaxInflight
      /\ CooldownSamples \in Nat \ {0}
  BY PolicyAssumption
<1>2. /\ recommended \in MinInflight..MaxInflight /\ cooldown \in 0..CooldownSamples
      /\ recoveries \in 0..(CooldownSamples - 1)
      /\ quiet \in 0..(2 * CooldownSamples) /\ calm \in 0..CooldownSamples
  BY DEF PolicyInv, PolicyTypeOK, MaxQuiet, MaxCalm
<1>3. /\ calm >= recoveries
      /\ cooldown > 0 => recoveries = 0
      /\ recommended < MaxInflight =>
           \/ quiet = 2 * CooldownSamples
           \/ quiet >= CooldownSamples - cooldown + recoveries
  BY DEF PolicyInv, QuietCounts, MaxQuiet
<1>4. ASSUME NEW m \in Samples, NEW i \in Counts, NEW q \in Counts, Evaluate(m, i, q)
      PROVE  Goal
  <2>1. CASE Overload(m)
    <3>1. /\ recommended' = AtLeastMin(recommended \div 2)
             \/ recommended' = AtLeastMin(recommended - 1)
          /\ cooldown' = CooldownSamples /\ recoveries' = 0
      BY <1>4, <2>1 DEF Evaluate, UpdateRecommendation, AfterOverload, Fields, Overload
    <3>2. quiet' = 0 /\ calm' = 0
      BY <1>4, <2>1 DEF Evaluate
    <3>3. ~(recommended' > recommended)
      BY <3>1, <1>1, <1>2 DEF AtLeastMin
    <3> QED BY <3>1, <3>2, <3>3, <1>1, <1>2 DEF QuietCounts
  <2>2. CASE ~Overload(m) /\ cooldown > 0
    <3>1. recommended' = recommended /\ cooldown' = cooldown - 1 /\ recoveries' = recoveries
      BY <1>4, <2>2 DEF Evaluate, UpdateRecommendation, CooledDown, Fields, Overload
    <3>2. quiet' = CountTo(quiet, MaxQuiet) /\ (calm' = CountTo(calm, MaxCalm) \/ calm' = 0)
      BY <1>4, <2>2 DEF Evaluate
    <3>3. calm' >= recoveries'
      BY <1>1, <1>2, <1>3, <2>2, <3>1, <3>2 DEF CountTo, MaxCalm
    <3> QED BY <1>1, <1>2, <1>3, <2>2, <3>1, <3>2, <3>3 DEF QuietCounts, CountTo, MaxQuiet
  <2>3. CASE ~Overload(m) /\ ~(cooldown > 0) /\ RecoverySample(m)
    <3>1. /\ recommended' = Recovered.recommended
          /\ cooldown' = Recovered.cooldown
          /\ recoveries' = Recovered.recoveries
      BY <1>4, <2>3 DEF Evaluate, UpdateRecommendation, Overload
    <3>2. quiet' = CountTo(quiet, MaxQuiet) /\ calm' = CountTo(calm, MaxCalm)
      BY <1>4, <2>3 DEF Evaluate
    <3>3. CASE recoveries + 1 >= CooldownSamples
      <4>1. /\ recommended' = AtMostMax(recommended + 1)
            /\ cooldown' = cooldown /\ recoveries' = 0
        BY <3>1, <3>3 DEF Recovered, Fields
      <4>2. recommended < MaxInflight => quiet' = MaxQuiet
        BY <1>1, <1>2, <1>3, <2>3, <3>2, <3>3 DEF CountTo, MaxQuiet
      <4>3. calm' = MaxCalm
        BY <1>1, <1>2, <1>3, <3>2, <3>3 DEF CountTo, MaxCalm
      <4>4. recommended' > recommended => recommended < MaxInflight
        BY <1>1, <1>2, <4>1 DEF AtMostMax
      <4>5. recommended' < MaxInflight => recommended < MaxInflight
        BY <1>1, <1>2, <4>1 DEF AtMostMax
      <4> QED BY <1>1, <4>1, <4>2, <4>3, <4>4, <4>5 DEF QuietCounts, MaxCalm
    <3>4. CASE ~(recoveries + 1 >= CooldownSamples)
      <4>1. recommended' = recommended /\ cooldown' = cooldown /\ recoveries' = recoveries + 1
        BY <3>1, <3>4 DEF Recovered, Fields
      <4> QED
        BY <1>1, <1>2, <1>3, <2>3, <3>2, <3>4, <4>1 DEF QuietCounts, CountTo, MaxQuiet, MaxCalm
    <3> QED BY <3>3, <3>4
  <2>4. CASE ~Overload(m) /\ ~(cooldown > 0) /\ ~RecoverySample(m)
    <3>1. recommended' = recommended /\ cooldown' = cooldown /\ recoveries' = 0
      BY <1>4, <2>4 DEF Evaluate, UpdateRecommendation, Fields, Overload
    <3>2. quiet' = CountTo(quiet, MaxQuiet) /\ calm' = 0
      BY <1>4, <2>4 DEF Evaluate
    <3> QED BY <1>1, <1>2, <1>3, <2>4, <3>1, <3>2 DEF QuietCounts, CountTo, MaxQuiet
  <2> QED BY <2>1, <2>2, <2>3, <2>4
<1>5. ASSUME NEW i \in Counts, NEW q \in Counts, EvaluateThrows(i, q)
      PROVE  Goal
  BY <1>2, <1>3, <1>5 DEF EvaluateThrows, QuietCounts, MaxQuiet
<1>6. CASE UNCHANGED policyVars
  BY <1>2, <1>3, <1>6 DEF policyVars, QuietCounts, MaxQuiet
<1> QED BY <1>4, <1>5, <1>6 DEF PolicyInv, PolicyNext, EvaluateSample

(* The recommendation is raised only after 2 * cooldown_samples samples    *)
(* without an overload, the last cooldown_samples of them all recoveries.  *)
THEOREM RaiseEarnedCorrect == PolicySpec => RaiseEarned
<1>1. PolicyInit => PolicyInv
  BY PolicyAssumption DEF PolicyInit, PolicyInv, PolicyTypeOK, QuietCounts, MaxQuiet, MaxCalm
<1>2. PolicyInv /\ [PolicyNext]_policyVars => PolicyInv'
  BY PolicyTypeStep, QuietStep DEF PolicyInv
<1>3. PolicyInv /\ [PolicyNext]_policyVars =>
        [recommended' > recommended => quiet' = MaxQuiet /\ calm' = MaxCalm]_policyVars
  BY QuietStep
<1> QED BY <1>1, <1>2, <1>3, PTL DEF PolicySpec, RaiseEarned

-----------------------------------------------------------------------------
(* The classes of two samples, the second no better than the first.        *)
LEMMA ClassesOrdered ==
  ASSUME NEW m1 \in Metrics, NEW m2 \in Metrics, NoWorse(m1, m2)
  PROVE  /\ CriticalOverload(m1) => CriticalOverload(m2)
         /\ SoftOverload(m1) => SoftOverload(m2)
         /\ RecoverySample(m2) => RecoverySample(m1)
<1>1. /\ TargetP95 \in Nat /\ CriticalP95 \in Nat /\ MaxKvUsage \in Nat
      /\ MaxGpuUsage \in Nat /\ MaxWaiting \in Nat /\ RecoveryPct \in Nat
  BY PolicyAssumption
<1>2. \A a, b, k \in Int : a <= b /\ b * 100 < k => a * 100 < k
  OBVIOUS
<1>3. /\ TargetP95 * RecoveryPct \in Int /\ MaxKvUsage * RecoveryPct \in Int
      /\ MaxGpuUsage * RecoveryPct \in Int /\ MaxWaiting * RecoveryPct \in Int
  BY <1>1
<1>4. CriticalOverload(m1) => CriticalOverload(m2)
  BY <1>1 DEF CriticalOverload, NoWorse, Metrics
<1>5. SoftOverload(m1) => SoftOverload(m2)
  BY <1>1 DEF SoftOverload, NoWorse, Metrics
<1>6. ASSUME RecoverySample(m2) PROVE RecoverySample(m1)
  <2>1. m1.p95 * 100 < TargetP95 * RecoveryPct
    BY <1>2, <1>3, <1>6 DEF RecoverySample, NoWorse, Metrics
  <2>2. m1.kv * 100 < MaxKvUsage * RecoveryPct
    BY <1>2, <1>3, <1>6 DEF RecoverySample, NoWorse, Metrics
  <2>3. m1.gpu * 100 < MaxGpuUsage * RecoveryPct
    BY <1>2, <1>3, <1>6 DEF RecoverySample, NoWorse, Metrics
  <2>4. m1.waiting * 100 < MaxWaiting * RecoveryPct
    BY <1>2, <1>3, <1>6 DEF RecoverySample, NoWorse, Metrics
  <2>5. m1.errors < 1
    BY <1>6 DEF RecoverySample, NoWorse, Metrics
  <2> QED BY <2>1, <2>2, <2>3, <2>4, <2>5 DEF RecoverySample
<1> QED BY <1>4, <1>5, <1>6

(* The fields that two such samples lead to.                               *)
LEMMA UpdatesOrdered ==
  ASSUME PolicyTypeOK, NEW m1 \in Metrics, NEW m2 \in Metrics, NoWorse(m1, m2)
  PROVE  /\ UpdateRecommendation(m2).recommended <= UpdateRecommendation(m1).recommended
         /\ UpdateRecommendation(m2).cooldown >= UpdateRecommendation(m1).cooldown
<1>1. /\ MinInflight \in Nat \ {0} /\ MaxInflight \in Nat /\ MinInflight <= MaxInflight
      /\ CooldownSamples \in Nat \ {0}
  BY PolicyAssumption
<1>2. /\ recommended \in MinInflight..MaxInflight /\ cooldown \in 0..CooldownSamples
      /\ recoveries \in 0..(CooldownSamples - 1)
  BY DEF PolicyTypeOK
<1>3. /\ AtLeastMin(recommended \div 2) <= AtLeastMin(recommended - 1)
      /\ AtLeastMin(recommended - 1) <= recommended
      /\ recommended <= AtMostMax(recommended + 1)
      /\ AtLeastMin(recommended \div 2) \in Nat /\ AtLeastMin(recommended - 1) \in Nat
      /\ AtMostMax(recommended + 1) \in Nat
  BY <1>1, <1>2 DEF AtLeastMin, AtMostMax
<1>4. CASE CriticalOverload(m2)
  BY <1>1, <1>2, <1>3, <1>4
  DEF UpdateRecommendation, AfterOverload, CooledDown, Recovered, Fields
<1>5. CASE ~CriticalOverload(m2) /\ SoftOverload(m2)
  <2>1. ~CriticalOverload(m1)
    BY <1>5, ClassesOrdered
  <2> QED
    BY <1>1, <1>2, <1>3, <1>5, <2>1
    DEF UpdateRecommendation, AfterOverload, CooledDown, Recovered, Fields
<1>6. CASE ~CriticalOverload(m2) /\ ~SoftOverload(m2)
  <2>1. ~CriticalOverload(m1) /\ ~SoftOverload(m1) /\ (RecoverySample(m2) => RecoverySample(m1))
    BY <1>6, ClassesOrdered
  <2> QED
    BY <1>1, <1>2, <1>3, <1>6, <2>1 DEF UpdateRecommendation, CooledDown, Recovered, Fields
<1> QED BY <1>4, <1>5, <1>6

(* A worse sample never makes evaluate() more generous.                    *)
THEOREM MonotoneCorrect == PolicySpec => []Monotone
<1>1. PolicyTypeOK => Monotone
  <2> SUFFICES ASSUME PolicyTypeOK, NEW m1 \in Samples, NEW m2 \in Samples, NoWorse(m1, m2)
               PROVE  /\ UpdateRecommendation(m2).recommended
                            <= UpdateRecommendation(m1).recommended
                      /\ UpdateRecommendation(m2).cooldown >= UpdateRecommendation(m1).cooldown
                      /\ \A i, q \in Counts :
                           Severity[Decision(m2, i, q)] >= Severity[Decision(m1, i, q)]
    BY DEF Monotone
  <2>1. m1 \in Metrics /\ m2 \in Metrics
    BY PolicyAssumption
  <2>2. /\ UpdateRecommendation(m2).recommended <= UpdateRecommendation(m1).recommended
        /\ UpdateRecommendation(m2).cooldown >= UpdateRecommendation(m1).cooldown
    BY <2>1, UpdatesOrdered
  <2>3. ASSUME NEW i \in Counts, NEW q \in Counts
        PROVE  Severity[Decision(m2, i, q)] >= Severity[Decision(m1, i, q)]
    <3>1. /\ UpdateRecommendation(m1).recommended \in Int
          /\ UpdateRecommendation(m2).recommended \in Int
      BY <2>1, UpdateTyped, PolicyAssumption
    <3>2. i \in Int /\ q \in Int /\ MaxQueueSize \in Int
      BY PolicyAssumption
    <3>3. /\ CriticalOverload(m1) => CriticalOverload(m2)
          /\ SoftOverload(m1) => SoftOverload(m2)
      BY <2>1, ClassesOrdered
    <3> QED BY <2>2, <3>1, <3>2, <3>3 DEF Decision, Severity
  <2> QED BY <2>2, <2>3
<1> QED BY <1>1, PolicyTypeCorrect, PTL
=============================================================================
