--------------------------- MODULE MCAdmissionPolicy --------------------------
(* AdmissionPolicy with samples on both sides of every threshold.  The GPU's *)
(* limit of 100 and the recovery ratio of 99 percent let a sample of 98 be   *)
(* critical and not soft, and be below the recovery threshold as well.       *)
EXTENDS AdmissionPolicy
MCSamples ==
  [p95 : {98, 99, 100, 200}, kv : {0, 85, 98}, gpu : {0, 98},
   waiting : {0, 2}, errors : {0, 1, 10}]
MCCounts == {-1, 0, 2}
=============================================================================
