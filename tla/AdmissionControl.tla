--------------------------- MODULE AdmissionControl --------------------------
(***************************************************************************)
(* What the admission layer of the proxy promises, with no counters, no    *)
(* deque, no timers and no threads: a session is active, waiting or        *)
(* neither; at most MaxInflight are active and at most MaxQueueSize wait;  *)
(* a session waits only when no slot is free on its arrival, and a waiting *)
(* session becomes active only through a free slot.                        *)
(***************************************************************************)
EXTENDS Integers, FiniteSets

CONSTANTS Sessions, MaxInflight, MaxQueueSize

VARIABLES active, waiting, open

admissionVars == <<active, waiting, open>>

SlotFree == Cardinality(active) < MaxInflight

AdmissionInit == active = {} /\ waiting = {} /\ open = TRUE

Admit(s) ==
  /\ open /\ SlotFree /\ s \notin active \union waiting
  /\ active' = active \union {s}
  /\ UNCHANGED <<waiting, open>>

StartWaiting(s) ==
  /\ open /\ ~SlotFree /\ s \notin active \union waiting
  /\ Cardinality(waiting) < MaxQueueSize
  /\ waiting' = waiting \union {s}
  /\ UNCHANGED <<active, open>>

PromoteWaiting(s) ==
  /\ open /\ SlotFree /\ s \in waiting
  /\ waiting' = waiting \ {s}
  /\ active' = active \union {s}
  /\ UNCHANGED open

GiveUp(s) ==
  /\ s \in waiting
  /\ waiting' = waiting \ {s}
  /\ UNCHANGED <<active, open>>

Leave(s) ==
  /\ s \in active
  /\ active' = active \ {s}
  /\ UNCHANGED <<waiting, open>>

Shut == open' = FALSE /\ waiting' = {} /\ UNCHANGED active

AdmissionNext ==
  \/ \E s \in Sessions :
       Admit(s) \/ StartWaiting(s) \/ PromoteWaiting(s) \/ GiveUp(s) \/ Leave(s)
  \/ Shut

AdmissionSpec == AdmissionInit /\ [][AdmissionNext]_admissionVars
=============================================================================
