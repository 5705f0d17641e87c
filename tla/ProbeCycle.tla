----------------------------- MODULE ProbeCycle -----------------------------
(***************************************************************************)
(* What the concurrent probe pool promises its caller (cpool.h):           *)
(* a cycle probes every target exactly once, the probes of a cycle may     *)
(* overlap, and the caller gets control back only when none is under way.  *)
(* Nothing here mentions threads, locks or generations: Cpool implements   *)
(* this module, and ProbeLoop is built on it.                              *)
(***************************************************************************)
CONSTANT Target          \* the resolved targets of the run (rt[0..rc-1])

VARIABLES
  phase,                 \* "idle", "running" (inside Cpool_RunCycle), "closed"
  pending,               \* targets this cycle has still to probe
  probing                \* targets a worker is probing now

cycleVars == <<phase, pending, probing>>

TypeOK ==
  /\ phase \in {"idle", "running", "closed"}
  /\ pending \subseteq Target
  /\ probing \subseteq Target

Init ==
  /\ phase = "idle"
  /\ pending = {}
  /\ probing = {}

(* The caller enters Cpool_RunCycle. *)
StartCycle ==
  /\ phase = "idle"
  /\ phase' = "running"
  /\ pending' = Target
  /\ UNCHANGED probing

(* Some worker takes target t and starts to probe it. *)
BeginProbe(t) ==
  /\ t \in pending
  /\ pending' = pending \ {t}
  /\ probing' = probing \cup {t}
  /\ UNCHANGED phase

(* That worker has written the result of t. *)
EndProbe(t) ==
  /\ t \in probing
  /\ probing' = probing \ {t}
  /\ UNCHANGED <<phase, pending>>

(* Cpool_RunCycle returns: every target of the cycle has its result. *)
EndCycle ==
  /\ phase = "running"
  /\ pending = {}
  /\ probing = {}
  /\ phase' = "idle"
  /\ UNCHANGED <<pending, probing>>

(* Cpool_Destroy, or a Cpool_Create that failed. *)
Close ==
  /\ phase = "idle"
  /\ phase' = "closed"
  /\ UNCHANGED <<pending, probing>>

Next ==
  \/ StartCycle
  \/ \E t \in Target : BeginProbe(t)
  \/ \E t \in Target : EndProbe(t)
  \/ EndCycle
  \/ Close

Fairness ==
  /\ \A t \in Target : WF_cycleVars(BeginProbe(t))
  /\ \A t \in Target : WF_cycleVars(EndProbe(t))
  /\ WF_cycleVars(EndCycle)

SafeSpec == Init /\ [][Next]_cycleVars
Spec == SafeSpec /\ Fairness
=============================================================================
