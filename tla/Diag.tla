-------------------------------- MODULE Diag --------------------------------
(***************************************************************************)
(* The diagnostics of diag.c, as operators on a diag_t record and the      *)
(* statistics of its target.                                               *)
(*                                                                         *)
(* The EWMA is exact: EwmaSec is ewma / scale, and an update with weight   *)
(* 3/10 multiplies scale by 10.                                            *)
(***************************************************************************)
EXTENDS Integers, Stats

CONSTANT DownThreshold       \* DIAG_DOWN_THRESHOLD

DiagType ==
  [consecFails : Nat, longestFailStreak : Nat, outages : Nat, isDown : BOOLEAN,
   baseline : Nat, ewma : Nat, scale : Nat, ewmaInit : BOOLEAN, highLatency : BOOLEAN]

DiagInit ==
  [consecFails |-> 0, longestFailStreak |-> 0, outages |-> 0, isDown |-> FALSE,
   baseline |-> DblMax, ewma |-> 0, scale |-> 1, ewmaInit |-> FALSE,
   highLatency |-> FALSE]

(* ewma_ms > threshold: above 3 times the baseline and 20 ms over it. *)
AboveSpike(d) ==
  /\ d.ewma > 3 * d.baseline * d.scale
  /\ d.ewma > (d.baseline + 20) * d.scale

(* ewma_ms < base_ms * 1.5 *)
BackToNormal(d) == 2 * d.ewma < 3 * d.baseline * d.scale

(* The latency half of a success: baseline, then EWMA. *)
TrackLatency(d, rtt) ==
  [d EXCEPT
     !.baseline = IF rtt < @ THEN rtt ELSE @,
     !.ewma = IF d.ewmaInit THEN 3 * rtt * d.scale + 7 * @ ELSE rtt,
     !.scale = IF d.ewmaInit THEN 10 * @ ELSE 1,
     !.ewmaInit = TRUE]

(* Mutant of ObserveSuccess: the alert is cleared by the EWMA as it was
   before this sample. *)
ObserveSuccessStale(d, rtt) ==
  LET up == [TrackLatency(d, rtt) EXCEPT !.isDown = FALSE, !.consecFails = 0]
  IN [up EXCEPT !.highLatency = IF @ THEN ~BackToNormal(d) ELSE AboveSpike(up)]

(* Diag_Observe of a successful probe: the outage, if any, is over, and the
   latency alert may be raised or cleared. *)
ObserveSuccess(d, rtt) ==
  LET up == [TrackLatency(d, rtt) EXCEPT !.isDown = FALSE, !.consecFails = 0]
  IN [up EXCEPT !.highLatency = IF @ THEN ~BackToNormal(up) ELSE AboveSpike(up)]

(* Mutant of ObserveFailure: every failure from the threshold on counts as
   an outage of its own. *)
ObserveFailureEach(d) ==
  LET n == d.consecFails + 1
  IN [d EXCEPT
        !.consecFails = n,
        !.longestFailStreak = IF n > @ THEN n ELSE @,
        !.isDown = @ \/ n >= DownThreshold,
        !.outages = IF n >= DownThreshold THEN @ + 1 ELSE @]

(* Diag_Observe of a failed probe: reaching the threshold, and only that,
   starts an outage. *)
ObserveFailure(d) ==
  LET n == d.consecFails + 1
  IN [d EXCEPT
        !.consecFails = n,
        !.longestFailStreak = IF n > @ THEN n ELSE @,
        !.isDown = @ \/ n = DownThreshold,
        !.outages = IF n = DownThreshold THEN @ + 1 ELSE @]

Observe(d, ok, rtt) == IF ok THEN ObserveSuccess(d, rtt) ELSE ObserveFailure(d)

(* Mutant of Alerts: RECOVERED prints the count after it was reset. *)
AlertsAfterReset(d, ok, rtt) ==
  LET next == Observe(d, ok, rtt)
      recovered == IF ok /\ d.isDown THEN << <<"RECOVERED", next.consecFails>> >> ELSE << >>
      latency == IF next.highLatency = d.highLatency THEN << >>
                 ELSE IF next.highLatency THEN << <<"HIGH", 0>> >> ELSE << <<"NORMAL", 0>> >>
      down == IF ~ok /\ next.outages # d.outages THEN << <<"DOWN", DownThreshold>> >> ELSE << >>
  IN recovered \o latency \o down

(* The live alerts Diag_Observe prints for that observation, in order; a
   RECOVERED alert carries the failure count it prints. *)
Alerts(d, ok, rtt) ==
  LET next == Observe(d, ok, rtt)
      recovered == IF ok /\ d.isDown THEN << <<"RECOVERED", d.consecFails>> >> ELSE << >>
      latency == IF next.highLatency = d.highLatency THEN << >>
                 ELSE IF next.highLatency THEN << <<"HIGH", 0>> >> ELSE << <<"NORMAL", 0>> >>
      down == IF ~ok /\ next.outages # d.outages THEN << <<"DOWN", DownThreshold>> >> ELSE << >>
  IN recovered \o latency \o down

-----------------------------------------------------------------------------
(* Derived metrics.                                                        *)

(* LossPercent against a bound in percent. *)
LossAbove(s, pct) == s.attempts > 0 /\ 100 * s.failures > pct * s.attempts
LossAtLeast(s, pct) == s.attempts > 0 /\ 100 * s.failures >= pct * s.attempts

QualityGrade(s) ==
  IF LossAbove(s, 5) \/ StdDevAbove(s, 50) \/ AverageAbove(s, 300) THEN "POOR"
  ELSE IF LossAbove(s, 1) \/ StdDevAbove(s, 20) \/ AverageAbove(s, 150) THEN "FAIR"
  ELSE "GOOD"

(* BufferbloatMs: -1 until five samples are retained. *)
Bufferbloat(s) ==
  IF s.connects = 0 \/ Len(s.samples) < 5 THEN -1
  ELSE Percentile(s, 95) - s.minimum

(* Verdict of a target whose name resolved (main.c prints no other's). *)
Verdict(d, s) ==
  IF d.isDown \/ LossAtLeast(s, 100) THEN "DOWN"
  ELSE IF QualityGrade(s) = "POOR" \/ d.outages > 0 THEN "DEGRADED"
  ELSE "HEALTHY"
=============================================================================
