------------------------------ MODULE Monitor ------------------------------
(***************************************************************************)
(* One monitored target: the statistics and diagnostics ProbeLoop keeps    *)
(* for it (main.c:904-949), fed with an arbitrary sequence of probe        *)
(* results.  The history of the results is kept beside the program's own   *)
(* accumulators, so that what the accumulators claim can be compared with  *)
(* what was observed.                                                      *)
(***************************************************************************)
EXTENDS Diag

CONSTANTS
  Rtts,           \* round-trip times of successful probes, ms
  MaxObs          \* bound on the number of observations of a run

ASSUME MonitorAssumption ==
  /\ DblMax \in Nat /\ MaxRetained \in Nat /\ FirstCap \in Nat \ {0}
  /\ DownThreshold \in Nat \ {0}
  /\ Rtts \subseteq Nat /\ \A r \in Rtts : r < DblMax
  /\ MaxObs \in Nat

VARIABLES
  stats,          \* Stats of the target
  diag,           \* Diag of the target
  hist,           \* history: the results processed, oldest first
  alerts          \* history: the alerts printed, with the index in hist

vars == <<stats, diag, hist, alerts>>

Init ==
  /\ stats = StatsInit
  /\ diag = DiagInit
  /\ hist = << >>
  /\ alerts = << >>

Record(ok, rtt) ==
  /\ Len(hist) < MaxObs
  /\ diag' = Observe(diag, ok, rtt)
  /\ hist' = Append(hist, [ok |-> ok, rtt |-> rtt])
  /\ alerts' = alerts \o [i \in DOMAIN Alerts(diag, ok, rtt) |->
                            [at |-> Len(hist) + 1,
                             kind |-> Alerts(diag, ok, rtt)[i][1],
                             n |-> Alerts(diag, ok, rtt)[i][2]]]

(* A probe succeeded; "grows" is the outcome of a realloc, if one is due. *)
Success(rtt, grows) ==
  /\ stats' = [AddSample(stats, rtt, grows) EXCEPT !.connects = @ + 1, !.attempts = @ + 1]
  /\ Record(TRUE, rtt)

(* A probe failed; the latency of a failure is ignored. *)
Failure ==
  /\ stats' = [stats EXCEPT !.failures = @ + 1, !.attempts = @ + 1]
  /\ Record(FALSE, 0)

(* The bound on the run is reached. *)
Ended == Len(hist) = MaxObs /\ UNCHANGED vars

Next ==
  \/ \E rtt \in Rtts, grows \in BOOLEAN : Success(rtt, grows)
  \/ Failure
  \/ Ended

Spec == Init /\ [][Next]_vars

-----------------------------------------------------------------------------
(* What was observed: reference definitions over the history.              *)

(* Length of the run of failures that ends with observation i. *)
Run(i) == Cardinality({j \in 1 .. i : \A k \in j .. i : ~hist[k].ok})

Runs == {Run(i) : i \in 0 .. Len(hist)}

SuccessRtts == {hist[i].rtt : i \in {j \in DOMAIN hist : hist[j].ok}}

AlertsOf(kind) == {i \in DOMAIN alerts : alerts[i].kind = kind}

-----------------------------------------------------------------------------
(* Properties.                                                             *)

(* ConsecFails, LongestFailStreak, Outages and IsDown (diag.c:125-193) are
   what the history says: the failures since the last success, the longest
   run of failures, the number of runs that reached the threshold, and
   whether the current one has. *)
OutagesMatchHistory ==
  /\ diag.consecFails = Run(Len(hist))
  /\ diag.longestFailStreak \in Runs /\ \A n \in Runs : n <= diag.longestFailStreak
  /\ diag.outages = Cardinality({i \in DOMAIN hist : Run(i) = DownThreshold})
  /\ diag.isDown <=> Run(Len(hist)) >= DownThreshold

(* The live alerts tell an operator the truth: one DOWN per outage, when it
   reaches the threshold, and one RECOVERED when it is over, with the number
   of failures the outage really had. *)
AlertsTellOutages ==
  /\ \A i \in AlertsOf("DOWN") : Run(alerts[i].at) = DownThreshold
  /\ \A i \in AlertsOf("RECOVERED") :
       /\ hist[alerts[i].at].ok
       /\ alerts[i].n = Run(alerts[i].at - 1)
       /\ alerts[i].n >= DownThreshold
  /\ Cardinality(AlertsOf("DOWN")) = diag.outages
  /\ Cardinality(AlertsOf("RECOVERED")) = diag.outages - (IF diag.isDown THEN 1 ELSE 0)

(* The latency alert has a hysteresis: it stays raised until the EWMA is
   back under 1.5 times the baseline and is not raised below the threshold,
   whatever new minimum moves the baseline in between; and both are about
   what was observed: the EWMA lies between the extremes of stats.c, and the
   baseline of diag.c is its minimum. *)
LatencyTracked ==
  /\ diag.ewmaInit <=> stats.connects > 0
  /\ diag.baseline = stats.minimum
  /\ diag.ewmaInit =>
       /\ \A r \in SuccessRtts : stats.minimum <= r /\ r <= stats.maximum
       /\ stats.minimum * diag.scale <= diag.ewma
       /\ diag.ewma <= stats.maximum * diag.scale
       /\ IF diag.highLatency THEN ~BackToNormal(diag) ELSE ~AboveSpike(diag)

(* However often realloc failed and wherever the cap struck, a reported
   percentile is a value that was measured, at most p% of the retained
   samples are below it and at least p% are not above it; and so the
   bufferbloat estimate is never negative. *)
PercentilesSound ==
  /\ Len(stats.samples) <= stats.sampleCap /\ Len(stats.samples) <= MaxRetained
  /\ stats.samples # << >> =>
       \A p \in {1, 50, 95, 99, 100} :
         LET v == Percentile(stats, p)
             n == Len(stats.samples)
         IN /\ v \in SuccessRtts
            /\ 100 * Cardinality({i \in 1 .. n : stats.samples[i] < v}) < p * n
            /\ 100 * Cardinality({i \in 1 .. n : stats.samples[i] <= v}) >= p * n
  /\ Bufferbloat(stats) >= -1

(* README.md:156 "So PingDD only calls a target DOWN after several
   consecutive failures ... One lost packet is not an outage."  The code
   breaks it: Verdict (diag.c:75) says DOWN as long as every probe has
   failed, from the first one on. *)
DownOnlyAfterThreshold ==
  Verdict(diag, stats) = "DOWN" => \E n \in Runs : n >= DownThreshold

(* diag.c:156 "Sustained latency well above baseline is an issue, not
   noise": a HIGH LATENCY alert follows at least two round-trip times that
   are above the threshold the baseline of the moment sets.  The code breaks
   it: one long round trip is enough, and so is one short one after a long
   one, which lowers the baseline under the EWMA. *)
HighOnlyWhenSustained ==
  \A i \in AlertsOf("HIGH") :
    LET ok == {j \in 1 .. alerts[i].at : hist[j].ok}
        high == {j \in ok : \E b \in ok : /\ hist[j].rtt > 3 * hist[b].rtt
                                         /\ hist[j].rtt > hist[b].rtt + 20}
    IN Cardinality(high) >= 2

-----------------------------------------------------------------------------
(* The inductive invariants behind these properties (see MonitorProofs).    *)

Observation == [ok : BOOLEAN, rtt : Rtts \cup {0}]

Alert == [at : Nat, kind : {"RECOVERED", "HIGH", "NORMAL", "DOWN"}, n : Nat]

HistoryInv ==
  /\ diag \in DiagType
  /\ hist \in Seq(Observation)
  /\ OutagesMatchHistory

(* An alert is about an observation that has been made. *)
AlertsInv ==
  /\ alerts \in Seq(Alert)
  /\ \A i \in DOMAIN alerts : alerts[i].at \in 1 .. Len(hist)
  /\ AlertsTellOutages

(* Before the first success nothing is known of the latency. *)
LatencyInv ==
  /\ stats \in StatsType
  /\ diag.scale > 0
  /\ ~diag.ewmaInit => /\ SuccessRtts = {} /\ ~diag.highLatency
                       /\ stats.minimum = DblMax /\ stats.maximum = 0
  /\ LatencyTracked

(* The retained samples are some of the round-trip times observed. *)
SamplesInv ==
  /\ Len(stats.samples) <= stats.sampleCap /\ Len(stats.samples) <= MaxRetained
  /\ \A i \in DOMAIN stats.samples : stats.samples[i] \in SuccessRtts
=============================================================================
