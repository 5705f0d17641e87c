--------------------------- MODULE ProbeLoopProofs ---------------------------
(***************************************************************************)
(* The totals, the counts, the end and the exit code of a run of ProbeLoop, *)
(* for every number of targets, with a pool and without one.                *)
(***************************************************************************)
EXTENDS ProbeLoop, SumTheorems, FiniteSetTheorems, TLAPS

LEMMA TargetFinite == IsFiniteSet(Target) /\ Cardinality(Target) = Rc
BY FS_Interval, ProbeLoopAssumption DEF Target

(* What AddSample does to a record: whatever it retains, the counts of
   attempts and successes are the caller's. *)
LEMMA AddSampleKeeps ==
  ASSUME NEW s \in StatsType, NEW v \in Nat
  PROVE  LET a == AddSample(s, v, TRUE)
         IN /\ a \in StatsType
            /\ a.attempts = s.attempts /\ a.connects = s.connects /\ a.failures = s.failures
<1>1. /\ s.samples \in Seq(Nat) /\ s.sampleCap \in Nat /\ Append(s.samples, v) \in Seq(Nat)
      /\ s.minimum \in Nat /\ s.maximum \in Nat /\ s.total \in Nat /\ s.totalSq \in Nat
  BY DEF StatsType
<1> DEFINE lo == IF v < s.minimum THEN v ELSE s.minimum
           hi == IF v > s.maximum THEN v ELSE s.maximum
           sum == s.total + v
           sumSq == s.totalSq + v * v
           agg == [s EXCEPT !.minimum = lo, !.maximum = hi, !.total = sum, !.totalSq = sumSq]
           more == IF Full(s) THEN Grown(s.sampleCap) ELSE s.sampleCap
           kept == Append(s.samples, v)
<1>2. lo \in Nat /\ hi \in Nat /\ sum \in Nat /\ sumSq \in Nat /\ kept \in Seq(Nat)
  <2>1. v * v \in Nat
    OBVIOUS
  <2>2. QED BY <1>1, <2>1
<1>3. more \in Nat
  BY <1>1, ProbeLoopAssumption DEF Grown
<1>4. \/ AddSample(s, v, TRUE) = agg
      \/ AddSample(s, v, TRUE) = [agg EXCEPT !.samples = kept, !.sampleCap = more]
  <2>1. agg.samples = s.samples /\ agg.sampleCap = s.sampleCap
    BY DEF StatsType
  <2>2. QED
    BY <2>1 DEF AddSample
<1> HIDE DEF lo, hi, sum, sumSq, more, kept
<1>5. /\ agg \in StatsType
      /\ agg.attempts = s.attempts /\ agg.connects = s.connects /\ agg.failures = s.failures
  BY <1>2 DEF StatsType
<1> HIDE DEF agg
<1>6. LET b == [agg EXCEPT !.samples = kept, !.sampleCap = more]
      IN b \in StatsType /\ b.attempts = agg.attempts /\ b.connects = agg.connects
         /\ b.failures = agg.failures
  BY <1>2, <1>3, <1>5 DEF StatsType
<1>7. QED
  BY <1>4, <1>5, <1>6

LEMMA CountAnother ==
  ASSUME NEW s \in StatsType
  PROVE  /\ LET a == [s EXCEPT !.connects = @ + 1, !.attempts = @ + 1]
            IN /\ a \in StatsType /\ a.attempts = s.attempts + 1
               /\ a.connects = s.connects + 1 /\ a.failures = s.failures
         /\ LET a == [s EXCEPT !.failures = @ + 1, !.attempts = @ + 1]
            IN /\ a \in StatsType /\ a.attempts = s.attempts + 1
               /\ a.connects = s.connects /\ a.failures = s.failures + 1
<1>1. s.attempts + 1 \in Nat /\ s.connects + 1 \in Nat /\ s.failures + 1 \in Nat
  BY DEF StatsType
<1>2. ASSUME NEW x \in Nat, NEW y \in Nat
      PROVE  LET a == [s EXCEPT !.connects = x, !.attempts = y]
             IN a \in StatsType /\ a.attempts = y /\ a.connects = x /\ a.failures = s.failures
  BY DEF StatsType
<1>3. ASSUME NEW x \in Nat, NEW y \in Nat
      PROVE  LET a == [s EXCEPT !.failures = x, !.attempts = y]
             IN a \in StatsType /\ a.attempts = y /\ a.connects = s.connects /\ a.failures = x
  BY DEF StatsType
<1>4. LET a == [s EXCEPT !.connects = s.connects + 1, !.attempts = s.attempts + 1]
      IN /\ a \in StatsType /\ a.attempts = s.attempts + 1
         /\ a.connects = s.connects + 1 /\ a.failures = s.failures
  BY <1>1, <1>2
<1>5. LET a == [s EXCEPT !.failures = s.failures + 1, !.attempts = s.attempts + 1]
      IN /\ a \in StatsType /\ a.attempts = s.attempts + 1
         /\ a.connects = s.connects /\ a.failures = s.failures + 1
  BY <1>1, <1>3
<1>6. QED
  BY <1>4, <1>5, Zenon

(* How the totals of a target grow when its record is processed. *)
LEMMA StatsAfterCounts ==
  ASSUME LoopTypeOK, NEW t \in Target
  PROVE  /\ StatsAfter(t) \in StatsType
         /\ StatsAfter(t).attempts = stats[t].attempts + (IF Counted(t) THEN 1 ELSE 0)
         /\ StatsAfter(t).connects = stats[t].connects + (IF result[t] = "ok" THEN 1 ELSE 0)
         /\ StatsAfter(t).failures = stats[t].failures + (IF result[t] = "failed" THEN 1 ELSE 0)
<1>1. /\ stats[t] \in StatsType /\ result[t] \in Result /\ lastRtt[t] \in Nat
      /\ stats[t].attempts \in Nat /\ stats[t].connects \in Nat /\ stats[t].failures \in Nat
  BY DEF LoopTypeOK, StatsType
<1>2. CASE result[t] = "ok"
  <2> DEFINE a == AddSample(stats[t], lastRtt[t], TRUE)
  <2>1. /\ a \in StatsType /\ a.attempts = stats[t].attempts
        /\ a.connects = stats[t].connects /\ a.failures = stats[t].failures
    BY <1>1, AddSampleKeeps
  <2>2. StatsAfter(t) = [a EXCEPT !.connects = @ + 1, !.attempts = @ + 1] /\ Counted(t)
    BY <1>2 DEF StatsAfter, Counted
  <2> HIDE DEF a
  <2> DEFINE b == [a EXCEPT !.connects = @ + 1, !.attempts = @ + 1]
  <2>3. /\ b \in StatsType /\ b.attempts = a.attempts + 1
        /\ b.connects = a.connects + 1 /\ b.failures = a.failures
    BY <2>1, CountAnother
  <2>4. StatsAfter(t) = b
    BY <2>2
  <2> HIDE DEF b
  <2>5. QED
    BY <1>1, <1>2, <2>1, <2>2, <2>3, <2>4
<1>3. CASE result[t] = "failed"
  <2> DEFINE s == stats[t]
             a == [s EXCEPT !.failures = @ + 1, !.attempts = @ + 1]
  <2>1. StatsAfter(t) = a /\ Counted(t) /\ result[t] # "ok"
    BY <1>3 DEF StatsAfter, Counted
  <2>2. /\ a \in StatsType /\ a.attempts = s.attempts + 1
        /\ a.connects = s.connects /\ a.failures = s.failures + 1
    BY <1>1, CountAnother
  <2> HIDE DEF a
  <2>3. QED
    BY <1>1, <1>3, <2>1, <2>2
<1>4. CASE result[t] = "interrupted"
  <2>1. StatsAfter(t) = stats[t] /\ ~Counted(t)
    BY <1>4 DEF StatsAfter, Counted
  <2>2. QED
    BY <1>1, <1>4, <2>1
<1>5. QED BY <1>1, <1>2, <1>3, <1>4 DEF Result

-----------------------------------------------------------------------------
LEMMA InitLoop == Init => LoopInv
<1> SUFFICES ASSUME Init PROVE LoopInv
  OBVIOUS
<1> USE ProbeLoopAssumption DEF Init, Pool!Init
<1>1. StatsInit \in StatsType /\ StatsInit.attempts = 0 /\ StatsInit.connects = 0
  BY DEF StatsInit, StatsType
<1>2. LoopTypeOK
  <2>1. k \in Target
    BY DEF Target
  <2>2. /\ result \in [Target -> Result] /\ lastRtt \in [Target -> Nat]
        /\ probed \in [Target -> Nat] /\ won \in [Target -> Nat]
        /\ stats \in [Target -> StatsType]
    BY <1>1 DEF Result
  <2>3. /\ cycle \in Nat /\ count \in Nat \cup {-1} /\ lateProbes \in Nat /\ overdue \in Nat
        /\ interrupted \in BOOLEAN /\ expired \in BOOLEAN /\ pooled \in BOOLEAN
    OBVIOUS
  <2>4. QED BY <2>1, <2>2, <2>3 DEF LoopTypeOK
<1>3. ThreadInv
  BY DEF ThreadInv, Counted
<1>4. TallyInv
  BY <1>1 DEF TallyInv, TotalsSound, EveryProbeCounted, OnlyProbesCounted, Settled,
              Verdicts, Wins, Reached, Round
<1>5. CountInv
  BY <1>1 DEF CountInv, CountHonoured, Round
<1>6. LagInv
  BY DEF LagInv, StopsPromptly
<1>7. ExitInv
  BY DEF ExitInv
<1>8. QED BY <1>2, <1>3, <1>4, <1>5, <1>6, <1>7 DEF LoopInv

(* The signal and the clock; neither touches a record, and what was probed
   late or after the deadline is counted from then on. *)
LEMMA EnvironmentLoop == LoopInv /\ (Interrupt \/ Tick) => LoopInv'
<1> SUFFICES ASSUME LoopInv, Interrupt \/ Tick PROVE LoopInv'
  OBVIOUS
<1> USE DEF LoopInv
<1>1. /\ interrupted' \in BOOLEAN /\ expired' \in BOOLEAN
      /\ interrupted' = TRUE \/ interrupted' = interrupted
      /\ expired' = TRUE \/ expired' = expired
      /\ pc # "exit"
      /\ UNCHANGED <<pc, k, cycle, count, pooled, phase, pending, probing, result, lastRtt,
                     late, lateProbes, overdue, probed, won, stats, exitCode>>
  BY DEF Interrupt, Tick, config, poolVars, scratch, totals, LoopTypeOK
<1>2. LoopTypeOK'
  BY <1>1 DEF LoopTypeOK
<1>3. ThreadInv'
  <2>1. (pc # "cycle" => pending = {} /\ probing = {})'
    BY <1>1 DEF ThreadInv
  <2>2. (pending \cap probing = {})'
    BY <1>1 DEF ThreadInv
  <2>3. (pc = "cycle" => pooled)'
    BY <1>1 DEF ThreadInv
  <2>4. (pc \in {"probe", "inprobe"} => ~pooled)'
    BY <1>1 DEF ThreadInv
  <2>5. ((late # {} \/ \E t \in Target : ~Counted(t)) => interrupted)'
    BY <1>1 DEF ThreadInv, Counted
  <2>6. (pc = "process" /\ ~pooled /\ k # Rc => interrupted)'
    <3>1. CASE interrupted' = TRUE
      BY <3>1
    <3>2. CASE interrupted' = interrupted
      BY <1>1, <3>2 DEF ThreadInv
    <3>3. QED BY <1>1, <3>1, <3>2
  <2>7. QED
    BY <2>1, <2>2, <2>3, <2>4, <2>5, <2>6 DEF ThreadInv
<1>4. TallyInv'
  BY <1>1 DEF TallyInv, TotalsSound, EveryProbeCounted, OnlyProbesCounted, Settled,
              Verdicts, Wins, Reached, Counted
<1>5. CountInv'
  BY <1>1 DEF CountInv, CountHonoured
<1>6. LagInv'
  BY <1>1 DEF LagInv, StopsPromptly
<1>7. ExitInv'
  BY <1>1 DEF ExitInv
<1>8. QED BY <1>2, <1>3, <1>4, <1>5, <1>6, <1>7

(* Between the rounds the totals are those of the cycles completed. *)
LEMMA SettledTally ==
  ASSUME LoopInv, pc \in {"setup", "test", "pause"}, NEW t \in Target
  PROVE  /\ stats[t].attempts = cycle /\ probed[t] = cycle
         /\ won[t] = stats[t].connects
         /\ cycle \in Nat /\ won[t] \in Nat
<1>1. t \notin Reached
  BY DEF Reached
<1>2. cycle \in Nat /\ stats[t].connects \in Nat /\ won[t] \in Nat
  BY DEF LoopInv, LoopTypeOK, StatsType
<1>3. QED
  BY <1>1, <1>2 DEF LoopInv, TallyInv, Verdicts, Wins

LEMMA SetupLoop == LoopInv /\ Setup => LoopInv'
<1> SUFFICES ASSUME LoopInv, Setup PROVE LoopInv'
  OBVIOUS
<1>1. /\ pc = "setup" /\ pc' \in {"test", "exit"}
      /\ pc' = "exit" => exitCode' = "failure"
      /\ pooled' \in BOOLEAN /\ pending' = pending /\ probing' = probing
      /\ UNCHANGED <<k, cycle, count, interrupted, expired, result, lastRtt, late,
                     lateProbes, overdue, probed, won, stats>>
  BY ProbeLoopAssumption
     DEF Setup, Pool!Close, poolVars, config, env, scratch, totals, LoopInv, LoopTypeOK
<1>2. \A t \in Target : /\ stats[t].attempts = cycle /\ probed[t] = cycle
                        /\ won[t] = stats[t].connects
                        /\ cycle \in Nat /\ won[t] \in Nat
  BY <1>1, SettledTally
<1>3. cycle = 0 /\ \A t \in Target : won[t] = 0
  BY <1>1 DEF LoopInv, CountInv
<1> USE DEF LoopInv
<1>4. LoopTypeOK'
  BY <1>1 DEF LoopTypeOK
<1>5. ThreadInv'
  BY <1>1 DEF ThreadInv, Counted
<1>6. TallyInv'
  <2>1. Reached' = {}
    BY <1>1 DEF Reached
  <2>2. TotalsSound'
    BY <1>1, <1>2 DEF TotalsSound, EveryProbeCounted, OnlyProbesCounted
  <2>3. QED
    BY <1>1, <1>2, <2>1, <2>2 DEF TallyInv, Verdicts, Wins, Round
<1>7. CountInv'
  BY <1>1, <1>2, <1>3 DEF CountInv, CountHonoured, Round, LoopTypeOK
<1>8. LagInv'
  BY <1>1, ProbeLoopAssumption DEF LagInv, StopsPromptly, LoopTypeOK
<1>9. ExitInv'
  BY <1>1, <1>2, <1>3 DEF ExitInv
<1>10. QED BY <1>4, <1>5, <1>6, <1>7, <1>8, <1>9

(* The end of the loop, by the signal, the count or the deadline ... *)
LEMMA TestLoop == LoopInv /\ Test => LoopInv'
<1> SUFFICES ASSUME LoopInv, Test PROVE LoopInv'
  OBVIOUS
<1>1. /\ pc = "test"
      /\ UNCHANGED <<cycle, count, interrupted, expired, pooled, result, lastRtt, late,
                     lateProbes, overdue, probed, won, stats, exitCode>>
  BY DEF Test, config, env, scratch, totals
<1>2. \A t \in Target : /\ stats[t].attempts = cycle /\ probed[t] = cycle
                        /\ won[t] = stats[t].connects
                        /\ cycle \in Nat /\ won[t] \in Nat
  BY <1>1, SettledTally
<1> USE DEF LoopInv
<1>3. CASE interrupted \/ CountReached \/ expired
  <2>1. pc' = "report" /\ UNCHANGED <<k, pending, probing>>
    BY <1>3 DEF Test, poolVars
  <2>2. LoopTypeOK'
    BY <1>1, <2>1 DEF LoopTypeOK
  <2>3. ThreadInv'
    BY <1>1, <2>1 DEF ThreadInv, Counted
  <2>4. TallyInv'
    <3>1. TotalsSound'
      BY <1>1, <1>2 DEF TotalsSound, EveryProbeCounted, OnlyProbesCounted
    <3>2. QED
      BY <2>1, <3>1 DEF TallyInv, Round
  <2>5. CountInv'
    <3>1. ~interrupted /\ ~expired => count # -1 /\ cycle >= count
      BY <1>3 DEF CountReached
    <3>2. QED
      BY <1>1, <1>2, <2>1, <3>1 DEF CountInv, CountHonoured, Round, LoopTypeOK
  <2>6. LagInv'
    BY <1>1, <2>1 DEF LagInv, StopsPromptly
  <2>7. ExitInv'
    BY <2>1 DEF ExitInv
  <2>8. QED BY <2>2, <2>3, <2>4, <2>5, <2>6, <2>7
(* ... or another round, in which no target has been reached yet. *)
<1>4. CASE ~(interrupted \/ CountReached \/ expired)
  <2>1. /\ k' = 1 /\ probing' = probing
        /\ IF pooled THEN pc' = "cycle" /\ pending' = Target
                     ELSE pc' = "probe" /\ pending' = pending
    BY <1>4 DEF Test, Pool!StartCycle, poolVars
  <2>2. LoopTypeOK'
    <3>1. k' \in Target
      BY <2>1, ProbeLoopAssumption DEF Target
    <3>2. pending' \subseteq Target /\ pc' \in Round
      BY <2>1 DEF LoopTypeOK, Round
    <3>3. QED
      BY <1>1, <2>1, <3>1, <3>2 DEF LoopTypeOK
  <2>3. ThreadInv'
    BY <1>1, <2>1 DEF ThreadInv, Counted
  <2>4. Reached' = {}
    <3>1. \A t \in Target : ~(t < 1)
      BY DEF Target
    <3>2. QED
      BY <2>1, <3>1 DEF Reached
  <2>5. TallyInv'
    <3>1. TotalsSound'
      BY <1>1, <1>2 DEF TotalsSound, EveryProbeCounted, OnlyProbesCounted
    <3>2. QED
      BY <1>1, <1>2, <2>1, <2>4, <3>1 DEF TallyInv, Verdicts, Wins, Round
  <2>6. CountInv'
    <3>1. count = -1 \/ cycle < count
      BY <1>4 DEF CountReached, LoopTypeOK
    <3>2. QED
      BY <1>1, <1>2, <2>1, <3>1 DEF CountInv, CountHonoured, Round, LoopTypeOK
  <2>7. LagInv'
    BY <1>1, <2>1, TargetFinite, ProbeLoopAssumption DEF LagInv, StopsPromptly
  <2>8. ExitInv'
    BY <2>1 DEF ExitInv
  <2>9. QED BY <2>2, <2>3, <2>5, <2>6, <2>7, <2>8
<1>5. QED BY <1>3, <1>4

-----------------------------------------------------------------------------
(* Probes.                                                                 *)

(* A probe that begins reaches no target; it is late, or overdue, only after
   the signal, or the deadline. *)
LEMMA BeginLoop ==
  ASSUME LoopInv, NEW t \in Target, Begin(t),
         pc' \in Round, Reached' = Reached,
         UNCHANGED <<k, cycle, count, interrupted, expired, pooled, stats>>,
         pending' \subseteq Target, probing' \subseteq Target, pc \in Round
  PROVE  /\ LoopTypeOK' /\ TallyInv' /\ CountHonoured'
         /\ (late' # {} \/ \E u \in Target : ~Counted(u)') => interrupted
         /\ lateProbes' \in {lateProbes, lateProbes + 1}
         /\ ~interrupted => lateProbes' = lateProbes
         /\ overdue' \in {overdue, overdue + 1}
         /\ ~expired => overdue' = overdue
         /\ UNCHANGED <<result, probed, won>>
<1> USE DEF LoopInv
<1>1. /\ lateProbes \in Nat /\ overdue \in Nat
      /\ interrupted \in BOOLEAN /\ expired \in BOOLEAN
  BY DEF LoopTypeOK
<1>2. /\ UNCHANGED <<result, lastRtt, probed, won>>
      /\ late' \in {late \cup {t}, late \ {t}}
      /\ ~interrupted => late' = late \ {t}
      /\ lateProbes' = lateProbes + (IF interrupted THEN 1 ELSE 0)
      /\ overdue' = overdue + (IF expired THEN 1 ELSE 0)
  BY DEF Begin
<1>3. LoopTypeOK'
  <2>1. late' \subseteq Target /\ lateProbes' \in Nat /\ overdue' \in Nat
    BY <1>1, <1>2 DEF LoopTypeOK
  <2>2. QED BY <1>2, <2>1 DEF LoopTypeOK
<1>4. TallyInv'
  BY <1>2 DEF TallyInv, TotalsSound, EveryProbeCounted, OnlyProbesCounted, Settled,
              Verdicts, Wins, Counted, Round
<1>5. CountHonoured'
  BY <1>2 DEF CountInv, CountHonoured, Round
<1>6. (late' # {} \/ \E u \in Target : ~Counted(u)') => interrupted
  <2>1. late # {} => interrupted
    BY DEF ThreadInv
  <2>2. late' # {} => interrupted
    BY <1>2, <2>1
  <2>3. (\E u \in Target : ~Counted(u)') => interrupted
    BY <1>2 DEF ThreadInv, Counted
  <2>4. QED BY <2>2, <2>3
<1>7. QED BY <1>1, <1>2, <1>3, <1>4, <1>5, <1>6

(* A probe that ends has reached its target; the verdict in the record is one
   more than the totals know, unless the signal cut it off. *)
LEMMA FinishLoop ==
  ASSUME LoopInv, NEW t \in Target, NEW r \in Result, NEW rtt \in RttOf(r),
         Finish(t, r, rtt), t \notin Reached, Reached' = Reached \cup {t},
         pc \in Round, pc' \in Round, k' \in Target,
         UNCHANGED <<cycle, count, interrupted, expired, pooled, stats>>,
         pending' \subseteq Target, probing' \subseteq Target
  PROVE  /\ LoopTypeOK' /\ TallyInv' /\ CountHonoured'
         /\ (late' # {} \/ \E u \in Target : ~Counted(u)') => interrupted
         /\ UNCHANGED <<late, lateProbes, overdue>>
<1> USE DEF LoopInv
<1>1. /\ result' = [result EXCEPT ![t] = r] /\ lastRtt' = [lastRtt EXCEPT ![t] = rtt]
      /\ probed' = [probed EXCEPT ![t] = IF r = "interrupted" THEN @ ELSE @ + 1]
      /\ won' = [won EXCEPT ![t] = IF r = "ok" THEN @ + 1 ELSE @]
      /\ UNCHANGED <<late, lateProbes, overdue>>
      /\ r \in Outcome(t)
  BY DEF Finish
<1>2. /\ result \in [Target -> Result] /\ lastRtt \in [Target -> Nat]
      /\ probed \in [Target -> Nat] /\ won \in [Target -> Nat]
      /\ cycle \in Nat /\ count \in Nat \cup {-1}
  BY DEF LoopTypeOK
<1>3. rtt \in Nat
  BY ProbeLoopAssumption DEF RttOf
<1>4. /\ result' \in [Target -> Result] /\ lastRtt' \in [Target -> Nat]
      /\ probed' \in [Target -> Nat] /\ won' \in [Target -> Nat]
  BY <1>1, <1>2, <1>3
<1>5. LoopTypeOK'
  BY <1>1, <1>4 DEF LoopTypeOK
<1>6. \A u \in Target : /\ stats[u].attempts = cycle
                        /\ probed[u] = cycle + Verdicts(u)
                        /\ won[u] = stats[u].connects + Wins(u)
                        /\ stats[u].connects \in Nat
  BY DEF TallyInv, LoopTypeOK, StatsType
<1>7. ASSUME NEW u \in Target
      PROVE  probed'[u] = cycle + Verdicts(u)' /\ won'[u] = stats[u].connects + Wins(u)'
  <2>1. CASE u = t
    <3>1. Verdicts(t) = 0 /\ Wins(t) = 0
      BY DEF Verdicts, Wins
    <3>2. /\ Verdicts(t)' = (IF r # "interrupted" THEN 1 ELSE 0)
          /\ Wins(t)' = (IF r = "ok" THEN 1 ELSE 0)
      BY <1>1, <1>2 DEF Verdicts, Wins, Counted
    <3>3. QED
      BY <1>1, <1>2, <1>6, <2>1, <3>1, <3>2
  <2>2. CASE u # t
    <3>1. Verdicts(u)' = Verdicts(u) /\ Wins(u)' = Wins(u)
      BY <1>1, <1>2, <2>2 DEF Verdicts, Wins, Counted
    <3>2. QED
      BY <1>1, <1>2, <1>6, <2>2, <3>1
  <2>3. QED BY <2>1, <2>2
<1>8. TallyInv'
  <2>1. ~Settled' /\ pc' \notin {"setup", "test", "pause", "decide"}
    BY DEF Settled, Round
  <2>2. QED
    BY <1>6, <1>7, <2>1 DEF TallyInv, TotalsSound, EveryProbeCounted, OnlyProbesCounted
<1>9. CountHonoured'
  <2>1. count # -1 => cycle < count
    BY DEF CountInv
  <2>2. \A u \in Target : Verdicts(u)' \in {0, 1}
    BY DEF Verdicts
  <2>3. count # -1 => \A u \in Target : probed'[u] <= count /\ stats'[u].attempts <= count
    BY <1>2, <1>6, <1>7, <2>1, <2>2
  <2>4. QED
    BY <2>3 DEF CountHonoured, Round
<1>10. (late' # {} \/ \E u \in Target : ~Counted(u)') => interrupted
  <2>1. late # {} => interrupted
    BY DEF ThreadInv
  <2>2. r = "interrupted" => interrupted
    BY <1>1, <2>1 DEF Outcome
  <2>3. (\E u \in Target : ~Counted(u)') => interrupted
    BY <1>1, <1>2, <2>2 DEF ThreadInv, Counted
  <2>4. QED BY <1>1, <2>1, <2>3
<1>11. QED BY <1>1, <1>5, <1>8, <1>9, <1>10

LEMMA SeqBeginLoop == LoopInv /\ SeqBegin => LoopInv'
<1> SUFFICES ASSUME LoopInv, SeqBegin PROVE LoopInv'
  OBVIOUS
<1>1. /\ pc = "probe" /\ pc' = "inprobe" /\ Begin(k)
      /\ UNCHANGED <<k, cycle, count, interrupted, expired, pooled, pending, probing,
                     stats, exitCode>>
  BY DEF SeqBegin, config, env, poolVars, totals
<1>2. k \in Target /\ pending \subseteq Target /\ probing \subseteq Target
  BY DEF LoopInv, LoopTypeOK
<1>3. Reached' = Reached /\ pc \in Round /\ pc' \in Round
  BY <1>1 DEF Reached, Round
<1>4. /\ LoopTypeOK' /\ TallyInv' /\ CountHonoured'
      /\ (late' # {} \/ \E u \in Target : ~Counted(u)') => interrupted
      /\ lateProbes' \in {lateProbes, lateProbes + 1}
      /\ ~interrupted => lateProbes' = lateProbes
      /\ overdue' \in {overdue, overdue + 1}
      /\ ~expired => overdue' = overdue
  BY <1>1, <1>2, <1>3, BeginLoop
<1> USE DEF LoopInv
<1>5. ThreadInv'
  BY <1>1, <1>4 DEF ThreadInv
<1>6. CountInv'
  BY <1>1, <1>4 DEF CountInv, Round
<1>7. LagInv'
  <2>1. lateProbes = 0 /\ overdue < k /\ k <= Rc /\ k \in Nat /\ Rc \in Nat /\ ~pooled
        /\ overdue \in Nat
    BY <1>1, <1>2, ProbeLoopAssumption DEF LagInv, ThreadInv, Target, LoopTypeOK
  <2>2. lateProbes' <= 1 /\ overdue' <= k /\ overdue' <= Rc /\ ~pooled'
    BY <1>1, <1>4, <2>1
  <2>3. (~interrupted' => lateProbes' = 0) /\ (~expired' => overdue' = 0)
    BY <1>1, <1>4, <2>1 DEF LagInv
  <2>4. QED
    BY <1>1, <2>2, <2>3 DEF LagInv, StopsPromptly
<1>8. ExitInv'
  BY <1>1 DEF ExitInv
<1>9. QED BY <1>4, <1>5, <1>6, <1>7, <1>8

(* In a sequential round the signal is looked at after every target. *)
LEMMA SeqEndLoop ==
  ASSUME LoopInv, NEW r \in Result, NEW rtt \in RttOf(r), SeqEnd(r, rtt)
  PROVE  LoopInv'
<1>1. /\ pc = "inprobe" /\ Finish(k, r, rtt)
      /\ UNCHANGED <<cycle, count, interrupted, expired, pooled, pending, probing, stats, exitCode>>
  BY DEF SeqEnd, config, env, poolVars, totals
<1>2. \/ pc' = "process" /\ k' = k /\ (interrupted \/ k = Rc)
      \/ pc' = "probe" /\ k' = k + 1 /\ ~interrupted /\ k # Rc
  BY DEF SeqEnd
<1>3. /\ k \in Target /\ pending \subseteq Target /\ probing \subseteq Target
      /\ \A t \in Target : t \in Nat /\ t >= 1 /\ t <= Rc
      /\ Rc \in Nat
  BY ProbeLoopAssumption DEF LoopInv, LoopTypeOK, Target
<1>4. ~pooled
  BY <1>1 DEF LoopInv, ThreadInv
<1>5. k' \in Target
  BY <1>2, <1>3 DEF Target
<1>6. k \notin Reached /\ Reached' = Reached \cup {k}
  <2>1. Reached = {t \in Target : t < k}
    BY <1>1 DEF Reached
  <2>2. Reached' = {t \in Target : t <= k}
    BY <1>1, <1>2, <1>3, <1>4 DEF Reached
  <2>3. QED
    BY <1>3, <2>1, <2>2
<1>7. /\ LoopTypeOK' /\ TallyInv' /\ CountHonoured'
      /\ (late' # {} \/ \E u \in Target : ~Counted(u)') => interrupted
      /\ UNCHANGED <<late, lateProbes, overdue>>
  <2>1. pc \in Round /\ pc' \in Round
    BY <1>1, <1>2 DEF Round
  <2>2. QED
    BY <1>1, <1>3, <1>5, <1>6, <2>1, FinishLoop
<1> USE DEF LoopInv
<1>8. ThreadInv'
  BY <1>1, <1>2, <1>4, <1>7 DEF ThreadInv
<1>9. CountInv'
  BY <1>1, <1>2, <1>7 DEF CountInv, Round
<1>10. LagInv'
  <2>1. overdue <= k /\ overdue \in Nat /\ (~interrupted => lateProbes = 0)
    BY <1>1 DEF LagInv, LoopTypeOK
  <2>2. pc' = "probe" => lateProbes' = 0 /\ overdue' < k'
    BY <1>2, <1>3, <1>7, <2>1
  <2>3. QED
    BY <1>1, <1>2, <1>7, <2>2 DEF LagInv, StopsPromptly
<1>11. ExitInv'
  BY <1>2 DEF ExitInv
<1>12. QED BY <1>7, <1>8, <1>9, <1>10, <1>11

LEMMA PoolBeginLoop ==
  ASSUME LoopInv, NEW t \in Target, PoolBegin(t)
  PROVE  LoopInv'
<1>1. /\ t \in pending /\ pending' = pending \ {t} /\ probing' = probing \cup {t}
      /\ Begin(t)
      /\ UNCHANGED <<pc, k, cycle, count, interrupted, expired, pooled, stats, exitCode>>
  BY DEF PoolBegin, Pool!BeginProbe, config, env, totals
<1>2. /\ pc = "cycle" /\ pc \in Round /\ pc' \in Round
      /\ pending' \subseteq Target /\ probing' \subseteq Target
  BY <1>1 DEF LoopInv, ThreadInv, LoopTypeOK, Round
<1>3. Reached' = Reached
  BY <1>1, <1>2 DEF Reached
<1>4. /\ LoopTypeOK' /\ TallyInv' /\ CountHonoured'
      /\ (late' # {} \/ \E u \in Target : ~Counted(u)') => interrupted
      /\ lateProbes' \in {lateProbes, lateProbes + 1}
      /\ ~interrupted => lateProbes' = lateProbes
      /\ overdue' \in {overdue, overdue + 1}
      /\ ~expired => overdue' = overdue
  BY <1>1, <1>2, <1>3, BeginLoop
<1> USE DEF LoopInv
<1>5. ThreadInv'
  BY <1>1, <1>2, <1>4 DEF ThreadInv
<1>6. CountInv'
  BY <1>1, <1>2, <1>4 DEF CountInv, Round
<1>7. LagInv'
  <2>1. /\ IsFiniteSet(pending) /\ Cardinality(pending) \in Nat
        /\ Cardinality(pending') = Cardinality(pending) - 1
    <3>1. IsFiniteSet(pending)
      BY TargetFinite, FS_Subset DEF LoopTypeOK
    <3>2. QED
      BY <1>1, <3>1, FS_CardinalityType, FS_RemoveElement
  <2>2. /\ lateProbes + Cardinality(pending) <= Rc /\ overdue + Cardinality(pending) <= Rc
        /\ lateProbes \in Nat /\ overdue \in Nat /\ Rc \in Nat
        /\ pending # {}
    BY <1>1, <1>2, ProbeLoopAssumption DEF LagInv, LoopTypeOK
  <2>3. /\ lateProbes' + Cardinality(pending') <= Rc /\ overdue' + Cardinality(pending') <= Rc
    BY <1>4, <2>1, <2>2
  <2>4. Cardinality(pending') \in Nat /\ pooled'
    <3>1. IsFiniteSet(pending')
      BY <1>2, TargetFinite, FS_Subset
    <3>2. QED
      BY <1>1, <1>2, <3>1, FS_CardinalityType DEF ThreadInv
  <2>5. StopsPromptly'
    BY <1>4, <2>2, <2>3, <2>4 DEF StopsPromptly, LoopTypeOK
  <2>6. (~interrupted' => lateProbes' = 0) /\ (~expired' => overdue' = 0)
    BY <1>1, <1>4 DEF LagInv
  <2>7. QED
    BY <1>1, <1>2, <2>3, <2>5, <2>6 DEF LagInv
<1>8. ExitInv'
  BY <1>1, <1>2 DEF ExitInv
<1>9. QED BY <1>4, <1>5, <1>6, <1>7, <1>8

LEMMA PoolEndLoop ==
  ASSUME LoopInv, NEW t \in Target, NEW r \in Result, NEW rtt \in RttOf(r), PoolEnd(t, r, rtt)
  PROVE  LoopInv'
<1>1. /\ t \in probing /\ probing' = probing \ {t} /\ pending' = pending
      /\ Finish(t, r, rtt)
      /\ UNCHANGED <<pc, k, cycle, count, interrupted, expired, pooled, stats, exitCode>>
  BY DEF PoolEnd, Pool!EndProbe, config, env, totals
<1>2. /\ pc = "cycle" /\ pc \in Round /\ pc' \in Round /\ k' \in Target
      /\ pending' \subseteq Target /\ probing' \subseteq Target /\ t \notin pending
  BY <1>1 DEF LoopInv, ThreadInv, LoopTypeOK, Round
<1>3. t \notin Reached /\ Reached' = Reached \cup {t}
  BY <1>1, <1>2 DEF Reached
<1>4. /\ LoopTypeOK' /\ TallyInv' /\ CountHonoured'
      /\ (late' # {} \/ \E u \in Target : ~Counted(u)') => interrupted
      /\ UNCHANGED <<late, lateProbes, overdue>>
  BY <1>1, <1>2, <1>3, FinishLoop
<1> USE DEF LoopInv
<1>5. ThreadInv'
  BY <1>1, <1>2, <1>4 DEF ThreadInv
<1>6. CountInv'
  BY <1>1, <1>2, <1>4 DEF CountInv, Round
<1>7. LagInv'
  BY <1>1, <1>2, <1>4 DEF LagInv, StopsPromptly
<1>8. ExitInv'
  BY <1>1, <1>2 DEF ExitInv
<1>9. QED BY <1>4, <1>5, <1>6, <1>7, <1>8

(* Cpool_RunCycle returns when every target has its record. *)
LEMMA CycleDoneLoop == LoopInv /\ CycleDone => LoopInv'
<1> SUFFICES ASSUME LoopInv, CycleDone PROVE LoopInv'
  OBVIOUS
<1>1. /\ pc = "cycle" /\ pc' = "process" /\ pending = {} /\ probing = {}
      /\ UNCHANGED <<k, cycle, count, interrupted, expired, pooled, pending, probing, result,
                     lastRtt, late, lateProbes, overdue, probed, won, stats, exitCode>>
  BY DEF CycleDone, Pool!EndCycle, config, env, scratch, totals
<1>2. pooled
  BY <1>1 DEF LoopInv, ThreadInv
<1>3. Reached' = Reached
  BY <1>1, <1>2 DEF Reached
<1> USE DEF LoopInv
<1>4. LoopTypeOK'
  BY <1>1 DEF LoopTypeOK, Round
<1>5. ThreadInv'
  BY <1>1, <1>2 DEF ThreadInv, Counted
<1>6. TallyInv'
  BY <1>1, <1>3 DEF TallyInv, TotalsSound, EveryProbeCounted, OnlyProbesCounted, Settled,
                    Verdicts, Wins, Counted, Round
<1>7. CountInv'
  BY <1>1 DEF CountInv, CountHonoured, Round
<1>8. LagInv'
  BY <1>1 DEF LagInv, StopsPromptly
<1>9. ExitInv'
  BY <1>1 DEF ExitInv
<1>10. QED BY <1>4, <1>5, <1>6, <1>7, <1>8, <1>9

-----------------------------------------------------------------------------
(* After a round.                                                          *)

(* The records become totals.  Those of targets the signal kept the round
   from reaching are stale; without a pool they are counted all the same. *)
LEMMA ProcessLoop == LoopInv /\ Process => LoopInv'
<1> SUFFICES ASSUME LoopInv, Process PROVE LoopInv'
  OBVIOUS
<1>1. /\ pc = "process" /\ pc' = "decide"
      /\ stats' = [t \in Target |-> StatsAfter(t)]
      /\ UNCHANGED <<k, cycle, count, interrupted, expired, pooled, pending, probing, result,
                     lastRtt, late, lateProbes, overdue, probed, won, exitCode>>
  BY DEF Process, config, env, poolVars, scratch
<1>2. \A t \in Target :
        /\ stats'[t] \in StatsType
        /\ stats'[t].attempts = cycle + (IF Counted(t) THEN 1 ELSE 0)
        /\ stats'[t].connects = stats[t].connects + (IF result[t] = "ok" THEN 1 ELSE 0)
        /\ probed[t] = cycle + Verdicts(t)
        /\ won[t] = stats[t].connects + Wins(t)
        /\ cycle \in Nat /\ stats[t].connects \in Nat
  <2> SUFFICES ASSUME NEW t \in Target
               PROVE  /\ stats'[t] \in StatsType
                      /\ stats'[t].attempts = cycle + (IF Counted(t) THEN 1 ELSE 0)
                      /\ stats'[t].connects = stats[t].connects + (IF result[t] = "ok" THEN 1 ELSE 0)
                      /\ probed[t] = cycle + Verdicts(t)
                      /\ won[t] = stats[t].connects + Wins(t)
                      /\ cycle \in Nat /\ stats[t].connects \in Nat
    OBVIOUS
  <2>1. /\ stats[t].attempts = cycle /\ probed[t] = cycle + Verdicts(t)
        /\ won[t] = stats[t].connects + Wins(t)
    BY <1>1 DEF LoopInv, TallyInv, Round
  <2>2. /\ StatsAfter(t) \in StatsType
        /\ StatsAfter(t).attempts = stats[t].attempts + (IF Counted(t) THEN 1 ELSE 0)
        /\ StatsAfter(t).connects = stats[t].connects + (IF result[t] = "ok" THEN 1 ELSE 0)
    BY StatsAfterCounts DEF LoopInv
  <2>3. stats'[t] = StatsAfter(t)
    BY <1>1
  <2>4. cycle \in Nat /\ stats[t].connects \in Nat
    BY DEF LoopInv, LoopTypeOK, StatsType
  <2>5. QED
    BY <2>1, <2>2, <2>3, <2>4
(* Every target is reached, but for the signal in a sequential round. *)
<1>3. interrupted \/ \A t \in Target : t \in Reached
  <2>1. \A t \in Target : t <= Rc
    BY DEF Target
  <2>2. pooled \/ k = Rc \/ interrupted
    BY <1>1 DEF LoopInv, ThreadInv
  <2>3. QED
    BY <1>1, <2>1, <2>2 DEF Reached
<1>4. pooled => \A t \in Target : t \in Reached
  BY <1>1 DEF Reached
<1>5. \A t \in Target :
        /\ stats'[t].attempts >= probed[t] /\ stats'[t].connects >= won[t]
        /\ t \in Reached => probed[t] = stats'[t].attempts /\ won[t] = stats'[t].connects
  BY <1>2 DEF Verdicts, Wins, Counted
<1> USE DEF LoopInv
<1>6. LoopTypeOK'
  <2>1. stats' \in [Target -> StatsType]
    BY <1>1, <1>2
  <2>2. QED
    BY <1>1, <2>1 DEF LoopTypeOK
<1>7. ThreadInv'
  BY <1>1 DEF ThreadInv, Counted
<1>8. TallyInv'
  <2>1. EveryProbeCounted'
    BY <1>1, <1>5 DEF EveryProbeCounted
  <2>2. pooled' => OnlyProbesCounted'
    <3>1. \A t \in Target : stats'[t].attempts \in Nat /\ stats'[t].connects \in Nat
      BY <1>2 DEF StatsType
    <3>2. QED
      BY <1>1, <1>4, <1>5, <3>1 DEF OnlyProbesCounted
  <2>3. \A t \in Target :
          /\ stats'[t].attempts = cycle' + (IF Counted(t)' THEN 1 ELSE 0)
          /\ interrupted' \/ (probed'[t] = stats'[t].attempts /\ won'[t] = stats'[t].connects)
    BY <1>1, <1>2, <1>3, <1>5 DEF Counted
  <2>4. QED
    BY <1>1, <2>1, <2>2, <2>3 DEF TallyInv, TotalsSound, Round
<1>9. CountInv'
  <2>1. count # -1 => cycle < count /\ count \in Nat /\ cycle \in Nat
    BY <1>1 DEF CountInv, Round, LoopTypeOK
  <2>2. count # -1 => \A t \in Target : stats'[t].attempts <= count /\ probed[t] <= count
    BY <1>2, <2>1 DEF Verdicts
  <2>3. QED
    BY <1>1, <2>1, <2>2 DEF CountInv, CountHonoured, Round
<1>10. LagInv'
  BY <1>1 DEF LagInv, StopsPromptly
<1>11. ExitInv'
  BY <1>1 DEF ExitInv
<1>12. QED BY <1>6, <1>7, <1>8, <1>9, <1>10, <1>11

(* The run goes on only if every target was reached and counted, and then the
   totals are those of one cycle more. *)
LEMMA DecideLoop == LoopInv /\ Decide => LoopInv'
<1> SUFFICES ASSUME LoopInv, Decide PROVE LoopInv'
  OBVIOUS
<1>1. /\ pc = "decide"
      /\ UNCHANGED <<k, count, interrupted, expired, pooled, pending, probing, result,
                     lastRtt, late, lateProbes, overdue, probed, won, stats, exitCode>>
  BY DEF Decide, config, env, poolVars, scratch, totals
<1>2. cycle \in Nat /\ count \in Nat \cup {-1} /\ (count # -1 => cycle < count)
  BY <1>1 DEF LoopInv, CountInv, LoopTypeOK
<1>3. \A t \in Target :
        /\ stats[t].attempts = cycle + (IF Counted(t) THEN 1 ELSE 0)
        /\ interrupted \/ (probed[t] = stats[t].attempts /\ won[t] = stats[t].connects)
  BY <1>1 DEF LoopInv, TallyInv
<1>4. TotalsSound /\ CountHonoured
  BY DEF LoopInv, TallyInv, CountInv
<1> USE DEF LoopInv
<1>5. CASE interrupted \/ \E t \in Target : ~Counted(t)
  <2>1. pc' = "report" /\ cycle' = cycle
    BY <1>5 DEF Decide
  <2>2. interrupted = TRUE
    BY <1>5 DEF ThreadInv, LoopTypeOK
  <2>3. LoopTypeOK'
    BY <1>1, <2>1 DEF LoopTypeOK
  <2>4. ThreadInv'
    BY <1>1, <2>1 DEF ThreadInv, Counted
  <2>5. TallyInv'
    BY <1>1, <1>4, <2>1 DEF TallyInv, Round, TotalsSound, EveryProbeCounted,
                            OnlyProbesCounted, Settled
  <2>6. CountInv'
    <3>1. count # -1 => \A t \in Target : stats[t].attempts <= count
      BY <1>2, <1>3
    <3>2. QED
      BY <1>1, <1>2, <1>4, <2>1, <2>2, <3>1 DEF CountInv, CountHonoured, Round
  <2>7. LagInv'
    BY <1>1, <2>1 DEF LagInv, StopsPromptly
  <2>8. ExitInv'
    BY <2>1 DEF ExitInv
  <2>9. QED BY <2>3, <2>4, <2>5, <2>6, <2>7, <2>8
<1>6. CASE ~(interrupted \/ \E t \in Target : ~Counted(t))
  <2>1. /\ cycle' = cycle + 1
        /\ pc' = IF (count # -1 /\ cycle' >= count) \/ expired THEN "report" ELSE "pause"
    BY <1>6 DEF Decide
  <2>2. \A t \in Target : /\ stats[t].attempts = cycle' /\ probed[t] = cycle'
                          /\ won[t] = stats[t].connects
    BY <1>2, <1>3, <1>6, <2>1
  <2>3. pc' \in {"report", "pause"} /\ cycle' \in Nat /\ (count # -1 => cycle' <= count)
    BY <1>2, <2>1
  <2>4. LoopTypeOK'
    BY <1>1, <2>3 DEF LoopTypeOK
  <2>5. ThreadInv'
    BY <1>1, <2>3 DEF ThreadInv, Counted
  <2>6. TallyInv'
    <3>1. Reached' = {}
      BY <2>3 DEF Reached
    <3>2. \A t \in Target : cycle' \in Nat /\ stats[t].connects \in Nat
      BY <2>3 DEF LoopTypeOK, StatsType
    <3>3. TotalsSound'
      BY <1>1, <2>2, <3>2 DEF TotalsSound, EveryProbeCounted, OnlyProbesCounted
    <3>4. QED
      BY <1>1, <2>2, <2>3, <3>1, <3>2, <3>3 DEF TallyInv, Verdicts, Wins, Round
  <2>7. CountInv'
    <3>1. pc' = "pause" => (count = -1 \/ cycle' < count) /\ ~expired
      BY <1>2, <2>1
    <3>2. pc' = "report" => expired \/ cycle' = count
      BY <1>2, <2>1
    <3>3. QED
      BY <1>1, <1>2, <2>2, <2>3, <3>1, <3>2 DEF CountInv, CountHonoured, Round
  <2>8. LagInv'
    <3>1. lateProbes = 0 /\ (pc' = "pause" => overdue = 0)
      BY <1>6, <2>1 DEF LagInv
    <3>2. QED
      BY <1>1, <2>3, <3>1 DEF LagInv, StopsPromptly
  <2>9. ExitInv'
    BY <2>3 DEF ExitInv
  <2>10. QED BY <2>4, <2>5, <2>6, <2>7, <2>8, <2>9
<1>7. QED BY <1>5, <1>6

LEMMA PauseLoop == LoopInv /\ Pause => LoopInv'
<1> SUFFICES ASSUME LoopInv, Pause PROVE LoopInv'
  OBVIOUS
<1>1. /\ pc = "pause" /\ pc' = "test"
      /\ UNCHANGED <<k, cycle, count, interrupted, expired, pooled, pending, probing, result,
                     lastRtt, late, lateProbes, overdue, probed, won, stats, exitCode>>
  BY DEF Pause, config, env, poolVars, scratch, totals
<1>2. \A t \in Target : /\ stats[t].attempts = cycle /\ probed[t] = cycle
                        /\ won[t] = stats[t].connects
                        /\ cycle \in Nat /\ won[t] \in Nat
  BY <1>1, SettledTally
<1> USE DEF LoopInv
<1>3. LoopTypeOK'
  BY <1>1 DEF LoopTypeOK
<1>4. ThreadInv'
  BY <1>1 DEF ThreadInv, Counted
<1>5. TallyInv'
  <2>1. Reached' = {}
    BY <1>1 DEF Reached
  <2>2. TotalsSound'
    BY <1>1, <1>2 DEF TotalsSound, EveryProbeCounted, OnlyProbesCounted
  <2>3. QED
    BY <1>1, <1>2, <2>1, <2>2 DEF TallyInv, Verdicts, Wins, Round
<1>6. CountInv'
  BY <1>1, <1>2 DEF CountInv, CountHonoured, Round, LoopTypeOK
<1>7. LagInv'
  BY <1>1 DEF LagInv, StopsPromptly
<1>8. ExitInv'
  BY <1>1 DEF ExitInv
<1>9. QED BY <1>3, <1>4, <1>5, <1>6, <1>7, <1>8

LEMMA ReportLoop == LoopInv /\ Report => LoopInv'
<1> SUFFICES ASSUME LoopInv, Report PROVE LoopInv'
  OBVIOUS
<1>1. /\ pc = "report" /\ pc' = "exit"
      /\ UNCHANGED <<k, cycle, count, interrupted, expired, pooled, pending, probing, result,
                     lastRtt, late, lateProbes, overdue, probed, won, stats>>
  BY DEF Report, Pool!Close, config, env, poolVars, scratch, totals
<1>2. exitCode' = IF Attempted /\ ~Connected THEN "failure" ELSE "success"
  BY DEF Report
<1> USE DEF LoopInv
<1>3. LoopTypeOK'
  BY <1>1 DEF LoopTypeOK
<1>4. ThreadInv'
  BY <1>1 DEF ThreadInv, Counted
<1>5. TallyInv'
  BY <1>1 DEF TallyInv, TotalsSound, EveryProbeCounted, OnlyProbesCounted, Settled, Round
<1>6. CountInv'
  BY <1>1 DEF CountInv, CountHonoured, Round
<1>7. LagInv'
  BY <1>1 DEF LagInv, StopsPromptly
<1>8. ExitInv'
  BY <1>1, <1>2 DEF ExitInv, Attempted, Connected
<1>9. QED BY <1>3, <1>4, <1>5, <1>6, <1>7, <1>8

LEMMA StutterLoop == LoopInv /\ UNCHANGED vars => LoopInv'
<1> SUFFICES ASSUME LoopInv, UNCHANGED vars PROVE LoopInv'
  OBVIOUS
<1>1. UNCHANGED <<pc, k, cycle, count, interrupted, expired, pooled, pending, probing, result,
                  lastRtt, late, lateProbes, overdue, probed, won, stats, exitCode>>
  BY DEF vars, config, env, poolVars, scratch, totals
<1> USE DEF LoopInv
<1>2. LoopTypeOK'
  BY <1>1 DEF LoopTypeOK
<1>3. ThreadInv'
  BY <1>1 DEF ThreadInv, Counted
<1>4. TallyInv'
  BY <1>1 DEF TallyInv, TotalsSound, EveryProbeCounted, OnlyProbesCounted, Settled,
              Verdicts, Wins, Reached, Counted
<1>5. CountInv'
  BY <1>1 DEF CountInv, CountHonoured
<1>6. LagInv'
  BY <1>1 DEF LagInv, StopsPromptly
<1>7. ExitInv'
  BY <1>1 DEF ExitInv, Attempted, Connected
<1>8. QED BY <1>2, <1>3, <1>4, <1>5, <1>6, <1>7

-----------------------------------------------------------------------------
(* The tally of a run holds in each of its states, whatever the signal, the
   deadline and the schedule of the pool do. *)
THEOREM LoopInvariance == Spec => []LoopInv
<1>1. LoopInv /\ [Next]_vars => LoopInv'
  <2> SUFFICES ASSUME LoopInv, [Next]_vars PROVE LoopInv'
    OBVIOUS
  <2>1. CASE Main
    BY <2>1, SetupLoop, TestLoop, SeqBeginLoop, CycleDoneLoop, ProcessLoop, DecideLoop,
       PauseLoop, ReportLoop DEF Main
  <2>2. CASE \E t \in Target : PoolBegin(t)
    BY <2>2, PoolBeginLoop
  <2>3. CASE ProbeEnds
    BY <2>3, SeqEndLoop, PoolEndLoop DEF ProbeEnds
  <2>4. CASE Interrupt \/ Tick
    BY <2>4, EnvironmentLoop
  <2>5. CASE Exited \/ UNCHANGED vars
    BY <2>5, StutterLoop DEF Exited
  <2>6. QED
    BY <2>1, <2>2, <2>3, <2>4, <2>5 DEF Next
<1>2. QED
  BY InitLoop, <1>1, PTL DEF Spec, SafeSpec

(* No verdict is lost, and with a pool nothing but verdicts is counted. *)
THEOREM TotalsAreSound == Spec => []TotalsSound
<1>1. LoopInv => TotalsSound
  BY DEF LoopInv, TallyInv
<1>2. QED
  BY LoopInvariance, <1>1, PTL

(* --count N makes N probes of each target, unless the signal or the deadline
   ends the run, and never more. *)
THEOREM CountIsHonoured == Spec => []CountHonoured
<1>1. LoopInv => CountHonoured
  BY DEF LoopInv, CountInv
<1>2. QED
  BY LoopInvariance, <1>1, PTL

(* After the signal at most one target is still probed, or one round with a
   pool, and no second round begins after the deadline. *)
THEOREM StopIsPrompt == Spec => []StopsPromptly
<1>1. LoopInv => StopsPromptly
  BY DEF LoopInv, LagInv
<1>2. QED
  BY LoopInvariance, <1>1, PTL

(* A run that reached a target does not report failure, and with a pool a run
   in which every probe failed does. *)
THEOREM ExitCodeIsSound == Spec => []ExitCodeSound
<1>1. LoopInv => ExitCodeSound
  <2> SUFFICES ASSUME LoopInv, pc = "exit" PROVE ExitCodeSound
    BY DEF ExitCodeSound, ExitCodeTruthful
  <2>1. \A t \in Target :
          /\ stats[t].attempts \in Nat /\ stats[t].connects \in Nat
          /\ probed[t] \in Nat /\ won[t] \in Nat
          /\ stats[t].attempts >= probed[t] /\ stats[t].connects >= won[t]
          /\ pooled => stats[t].connects <= won[t]
    BY DEF LoopInv, LoopTypeOK, StatsType, TallyInv, TotalsSound, EveryProbeCounted,
           OnlyProbesCounted, Settled
  <2>2. \/ exitCode = IF Attempted /\ ~Connected THEN "failure" ELSE "success"
        \/ exitCode = "failure" /\ \A t \in Target : probed[t] = 0 /\ won[t] = 0
    BY DEF LoopInv, ExitInv
  <2>3. ASSUME \E t \in Target : won[t] > 0 PROVE exitCode = "success"
    BY <2>1, <2>2, <2>3 DEF Connected
  <2>4. ASSUME pooled, \E t \in Target : probed[t] > 0, \A t \in Target : won[t] = 0
        PROVE  exitCode = "failure"
    <3>1. Attempted
      BY <2>1, <2>4 DEF Attempted
    <3>2. ~Connected
      BY <2>1, <2>4 DEF Connected
    <3>3. QED
      BY <2>2, <3>1, <3>2
  <2>5. QED
    BY <2>3, <2>4 DEF ExitCodeSound, ExitCodeTruthful
<1>2. QED
  BY LoopInvariance, <1>1, PTL
-----------------------------------------------------------------------------
(* What the reports say, target by target.                                 *)

(* A success ends an outage, whatever the latency half of the record does. *)
LEMMA SuccessResets ==
  ASSUME NEW d \in DiagType, NEW rtt \in Nat
  PROVE  LET e == ObserveSuccess(d, rtt)
         IN e \in DiagType /\ e.isDown = FALSE /\ e.consecFails = 0
<1> DEFINE low == IF rtt < d.baseline THEN rtt ELSE d.baseline
           mean == IF d.ewmaInit THEN 3 * rtt * d.scale + 7 * d.ewma ELSE rtt
           unit == IF d.ewmaInit THEN 10 * d.scale ELSE 1
           t == [d EXCEPT !.baseline = low, !.ewma = mean, !.scale = unit, !.ewmaInit = TRUE]
           u == [t EXCEPT !.isDown = FALSE, !.consecFails = 0]
           high == IF u.highLatency THEN ~BackToNormal(u) ELSE AboveSpike(u)
<1>1. low \in Nat /\ mean \in Nat /\ unit \in Nat
  <2>1. d.baseline \in Nat /\ d.scale \in Nat /\ d.ewma \in Nat
    BY DEF DiagType
  <2>2. 3 * rtt * d.scale \in Nat
    BY <2>1
  <2>3. QED
    BY <2>1, <2>2
<1>2. ObserveSuccess(d, rtt) = [u EXCEPT !.highLatency = high]
  <2>1. TrackLatency(d, rtt) = t
    BY DEF TrackLatency, DiagType
  <2>2. QED
    BY <2>1 DEF ObserveSuccess, DiagType
<1>3. high \in BOOLEAN
  BY DEF BackToNormal, AboveSpike
<1> HIDE DEF low, mean, unit
<1>4. t \in DiagType
  BY <1>1 DEF DiagType
<1> HIDE DEF t
<1>5. u \in DiagType /\ u.consecFails = 0 /\ u.isDown = FALSE
  BY <1>4 DEF DiagType
<1> HIDE DEF u, high
<1>6. QED
  BY <1>2, <1>3, <1>5 DEF DiagType

LEMMA FailureType == \A d \in DiagType : ObserveFailure(d) \in DiagType
<1> SUFFICES ASSUME NEW d \in DiagType PROVE ObserveFailure(d) \in DiagType
  OBVIOUS
<1> DEFINE n == d.consecFails + 1
           longest == IF n > d.longestFailStreak THEN n ELSE d.longestFailStreak
           down == d.isDown \/ n = DownThreshold
           more == IF n = DownThreshold THEN d.outages + 1 ELSE d.outages
<1>1. n \in Nat /\ longest \in Nat /\ down \in BOOLEAN /\ more \in Nat
  BY DEF DiagType
<1>2. ObserveFailure(d) = [d EXCEPT !.consecFails = n, !.longestFailStreak = longest,
                                    !.isDown = down, !.outages = more]
  BY DEF ObserveFailure, DiagType
<1> HIDE DEF n, longest, down, more
<1>3. QED
  BY <1>1, <1>2 DEF DiagType

LEMMA DiagAfterIs ==
  ASSUME NEW t \in Target, diag[t] \in DiagType, lastRtt[t] \in Nat
  PROVE  /\ DiagAfter(t) \in DiagType
         /\ result[t] = "ok" => ~DiagAfter(t).isDown /\ DiagAfter(t).consecFails = 0
<1>1. CASE result[t] = "ok"
  <2>1. DiagAfter(t) = ObserveSuccess(diag[t], lastRtt[t])
    BY <1>1 DEF DiagAfter, Counted, Observe
  <2> DEFINE e == ObserveSuccess(diag[t], lastRtt[t])
  <2>2. e \in DiagType /\ e.isDown = FALSE /\ e.consecFails = 0
    BY SuccessResets
  <2> HIDE DEF e
  <2>3. DiagAfter(t) = e
    BY <2>1 DEF e
  <2>4. QED
    BY <2>2, <2>3
<1>2. CASE result[t] # "ok"
  <2>1. DiagAfter(t) \in {ObserveFailure(diag[t]), diag[t]}
    BY <1>2 DEF DiagAfter, Counted, Observe
  <2>2. QED
    BY <1>2, <2>1, FailureType
<1>3. QED BY <1>1, <1>2

LEMMA InitAgree == Init => AgreeInv
<1> SUFFICES ASSUME Init PROVE AgreeInv
  OBVIOUS
<1>1. DiagInit \in DiagType /\ DiagInit.isDown = FALSE /\ DiagInit.consecFails = 0
  BY ProbeLoopAssumption DEF DiagInit, DiagType
<1>2. StatsInit.attempts = 0 /\ StatsInit.connects = 0 /\ StatsInit.failures = 0
  BY DEF StatsInit
<1>3. QED
  BY <1>1, <1>2 DEF Init, AgreeInv

(* Whoever leaves the totals alone keeps the agreement, unless a record is
   written outside the rounds or the exit code is wrong. *)
LEMMA QuietAgree ==
  ASSUME AgreeInv, UNCHANGED <<stats, diag>>,
         pc' \in Round \/ (pc \notin Round /\ result' = result),
         pc' = "exit" =>
           \/ pc = "exit" /\ exitCode' = exitCode
           \/ ~Attempted
           \/ exitCode' = IF Connected THEN "success" ELSE "failure"
  PROVE  AgreeInv'
<1>1. (pc' = "exit" /\ Attempted') => exitCode' = IF Connected' THEN "success" ELSE "failure"
  BY DEF AgreeInv, Attempted, Connected
<1>2. QED
  BY <1>1 DEF AgreeInv

LEMMA ProcessAgree == LoopInv /\ AgreeInv /\ Process => AgreeInv'
<1> SUFFICES ASSUME LoopInv, AgreeInv, Process PROVE AgreeInv'
  OBVIOUS
<1>1. /\ stats' = [t \in Target |-> StatsAfter(t)]
      /\ diag' = [t \in Target |-> DiagAfter(t)]
      /\ pc' = "decide" /\ result' = result
  BY DEF Process, scratch
<1>2. ASSUME NEW t \in Target
      PROVE  /\ diag'[t] \in DiagType
             /\ result[t] = "ok" => /\ ~diag'[t].isDown /\ diag'[t].consecFails = 0
                                    /\ stats'[t].connects > 0
             /\ stats'[t].attempts = stats'[t].connects + stats'[t].failures
  <2>1. /\ diag[t] \in DiagType /\ lastRtt[t] \in Nat /\ result[t] \in Result
        /\ stats[t].attempts = stats[t].connects + stats[t].failures
        /\ stats[t].connects \in Nat /\ stats[t].failures \in Nat
    BY DEF AgreeInv, LoopInv, LoopTypeOK, StatsType
  <2>2. diag'[t] = DiagAfter(t) /\ stats'[t] = StatsAfter(t)
    BY <1>1
  <2>3. /\ DiagAfter(t) \in DiagType
        /\ result[t] = "ok" => ~DiagAfter(t).isDown /\ DiagAfter(t).consecFails = 0
    BY <2>1, DiagAfterIs
  <2>4. /\ StatsAfter(t).attempts = stats[t].attempts + (IF Counted(t) THEN 1 ELSE 0)
        /\ StatsAfter(t).connects = stats[t].connects + (IF result[t] = "ok" THEN 1 ELSE 0)
        /\ StatsAfter(t).failures = stats[t].failures + (IF result[t] = "failed" THEN 1 ELSE 0)
    BY StatsAfterCounts DEF LoopInv
  <2>5. /\ StatsAfter(t).attempts = StatsAfter(t).connects + StatsAfter(t).failures
        /\ result[t] = "ok" => StatsAfter(t).connects > 0
    BY <2>1, <2>4 DEF Counted, Result
  <2>6. QED
    BY <2>2, <2>3, <2>5
<1>3. diag' \in [Target -> DiagType]
  BY <1>1, <1>2
<1>4. QED
  BY <1>1, <1>2, <1>3 DEF AgreeInv

LEMMA NextAgree == LoopInv /\ AgreeInv /\ [Next]_vars => AgreeInv'
<1> SUFFICES ASSUME LoopInv, AgreeInv, [Next]_vars PROVE AgreeInv'
  OBVIOUS
<1>1. CASE Setup
  <2>1. ~Attempted
    BY <1>1, SettledTally DEF Setup, Attempted, LoopInv, CountInv
  <2>2. UNCHANGED <<stats, diag, result>> /\ pc = "setup"
    BY <1>1 DEF Setup, totals, scratch
  <2>3. QED
    BY <2>1, <2>2, QuietAgree DEF Round
<1>2. CASE Report
  <2>1. /\ pc = "report" /\ UNCHANGED <<stats, diag, result>>
        /\ exitCode' = IF Attempted /\ ~Connected THEN "failure" ELSE "success"
    BY <1>2 DEF Report, totals, scratch
  <2>2. QED
    BY <2>1, QuietAgree DEF Round
<1>3. CASE Process
  BY <1>3, ProcessAgree
<1>4. CASE Test \/ Decide \/ Pause
  <2>1. /\ pc \in {"test", "decide", "pause"} /\ UNCHANGED <<stats, diag, result>>
        /\ pc' # "exit"
    BY <1>4 DEF Test, Decide, Pause, totals, scratch
  <2>2. QED
    BY <2>1, QuietAgree DEF Round
<1>5. CASE SeqBegin \/ CycleDone
  <2>1. pc' \in Round /\ UNCHANGED <<stats, diag>> /\ pc' # "exit"
    BY <1>5 DEF SeqBegin, CycleDone, totals, Round
  <2>2. QED
    BY <2>1, QuietAgree
<1>6. CASE ProbeEnds \/ \E t \in Target : PoolBegin(t)
  <2>1. pc' \in Round /\ UNCHANGED <<stats, diag>> /\ pc' # "exit"
    <3>1. CASE \E r \in Result : \E rtt \in RttOf(r) : SeqEnd(r, rtt)
      BY <3>1 DEF SeqEnd, totals, Round
    <3>2. CASE \E t \in Target, r \in Result : \E rtt \in RttOf(r) : PoolEnd(t, r, rtt)
      <4>1. pc' = pc /\ UNCHANGED <<stats, diag>> /\ probing # {}
        BY <3>2 DEF PoolEnd, Pool!EndProbe, totals
      <4>2. QED
        BY <4>1 DEF LoopInv, ThreadInv, Round
    <3>3. CASE \E t \in Target : PoolBegin(t)
      <4>1. pc' = pc /\ UNCHANGED <<stats, diag>> /\ pending # {}
        BY <3>3 DEF PoolBegin, Pool!BeginProbe, totals
      <4>2. QED
        BY <4>1 DEF LoopInv, ThreadInv, Round
    <3>4. QED BY <1>6, <3>1, <3>2, <3>3 DEF ProbeEnds
  <2>2. QED
    BY <2>1, QuietAgree
<1>7. CASE Interrupt \/ Tick \/ Exited \/ UNCHANGED vars
  <2>1. UNCHANGED <<pc, stats, diag, result, exitCode>>
    BY <1>7 DEF Interrupt, Tick, Exited, vars, totals, scratch
  <2>2. QED
    BY <2>1, QuietAgree
<1>8. QED
  BY <1>1, <1>2, <1>3, <1>4, <1>5, <1>6, <1>7 DEF Next, Main

(* The combined loss is total exactly if some target was probed and none was
   ever reached. *)
LEMMA TotalLoss ==
  ASSUME LoopTypeOK, AgreeInv,
         NEW all, all.attempts = SumOf(stats, "attempts", Target),
                  all.failures = SumOf(stats, "failures", Target)
  PROVE  LossAtLeast(all, 100) <=> Attempted /\ ~Connected
<1> DEFINE a == SumOf(stats, "attempts", Target)
           c == SumOf(stats, "connects", Target)
           f == SumOf(stats, "failures", Target)
<1>1. /\ NatField(stats, "attempts", Target) /\ NatField(stats, "connects", Target)
      /\ NatField(stats, "failures", Target)
  BY DEF NatField, LoopTypeOK, StatsType
<1>2. IsFiniteSet(Target) /\ Target \in SUBSET Target
  BY TargetFinite
<1>3. a \in Nat /\ c \in Nat /\ f \in Nat
  BY <1>1, <1>2, SumType
<1>4. a = c + f
  <2>1. \A t \in Target : stats[t]["attempts"] = stats[t]["connects"] + stats[t]["failures"]
    BY DEF AgreeInv
  <2>2. QED
    BY <1>1, <1>2, <2>1, SumAdds
<1>5. c = 0 <=> ~Connected
  <2>1. c = 0 <=> \A t \in Target : stats[t]["connects"] = 0
    BY <1>1, <1>2, SumZero
  <2>2. \A t \in Target : stats[t].connects \in Nat
    BY DEF LoopTypeOK, StatsType
  <2>3. QED
    BY <2>1, <2>2 DEF Connected
<1>6. a = 0 <=> ~Attempted
  <2>1. a = 0 <=> \A t \in Target : stats[t]["attempts"] = 0
    BY <1>1, <1>2, SumZero
  <2>2. \A t \in Target : stats[t].attempts \in Nat
    BY DEF LoopTypeOK, StatsType
  <2>3. QED
    BY <2>1, <2>2 DEF Attempted
<1>7. LossAtLeast(all, 100) <=> a > 0 /\ 100 * f >= 100 * a
  BY DEF LossAtLeast
<1> HIDE DEF a, c, f
<1>8. QED
  BY <1>3, <1>4, <1>5, <1>6, <1>7

LEMMA AgreeIsReported == LoopInv /\ AgreeInv => ReportsAgree
<1> SUFFICES ASSUME LoopInv, AgreeInv, pc = "exit", Attempted PROVE ReportsAgree
  BY DEF ReportsAgree
<1> DEFINE all == [attempts |-> SumOf(stats, "attempts", Target),
                   failures |-> SumOf(stats, "failures", Target)]
<1>1. LossAtLeast(all, 100) <=> ~Connected
  BY TotalLoss DEF LoopInv
<1>2. Combined = IF (\E t \in Target : diag[t].isDown) \/ LossAtLeast(all, 100) THEN "DOWN"
                 ELSE IF LossAbove(all, 5) \/ \E t \in Target : diag[t].outages > 0
                      THEN "DEGRADED" ELSE "HEALTHY"
  BY DEF Combined, SumOf
<1>3. exitCode = IF Connected THEN "success" ELSE "failure"
  BY DEF AgreeInv
<1> HIDE DEF all
<1>4. exitCode = "failure" => Combined = "DOWN"
  BY <1>1, <1>2, <1>3
<1>5. Combined = "DOWN" => exitCode = "failure" \/ \E t \in Target : diag[t].isDown
  <2>1. ~(\E t \in Target : diag[t].isDown) /\ ~LossAtLeast(all, 100) => Combined # "DOWN"
    BY <1>2
  <2>2. QED
    BY <1>1, <1>3, <2>1
<1>6. ASSUME NEW t \in Target
      PROVE  /\ diag[t].isDown => ~Up(t) /\ Verdict(diag[t], stats[t]) = "DOWN"
             /\ Up(t) /\ stats[t].attempts > 0 => diag[t].consecFails = 0 /\ stats[t].connects > 0
             /\ stats[t].attempts = stats[t].connects + stats[t].failures
  BY DEF AgreeInv, Up, Verdict, Round
<1>7. QED
  BY <1>4, <1>5, <1>6 DEF ReportsAgree

(* The exit code, the combined verdict and pingdd_up never contradict each
   other, whichever round the signal cut off and for any number of targets. *)
THEOREM ReportsDoAgree == Spec => []ReportsAgree
<1>1. Spec => []AgreeInv
  <2>1. Spec => Init /\ [][Next]_vars
    BY DEF Spec, SafeSpec
  <2>2. QED
    BY InitAgree, NextAgree, LoopInvariance, <2>1, PTL
<1>2. QED
  BY AgreeIsReported, LoopInvariance, <1>1, PTL
=============================================================================
