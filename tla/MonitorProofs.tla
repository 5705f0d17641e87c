--------------------------- MODULE MonitorProofs ---------------------------
(***************************************************************************)
(* The outages, the alerts, the latency and the percentiles of a target,   *)
(* for every threshold, every capacity and every sequence of results.      *)
(***************************************************************************)
EXTENDS Monitor, FiniteSetTheorems, SequenceTheorems, WellFoundedInduction, TLAPS

(* The failures in a row that end observation i of a sequence of results. *)
RunOf(h, i) == {j \in 1 .. i : \A k \in j .. i : ~h[k].ok}

LEMMA RunFinite ==
  ASSUME NEW h, NEW i \in Nat
  PROVE  /\ RunOf(h, i) \subseteq 1 .. i
         /\ IsFiniteSet(RunOf(h, i)) /\ Cardinality(RunOf(h, i)) \in Nat
<1>1. RunOf(h, i) \subseteq 1 .. i
  BY DEF RunOf
<1>2. IsFiniteSet(1 .. i)
  BY FS_Interval
<1>3. IsFiniteSet(RunOf(h, i))
  BY <1>1, <1>2, FS_Subset
<1>4. QED
  BY <1>1, <1>3, FS_CardinalityType

(* What another observation does to the runs: those before it stay, a success
   ends the current one, and a failure makes it one longer. *)
LEMMA RunGrows ==
  ASSUME NEW h \in Seq(Observation), NEW o \in Observation
  PROVE  LET g == Append(h, o)
             n == Len(h)
         IN /\ \A i \in 0 .. n : RunOf(g, i) = RunOf(h, i)
            /\ o.ok => RunOf(g, n + 1) = {}
            /\ ~o.ok => RunOf(g, n + 1) = RunOf(h, n) \cup {n + 1}
<1> DEFINE g == Append(h, o)
           n == Len(h)
<1>1. n \in Nat /\ g[n + 1] = o /\ \A k \in 1 .. n : g[k] = h[k]
  OBVIOUS
<1> HIDE DEF g, n
<1>2. ASSUME NEW i \in 0 .. n PROVE RunOf(g, i) = RunOf(h, i)
  <2>1. \A j \in 1 .. i : \A k \in j .. i : k \in 1 .. n /\ g[k] = h[k]
    BY <1>1
  <2>2. QED
    BY <2>1 DEF RunOf
<1>3. ASSUME o.ok PROVE RunOf(g, n + 1) = {}
  <2>1. \A j \in 1 .. n + 1 : n + 1 \in j .. n + 1
    BY <1>1
  <2>2. QED
    BY <1>1, <1>3, <2>1 DEF RunOf
<1>4. ASSUME ~o.ok PROVE RunOf(g, n + 1) = RunOf(h, n) \cup {n + 1}
  <2>1. ASSUME NEW j \in 1 .. n
        PROVE  (\A k \in j .. n + 1 : ~g[k].ok) <=> (\A k \in j .. n : ~h[k].ok)
    <3>1. \A k \in j .. n + 1 : k = n + 1 \/ (k \in j .. n /\ g[k] = h[k])
      BY <1>1
    <3>2. \A k \in j .. n : k \in j .. n + 1 /\ g[k] = h[k]
      BY <1>1
    <3>3. QED
      BY <1>1, <1>4, <3>1, <3>2
  <2>2. \A k \in n + 1 .. n + 1 : ~g[k].ok
    BY <1>1, <1>4
  <2>3. \A j : j \in 1 .. n + 1 <=> j \in 1 .. n \/ j = n + 1
    BY <1>1
  <2>4. n + 1 \notin 1 .. n
    BY <1>1
  <2>5. QED
    BY <2>1, <2>2, <2>3, <2>4 DEF RunOf
<1>5. QED
  BY <1>2, <1>3, <1>4 DEF g, n

(* The same as lengths. *)
Streak(h, i) == Cardinality(RunOf(h, i))

LEMMA StreakNext ==
  ASSUME NEW h \in Seq(Observation), NEW o \in Observation
  PROVE  LET g == Append(h, o)
             n == Len(h)
         IN /\ \A i \in 0 .. n : Streak(g, i) = Streak(h, i) /\ Streak(h, i) \in Nat
            /\ Streak(g, n + 1) = IF o.ok THEN 0 ELSE Streak(h, n) + 1
            /\ Streak(h, 0) = 0
<1> DEFINE g == Append(h, o)
           n == Len(h)
<1>1. n \in Nat
  OBVIOUS
<1>2. /\ \A i \in 0 .. n : RunOf(g, i) = RunOf(h, i)
      /\ o.ok => RunOf(g, n + 1) = {}
      /\ ~o.ok => RunOf(g, n + 1) = RunOf(h, n) \cup {n + 1}
  BY RunGrows
<1> HIDE DEF g, n
<1>3. \A i \in 0 .. n : Streak(g, i) = Streak(h, i) /\ Streak(h, i) \in Nat
  BY <1>1, <1>2, RunFinite DEF Streak
<1>4. ASSUME o.ok PROVE Streak(g, n + 1) = 0
  BY <1>2, <1>4, FS_EmptySet DEF Streak
<1>5. ASSUME ~o.ok PROVE Streak(g, n + 1) = Streak(h, n) + 1
  <2>1. n + 1 \notin RunOf(h, n) /\ IsFiniteSet(RunOf(h, n))
    <3>1. n + 1 \notin 1 .. n
      BY <1>1
    <3>2. QED
      BY <1>1, <3>1, RunFinite
  <2>2. Cardinality(RunOf(h, n) \cup {n + 1}) = Cardinality(RunOf(h, n)) + 1
    BY <2>1, FS_AddElement
  <2>3. QED
    BY <1>2, <1>5, <2>2 DEF Streak
<1>6. Streak(h, 0) = 0
  <2>1. 1 .. 0 = {}
    OBVIOUS
  <2>2. RunOf(h, 0) = {}
    BY <2>1 DEF RunOf
  <2>3. QED
    BY <2>2, FS_EmptySet DEF Streak
<1>7. QED
  BY <1>3, <1>4, <1>5, <1>6 DEF g, n

LEMMA RunIsStreak == \A i : Run(i) = Streak(hist, i)
BY DEF Run, Streak, RunOf

-----------------------------------------------------------------------------
(* What Diag_Observe does to the counts of outages; the latency half of a
   success leaves them alone. *)
LEMMA SuccessResets ==
  ASSUME diag \in DiagType, NEW rtt \in Nat
  PROVE  LET d == ObserveSuccess(diag, rtt)
         IN /\ d \in DiagType /\ d.consecFails = 0 /\ d.isDown = FALSE
            /\ d.outages = diag.outages /\ d.longestFailStreak = diag.longestFailStreak
<1> DEFINE low == IF rtt < diag.baseline THEN rtt ELSE diag.baseline
           mean == IF diag.ewmaInit THEN 3 * rtt * diag.scale + 7 * diag.ewma ELSE rtt
           unit == IF diag.ewmaInit THEN 10 * diag.scale ELSE 1
           t == [diag EXCEPT !.baseline = low, !.ewma = mean, !.scale = unit, !.ewmaInit = TRUE]
           u == [t EXCEPT !.isDown = FALSE, !.consecFails = 0]
           high == IF u.highLatency THEN ~BackToNormal(u) ELSE AboveSpike(u)
<1>1. low \in Nat /\ mean \in Nat /\ unit \in Nat
  <2>1. diag.baseline \in Nat /\ diag.scale \in Nat /\ diag.ewma \in Nat
    BY DEF DiagType
  <2>2. 3 * rtt * diag.scale \in Nat
    BY <2>1
  <2>3. QED
    BY <2>1, <2>2
<1>2. ObserveSuccess(diag, rtt) = [u EXCEPT !.highLatency = high]
  <2>1. TrackLatency(diag, rtt) = t
    BY DEF TrackLatency, DiagType
  <2>2. QED
    BY <2>1 DEF ObserveSuccess, DiagType
<1>3. high \in BOOLEAN
  BY DEF BackToNormal, AboveSpike
<1> HIDE DEF low, mean, unit
<1>4. t \in DiagType /\ t.outages = diag.outages /\ t.longestFailStreak = diag.longestFailStreak
  BY <1>1 DEF DiagType
<1> HIDE DEF t
<1>5. /\ u \in DiagType /\ u.consecFails = 0 /\ u.isDown = FALSE
      /\ u.outages = t.outages /\ u.longestFailStreak = t.longestFailStreak
  BY <1>4 DEF DiagType
<1> HIDE DEF u, high
<1>6. QED
  BY <1>2, <1>3, <1>4, <1>5 DEF DiagType

LEMMA FailureCounts ==
  ASSUME diag \in DiagType
  PROVE  LET d == ObserveFailure(diag)
             n == diag.consecFails + 1
         IN /\ d \in DiagType /\ d.consecFails = n
            /\ (d.isDown <=> diag.isDown \/ n = DownThreshold)
            /\ d.outages = IF n = DownThreshold THEN diag.outages + 1 ELSE diag.outages
            /\ d.longestFailStreak = IF n > diag.longestFailStreak
                                     THEN n ELSE diag.longestFailStreak
<1> DEFINE n == diag.consecFails + 1
           longest == IF n > diag.longestFailStreak THEN n ELSE diag.longestFailStreak
           down == diag.isDown \/ n = DownThreshold
           count == IF n = DownThreshold THEN diag.outages + 1 ELSE diag.outages
<1>1. n \in Nat /\ longest \in Nat /\ down \in BOOLEAN /\ count \in Nat
  BY DEF DiagType
<1>2. ObserveFailure(diag) = [diag EXCEPT !.consecFails = n, !.longestFailStreak = longest,
                                          !.isDown = down, !.outages = count]
  BY DEF ObserveFailure, DiagType
<1> HIDE DEF n, longest, down, count
<1>3. LET d == [diag EXCEPT !.consecFails = n, !.longestFailStreak = longest,
                            !.isDown = down, !.outages = count]
      IN /\ d \in DiagType /\ d.consecFails = n /\ d.isDown = down
         /\ d.outages = count /\ d.longestFailStreak = longest
  BY <1>1 DEF DiagType
<1>4. QED
  BY <1>2, <1>3 DEF n, longest, down, count

-----------------------------------------------------------------------------
LEMMA InitHistory == Init => HistoryInv
<1> SUFFICES ASSUME Init PROVE HistoryInv
  OBVIOUS
<1>1. hist = << >> /\ hist \in Seq(Observation) /\ Len(hist) = 0 /\ DOMAIN hist = {}
  BY DEF Init
<1>2. diag \in DiagType /\ diag.consecFails = 0 /\ diag.longestFailStreak = 0
      /\ diag.outages = 0 /\ diag.isDown = FALSE
  BY MonitorAssumption DEF Init, DiagInit, DiagType
<1>3. Run(0) = 0
  <2>1. 1 .. 0 = {}
    OBVIOUS
  <2>2. QED
    BY <2>1, FS_EmptySet DEF Run
<1>4. Runs = {0}
  <2>1. 0 .. 0 = {0}
    OBVIOUS
  <2>2. QED
    BY <1>1, <1>3, <2>1 DEF Runs
<1>5. Cardinality({i \in DOMAIN hist : Run(i) = DownThreshold}) = 0
  <2>1. {i \in DOMAIN hist : Run(i) = DownThreshold} = {}
    BY <1>1
  <2>2. QED
    BY <2>1, FS_EmptySet
<1>6. DownThreshold \in Nat \ {0}
  BY MonitorAssumption
<1>7. QED
  BY <1>1, <1>2, <1>3, <1>4, <1>5, <1>6 DEF HistoryInv, OutagesMatchHistory

(* A step that records an observation, whichever it is. *)
LEMMA RecordHistory ==
  ASSUME HistoryInv, NEW ok \in BOOLEAN, NEW rtt \in Rtts \cup {0}, Record(ok, rtt)
  PROVE  HistoryInv'
<1> DEFINE o == [ok |-> ok, rtt |-> rtt]
           g == Append(hist, o)
           n == Len(hist)
           now == Streak(hist, n)
           next == Streak(g, n + 1)
           Lengths == {Streak(hist, i) : i \in 0 .. n}
           S == {i \in 1 .. n : Streak(hist, i) = DownThreshold}
           T == {i \in 1 .. n + 1 : Streak(g, i) = DownThreshold}
<1>1. o \in Observation /\ o.ok = ok /\ rtt \in Nat
  BY MonitorAssumption DEF Observation
<1>2. /\ hist \in Seq(Observation) /\ hist' = g
      /\ diag' = IF ok THEN ObserveSuccess(diag, rtt) ELSE ObserveFailure(diag)
      /\ diag \in DiagType
  BY DEF Record, Observe, HistoryInv
<1> HIDE DEF o
<1>3. /\ g \in Seq(Observation) /\ Len(g) = n + 1 /\ n \in Nat
      /\ DOMAIN hist = 1 .. n /\ DOMAIN g = 1 .. n + 1
  BY <1>1, <1>2
<1>4. /\ \A i \in 0 .. n : Streak(g, i) = Streak(hist, i) /\ Streak(hist, i) \in Nat
      /\ next = IF ok THEN 0 ELSE now + 1
      /\ Streak(hist, 0) = 0
  BY <1>1, <1>2, StreakNext
<1>5. DownThreshold \in Nat \ {0}
  BY MonitorAssumption
<1>6. /\ diag.consecFails = now
      /\ diag.longestFailStreak \in Lengths /\ \A m \in Lengths : m <= diag.longestFailStreak
      /\ diag.outages = Cardinality(S)
      /\ diag.isDown <=> now >= DownThreshold
  BY <1>3, RunIsStreak DEF HistoryInv, OutagesMatchHistory, Runs
<1> HIDE DEF g, n
<1>7. {Streak(g, i) : i \in 0 .. n + 1} = Lengths \cup {next}
  <2>1. \A i : i \in 0 .. n + 1 <=> i \in 0 .. n \/ i = n + 1
    BY <1>3
  <2>2. QED
    BY <1>4, <2>1
<1>8. Lengths \subseteq Nat /\ 0 \in Lengths /\ now \in Nat
  <2>1. 0 \in 0 .. n /\ n \in 0 .. n
    BY <1>3
  <2>2. QED
    BY <1>4, <2>1
<1>9. T = IF next = DownThreshold THEN S \cup {n + 1} ELSE S
  <2>1. \A i : i \in 1 .. n + 1 <=> i \in 1 .. n \/ i = n + 1
    BY <1>3
  <2>2. \A i \in 1 .. n : Streak(g, i) = Streak(hist, i)
    BY <1>3, <1>4
  <2>3. QED
    BY <2>1, <2>2
<1>10. IsFiniteSet(S) /\ Cardinality(S) \in Nat /\ n + 1 \notin S
  <2>1. S \subseteq 1 .. n /\ IsFiniteSet(1 .. n) /\ n + 1 \notin 1 .. n
    BY <1>3, FS_Interval
  <2>2. IsFiniteSet(S)
    BY <2>1, FS_Subset
  <2>3. QED
    BY <2>1, <2>2, FS_CardinalityType
<1> HIDE DEF S, T, next, now
<1>11. Cardinality(T) = IF next = DownThreshold THEN Cardinality(S) + 1 ELSE Cardinality(S)
  BY <1>9, <1>10, FS_AddElement
<1>12. ASSUME diag'.consecFails = next,
              diag'.longestFailStreak \in Lengths \cup {next},
              \A m \in Lengths \cup {next} : m <= diag'.longestFailStreak,
              diag'.outages = Cardinality(T),
              diag'.isDown <=> next >= DownThreshold
       PROVE  OutagesMatchHistory'
  <2>1. \A i : Run(i)' = Streak(g, i)
    BY <1>2 DEF Run, Streak, RunOf
  <2>2. Runs' = Lengths \cup {next}
    BY <1>2, <1>3, <1>7, <2>1 DEF Runs
  <2>3. {i \in DOMAIN hist : Run(i) = DownThreshold}' = T
    BY <1>2, <1>3, <2>1 DEF T
  <2>4. Run(Len(hist))' = next
    BY <1>2, <1>3 DEF next, Run, Streak, RunOf
  <2>5. QED
    BY <1>12, <2>2, <2>3, <2>4 DEF OutagesMatchHistory
<1> HIDE DEF Lengths
<1>13. CASE ok
  <2>1. /\ diag' \in DiagType /\ diag'.consecFails = 0 /\ diag'.isDown = FALSE
        /\ diag'.outages = diag.outages /\ diag'.longestFailStreak = diag.longestFailStreak
    BY <1>1, <1>2, <1>13, SuccessResets
  <2>2. next = 0 /\ Lengths \cup {next} = Lengths
    BY <1>4, <1>8, <1>13
  <2>3. Cardinality(T) = Cardinality(S)
    BY <1>5, <1>11, <2>2
  <2>4. OutagesMatchHistory'
    BY <1>5, <1>6, <1>12, <2>1, <2>2, <2>3
  <2>5. QED
    BY <1>2, <1>3, <2>1, <2>4 DEF HistoryInv
<1>14. CASE ~ok
  <2>1. /\ diag' \in DiagType /\ diag'.consecFails = now + 1
        /\ (diag'.isDown <=> diag.isDown \/ now + 1 = DownThreshold)
        /\ diag'.outages = IF now + 1 = DownThreshold THEN diag.outages + 1 ELSE diag.outages
        /\ diag'.longestFailStreak = IF now + 1 > diag.longestFailStreak
                                     THEN now + 1 ELSE diag.longestFailStreak
    BY <1>2, <1>6, <1>14, FailureCounts
  <2>2. next = now + 1
    BY <1>4, <1>14
  <2>3. /\ diag'.longestFailStreak \in Lengths \cup {next}
        /\ \A m \in Lengths \cup {next} : m <= diag'.longestFailStreak
    <3>1. /\ diag.longestFailStreak \in Nat /\ now + 1 \in Nat
          /\ \A m \in Lengths : m \in Nat /\ m <= diag.longestFailStreak
      <4>1. now + 1 \in Nat
        BY <1>8
      <4>2. QED
        BY <1>6, <1>8, <4>1, Zenon
    <3>2. CASE now + 1 > diag.longestFailStreak
      BY <2>1, <2>2, <3>1, <3>2
    <3>3. CASE ~(now + 1 > diag.longestFailStreak)
      BY <1>6, <2>1, <2>2, <3>1, <3>3
    <3>4. QED BY <3>2, <3>3
  <2>4. diag'.outages = Cardinality(T)
    BY <1>6, <1>11, <2>1, <2>2
  <2>5. diag'.isDown <=> next >= DownThreshold
    BY <1>5, <1>6, <1>8, <2>1, <2>2
  <2>6. OutagesMatchHistory'
    BY <1>12, <2>1, <2>2, <2>3, <2>4, <2>5
  <2>7. QED
    BY <1>2, <1>3, <2>1, <2>6 DEF HistoryInv
<1>15. QED BY <1>13, <1>14

LEMMA StutterHistory == HistoryInv /\ UNCHANGED vars => HistoryInv'
BY DEF HistoryInv, OutagesMatchHistory, Runs, Run, vars

-----------------------------------------------------------------------------
(* What an observation does to the statistics and to the latency half of the
   diagnostics. *)
LEMMA SuccessTracks ==
  ASSUME diag \in DiagType, NEW rtt \in Nat
  PROVE  LET d == ObserveSuccess(diag, rtt)
         IN /\ d.baseline = IF rtt < diag.baseline THEN rtt ELSE diag.baseline
            /\ d.ewma = IF diag.ewmaInit THEN 3 * rtt * diag.scale + 7 * diag.ewma ELSE rtt
            /\ d.scale = IF diag.ewmaInit THEN 10 * diag.scale ELSE 1
            /\ d.ewmaInit = TRUE
            /\ d.highLatency <=> IF diag.highLatency THEN ~BackToNormal(d) ELSE AboveSpike(d)
<1> DEFINE low == IF rtt < diag.baseline THEN rtt ELSE diag.baseline
           mean == IF diag.ewmaInit THEN 3 * rtt * diag.scale + 7 * diag.ewma ELSE rtt
           unit == IF diag.ewmaInit THEN 10 * diag.scale ELSE 1
           t == [diag EXCEPT !.baseline = low, !.ewma = mean, !.scale = unit, !.ewmaInit = TRUE]
           u == [t EXCEPT !.isDown = FALSE, !.consecFails = 0]
           high == IF u.highLatency THEN ~BackToNormal(u) ELSE AboveSpike(u)
           d == [u EXCEPT !.highLatency = high]
<1>1. ObserveSuccess(diag, rtt) = d
  <2>1. TrackLatency(diag, rtt) = t
    BY DEF TrackLatency, DiagType
  <2>2. QED
    BY <2>1 DEF ObserveSuccess, DiagType
<1>2. high \in BOOLEAN
  BY DEF BackToNormal, AboveSpike
<1> HIDE DEF low, mean, unit, high
<1>3. /\ u.baseline = low /\ u.ewma = mean /\ u.scale = unit /\ u.ewmaInit = TRUE
      /\ u.highLatency = diag.highLatency
      /\ d.baseline = u.baseline /\ d.ewma = u.ewma /\ d.scale = u.scale
      /\ d.ewmaInit = u.ewmaInit /\ d.highLatency = high
  BY DEF DiagType
<1> HIDE DEF d, u
<1>4. (BackToNormal(d) <=> BackToNormal(u)) /\ (AboveSpike(d) <=> AboveSpike(u))
  BY <1>3 DEF BackToNormal, AboveSpike
<1>5. high <=> IF diag.highLatency THEN ~BackToNormal(d) ELSE AboveSpike(d)
  BY <1>3, <1>4 DEF high
<1>6. QED
  BY <1>1, <1>3, <1>5 DEF low, mean, unit

LEMMA AddSampleKeeps ==
  ASSUME NEW s \in StatsType, NEW v \in Nat, NEW grows \in BOOLEAN
  PROVE  LET t == AddSample(s, v, grows)
         IN /\ t \in StatsType
            /\ t.connects = s.connects /\ t.attempts = s.attempts
            /\ t.minimum = IF v < s.minimum THEN v ELSE s.minimum
            /\ t.maximum = IF v > s.maximum THEN v ELSE s.maximum
            /\ \/ t.samples = s.samples /\ t.sampleCap = s.sampleCap
               \/ /\ Len(s.samples) < MaxRetained
                  /\ t.samples = Append(s.samples, v)
                  /\ t.sampleCap = IF Full(s) THEN Grown(s.sampleCap) ELSE s.sampleCap
<1> DEFINE low == IF v < s.minimum THEN v ELSE s.minimum
           high == IF v > s.maximum THEN v ELSE s.maximum
           sum == s.total + v
           sumSq == s.totalSq + v * v
           agg == [s EXCEPT !.minimum = low, !.maximum = high, !.total = sum, !.totalSq = sumSq]
           longer == Append(s.samples, v)
           room == IF Full(s) THEN Grown(s.sampleCap) ELSE s.sampleCap
           more == [agg EXCEPT !.samples = longer, !.sampleCap = room]
<1>1. low \in Nat /\ high \in Nat /\ sum \in Nat /\ sumSq \in Nat
  <2>1. s.minimum \in Nat /\ s.maximum \in Nat /\ s.total \in Nat /\ s.totalSq \in Nat
    BY DEF StatsType
  <2>2. v * v \in Nat
    OBVIOUS
  <2>3. QED
    BY <2>1, <2>2
<1>2. longer \in Seq(Nat) /\ room \in Nat
  BY MonitorAssumption DEF StatsType, Grown
<1>3. AddSample(s, v, grows) = IF Len(s.samples) >= MaxRetained \/ (Full(s) /\ ~grows)
                               THEN agg ELSE more
  BY DEF AddSample, StatsType
<1> HIDE DEF low, high, sum, sumSq, longer, room
<1>4. /\ agg \in StatsType /\ agg.connects = s.connects /\ agg.attempts = s.attempts
      /\ agg.minimum = low /\ agg.maximum = high
      /\ agg.samples = s.samples /\ agg.sampleCap = s.sampleCap
  BY <1>1 DEF StatsType
<1> HIDE DEF agg
<1>5. /\ more \in StatsType /\ more.connects = agg.connects /\ more.attempts = agg.attempts
      /\ more.minimum = agg.minimum /\ more.maximum = agg.maximum
      /\ more.samples = longer /\ more.sampleCap = room
  BY <1>2, <1>4 DEF StatsType
<1> HIDE DEF more
<1>6. CASE Len(s.samples) >= MaxRetained \/ (Full(s) /\ ~grows)
  BY <1>3, <1>4, <1>6 DEF low, high
<1>7. CASE ~(Len(s.samples) >= MaxRetained \/ (Full(s) /\ ~grows))
  <2>1. Len(s.samples) < MaxRetained
    BY <1>7, MonitorAssumption DEF StatsType
  <2>2. QED
    BY <1>3, <1>4, <1>5, <1>7, <2>1 DEF low, high, longer, room
<1>8. QED BY <1>6, <1>7

(* The same with the counters of a successful probe. *)
LEMMA SuccessStats ==
  ASSUME stats \in StatsType, NEW rtt \in Nat, NEW grows \in BOOLEAN, Success(rtt, grows)
  PROVE  /\ stats' \in StatsType
         /\ stats'.connects = stats.connects + 1
         /\ stats'.minimum = IF rtt < stats.minimum THEN rtt ELSE stats.minimum
         /\ stats'.maximum = IF rtt > stats.maximum THEN rtt ELSE stats.maximum
         /\ \/ stats'.samples = stats.samples /\ stats'.sampleCap = stats.sampleCap
            \/ /\ Len(stats.samples) < MaxRetained
               /\ stats'.samples = Append(stats.samples, rtt)
               /\ stats'.sampleCap = IF Full(stats) THEN Grown(stats.sampleCap)
                                     ELSE stats.sampleCap
<1> DEFINE t == AddSample(stats, rtt, grows)
<1>1. stats' = [t EXCEPT !.connects = t.connects + 1, !.attempts = t.attempts + 1]
  <2>1. t \in StatsType
    BY AddSampleKeeps
  <2> HIDE DEF t
  <2>2. stats' = [t EXCEPT !.connects = @ + 1, !.attempts = @ + 1]
    BY DEF Success, t
  <2>3. QED
    BY <2>1, <2>2 DEF StatsType
<1>2. /\ t \in StatsType
      /\ t.connects = stats.connects /\ t.attempts = stats.attempts
      /\ t.minimum = IF rtt < stats.minimum THEN rtt ELSE stats.minimum
      /\ t.maximum = IF rtt > stats.maximum THEN rtt ELSE stats.maximum
      /\ \/ t.samples = stats.samples /\ t.sampleCap = stats.sampleCap
         \/ /\ Len(stats.samples) < MaxRetained
            /\ t.samples = Append(stats.samples, rtt)
            /\ t.sampleCap = IF Full(stats) THEN Grown(stats.sampleCap) ELSE stats.sampleCap
  BY AddSampleKeeps
<1> HIDE DEF t
<1>3. t.connects + 1 \in Nat /\ t.attempts + 1 \in Nat
  BY <1>2 DEF StatsType
<1>4. /\ stats' \in StatsType /\ stats'.connects = t.connects + 1
      /\ stats'.minimum = t.minimum /\ stats'.maximum = t.maximum
      /\ stats'.samples = t.samples /\ stats'.sampleCap = t.sampleCap
  BY <1>1, <1>2, <1>3 DEF StatsType
<1>5. QED
  BY <1>2, <1>4

LEMMA FailureStats ==
  ASSUME stats \in StatsType, Failure
  PROVE  /\ stats' \in StatsType /\ stats'.connects = stats.connects
         /\ stats'.minimum = stats.minimum /\ stats'.maximum = stats.maximum
         /\ stats'.samples = stats.samples /\ stats'.sampleCap = stats.sampleCap
<1>1. stats' = [stats EXCEPT !.failures = stats.failures + 1, !.attempts = stats.attempts + 1]
  BY DEF Failure, StatsType
<1>2. stats.failures + 1 \in Nat /\ stats.attempts + 1 \in Nat
  BY DEF StatsType
<1>3. QED
  BY <1>1, <1>2 DEF StatsType

LEMMA FailureKeepsLatency ==
  ASSUME diag \in DiagType
  PROVE  LET d == ObserveFailure(diag)
         IN /\ d.baseline = diag.baseline /\ d.ewma = diag.ewma /\ d.scale = diag.scale
            /\ d.ewmaInit = diag.ewmaInit /\ d.highLatency = diag.highLatency
BY DEF ObserveFailure, DiagType

(* The round-trip times observed grow by that of a success, and by nothing else. *)
LEMMA RttsGrow ==
  ASSUME hist \in Seq(Observation), NEW ok \in BOOLEAN, NEW rtt \in Rtts \cup {0},
         hist' = Append(hist, [ok |-> ok, rtt |-> rtt])
  PROVE  SuccessRtts' = IF ok THEN SuccessRtts \cup {rtt} ELSE SuccessRtts
<1> DEFINE o == [ok |-> ok, rtt |-> rtt]
           n == Len(hist)
<1>1. /\ n \in Nat /\ DOMAIN hist = 1 .. n /\ DOMAIN hist' = 1 .. n + 1
      /\ \A i \in 1 .. n : hist'[i] = hist[i]
      /\ hist'[n + 1] = o
      /\ o \in Observation /\ o.ok = ok /\ o.rtt = rtt
  BY DEF Observation
<1> HIDE DEF n, o
<1>2. \A i : i \in 1 .. n + 1 <=> i \in 1 .. n \/ i = n + 1
  BY <1>1
<1>3. ASSUME NEW r PROVE r \in SuccessRtts' <=> r \in SuccessRtts \/ (ok /\ r = rtt)
  <2>1. r \in SuccessRtts' <=> \E i \in 1 .. n + 1 : hist'[i].ok /\ r = hist'[i].rtt
    BY <1>1 DEF SuccessRtts
  <2>2. r \in SuccessRtts <=> \E i \in 1 .. n : hist[i].ok /\ r = hist[i].rtt
    BY <1>1 DEF SuccessRtts
  <2>3. QED
    BY <1>1, <1>2, <2>1, <2>2
<1>4. QED
  BY <1>3

(* The arithmetic of the EWMA: as a mean with weights 3 and 7 it stays
   between the extremes, whatever new extreme the sample is. *)
LEMMA MeanBetween ==
  ASSUME NEW e \in Nat, NEW k \in Nat, NEW lo \in Nat, NEW hi \in Nat, NEW r \in Nat,
         NEW lo2 \in Nat, NEW hi2 \in Nat,
         lo * k <= e, e <= hi * k, lo2 <= lo, lo2 <= r, hi <= hi2, r <= hi2
  PROVE  lo2 * (10 * k) <= 3 * r * k + 7 * e /\ 3 * r * k + 7 * e <= hi2 * (10 * k)
<1>1. lo2 * k <= lo * k /\ lo2 * k <= r * k /\ hi * k <= hi2 * k /\ r * k <= hi2 * k
  <2>1. \A a, b \in Nat : a <= b => a * k <= b * k
    <3> SUFFICES ASSUME NEW a \in Nat, NEW b \in Nat, a <= b PROVE a * k <= b * k
      OBVIOUS
    <3>1. b * k = a * k + (b - a) * k /\ b - a \in Nat
      OBVIOUS
    <3>2. (b - a) * k \in Nat /\ a * k \in Nat
      BY <3>1
    <3>3. QED
      BY <3>1, <3>2
  <2>2. QED
    BY <2>1
<1> DEFINE p == lo2 * k
           q == r * k
           s == hi2 * k
<1>2. p \in Nat /\ q \in Nat /\ s \in Nat /\ p <= e /\ e <= s /\ p <= q /\ q <= s
  <2>1. p \in Nat /\ q \in Nat /\ s \in Nat /\ lo * k \in Nat /\ hi * k \in Nat
    OBVIOUS
  <2>2. QED
    BY <1>1, <2>1
<1>3. lo2 * (10 * k) = 10 * p /\ hi2 * (10 * k) = 10 * s /\ 3 * r * k = 3 * q
  OBVIOUS
<1> HIDE DEF p, q, s
<1>4. QED
  BY <1>2, <1>3

(* The hysteresis: an EWMA above the spike threshold is not back to normal. *)
LEMMA SpikeIsNotNormal ==
  ASSUME NEW d \in DiagType, AboveSpike(d)
  PROVE  ~BackToNormal(d)
<1>1. d.ewma \in Nat /\ d.baseline \in Nat /\ d.scale \in Nat
  BY DEF DiagType
<1>2. 3 * d.baseline * d.scale \in Nat
  BY <1>1
<1>3. QED
  BY <1>1, <1>2 DEF AboveSpike, BackToNormal

LEMMA RttsAreNat ==
  ASSUME hist \in Seq(Observation)
  PROVE  SuccessRtts \subseteq Nat
<1>1. \A i \in DOMAIN hist : hist[i] \in Observation
  OBVIOUS
<1>2. \A o \in Observation : o.rtt \in Rtts \cup {0}
  BY DEF Observation
<1>3. Rtts \cup {0} \subseteq Nat
  BY MonitorAssumption
<1>4. QED
  BY <1>1, <1>2, <1>3 DEF SuccessRtts

LEMMA InitLatency == Init => LatencyInv
<1> SUFFICES ASSUME Init PROVE LatencyInv
  OBVIOUS
<1>1. stats \in StatsType /\ stats.connects = 0 /\ stats.minimum = DblMax /\ stats.maximum = 0
  BY MonitorAssumption DEF Init, StatsInit, StatsType
<1>2. /\ diag.scale = 1 /\ diag.ewmaInit = FALSE /\ diag.highLatency = FALSE
      /\ diag.baseline = DblMax
  BY DEF Init, DiagInit
<1>3. SuccessRtts = {}
  BY DEF Init, SuccessRtts
<1>4. QED
  BY <1>1, <1>2, <1>3 DEF LatencyInv, LatencyTracked

LEMMA SuccessLatency ==
  ASSUME HistoryInv, LatencyInv, NEW rtt \in Rtts, NEW grows \in BOOLEAN, Success(rtt, grows)
  PROVE  LatencyInv'
<1>1. /\ diag \in DiagType /\ hist \in Seq(Observation) /\ stats \in StatsType
      /\ rtt \in Nat /\ rtt < DblMax /\ DblMax \in Nat
      /\ diag.ewma \in Nat /\ diag.scale \in Nat /\ diag.scale > 0 /\ diag.baseline \in Nat
      /\ stats.connects \in Nat /\ stats.minimum \in Nat /\ stats.maximum \in Nat
      /\ diag.ewmaInit \in BOOLEAN /\ diag.highLatency \in BOOLEAN
  BY MonitorAssumption DEF HistoryInv, LatencyInv, StatsType, DiagType
<1>2. /\ diag' = ObserveSuccess(diag, rtt)
      /\ hist' = Append(hist, [ok |-> TRUE, rtt |-> rtt])
  BY DEF Success, Record, Observe
<1>3. /\ diag'.baseline = IF rtt < diag.baseline THEN rtt ELSE diag.baseline
      /\ diag'.ewma = IF diag.ewmaInit THEN 3 * rtt * diag.scale + 7 * diag.ewma ELSE rtt
      /\ diag'.scale = IF diag.ewmaInit THEN 10 * diag.scale ELSE 1
      /\ diag'.ewmaInit = TRUE
      /\ diag'.highLatency <=> IF diag.highLatency THEN ~BackToNormal(diag')
                               ELSE AboveSpike(diag')
  BY <1>1, <1>2, SuccessTracks
<1>4. diag' \in DiagType
  BY <1>1, <1>2, SuccessResets
<1>5. /\ stats' \in StatsType /\ stats'.connects = stats.connects + 1
      /\ stats'.minimum = IF rtt < stats.minimum THEN rtt ELSE stats.minimum
      /\ stats'.maximum = IF rtt > stats.maximum THEN rtt ELSE stats.maximum
  BY <1>1, SuccessStats
<1>6. SuccessRtts' = SuccessRtts \cup {rtt}
  BY <1>1, <1>2, RttsGrow
<1>7. /\ diag.baseline = stats.minimum
      /\ diag.ewmaInit => /\ \A r \in SuccessRtts : stats.minimum <= r /\ r <= stats.maximum
                          /\ stats.minimum * diag.scale <= diag.ewma
                          /\ diag.ewma <= stats.maximum * diag.scale
      /\ ~diag.ewmaInit => SuccessRtts = {} /\ stats.minimum = DblMax /\ stats.maximum = 0
  BY DEF LatencyInv, LatencyTracked
<1>8. diag'.scale > 0 /\ stats'.connects > 0
  BY <1>1, <1>3, <1>5
<1>9. /\ stats'.minimum \in Nat /\ stats'.maximum \in Nat
      /\ stats'.minimum <= stats.minimum /\ stats'.minimum <= rtt
      /\ stats.maximum <= stats'.maximum /\ rtt <= stats'.maximum
  BY <1>1, <1>5
<1>10. \A r \in SuccessRtts' : stats'.minimum <= r /\ r <= stats'.maximum
  <2>1. CASE diag.ewmaInit
    <3>1. SuccessRtts \subseteq Nat
      BY <1>1, RttsAreNat
    <3>2. QED
      BY <1>1, <1>6, <1>7, <1>9, <2>1, <3>1
  <2>2. CASE ~diag.ewmaInit
    BY <1>6, <1>7, <1>9, <2>2
  <2>3. QED BY <2>1, <2>2
<1>11. stats'.minimum * diag'.scale <= diag'.ewma /\ diag'.ewma <= stats'.maximum * diag'.scale
  <2>1. CASE diag.ewmaInit
    <3> DEFINE e == diag.ewma
               k == diag.scale
               lo == stats.minimum
               hi == stats.maximum
               lo2 == stats'.minimum
               hi2 == stats'.maximum
    <3>1. /\ e \in Nat /\ k \in Nat /\ lo \in Nat /\ hi \in Nat /\ rtt \in Nat
          /\ lo2 \in Nat /\ hi2 \in Nat
          /\ lo * k <= e /\ e <= hi * k /\ lo2 <= lo /\ lo2 <= rtt
          /\ hi <= hi2 /\ rtt <= hi2
      BY <1>1, <1>7, <1>9, <2>1
    <3> HIDE DEF e, k, lo, hi, lo2, hi2
    <3>2. lo2 * (10 * k) <= 3 * rtt * k + 7 * e /\ 3 * rtt * k + 7 * e <= hi2 * (10 * k)
      BY <3>1, MeanBetween
    <3>3. QED
      BY <1>3, <2>1, <3>2 DEF e, k, lo2, hi2
  <2>2. CASE ~diag.ewmaInit
    BY <1>1, <1>3, <1>9, <2>2
  <2>3. QED BY <2>1, <2>2
<1>12. IF diag'.highLatency THEN ~BackToNormal(diag') ELSE ~AboveSpike(diag')
  BY <1>3, <1>4, SpikeIsNotNormal
<1>13. diag'.baseline = stats'.minimum
  BY <1>3, <1>5, <1>7
<1>14. QED
  BY <1>3, <1>5, <1>8, <1>10, <1>11, <1>12, <1>13
     DEF LatencyInv, LatencyTracked, BackToNormal, AboveSpike

LEMMA FailureLatency ==
  ASSUME HistoryInv, LatencyInv, Failure
  PROVE  LatencyInv'
<1>1. diag \in DiagType /\ hist \in Seq(Observation) /\ stats \in StatsType
  BY DEF HistoryInv, LatencyInv
<1>2. diag' = ObserveFailure(diag) /\ hist' = Append(hist, [ok |-> FALSE, rtt |-> 0])
  BY DEF Failure, Record, Observe
<1>3. /\ diag'.baseline = diag.baseline /\ diag'.ewma = diag.ewma /\ diag'.scale = diag.scale
      /\ diag'.ewmaInit = diag.ewmaInit /\ diag'.highLatency = diag.highLatency
  BY <1>1, <1>2, FailureKeepsLatency
<1>4. /\ stats' \in StatsType /\ stats'.connects = stats.connects
      /\ stats'.minimum = stats.minimum /\ stats'.maximum = stats.maximum
  BY <1>1, FailureStats
<1>5. SuccessRtts' = SuccessRtts
  BY <1>1, <1>2, RttsGrow
<1>6. QED
  BY <1>3, <1>4, <1>5 DEF LatencyInv, LatencyTracked, BackToNormal, AboveSpike

-----------------------------------------------------------------------------
(* The percentiles of the retained samples. *)
(* A non-empty set of natural numbers has a least one: the finite intervals
   0 .. x are well founded under inclusion. *)
LEMMA Least ==
  ASSUME NEW T \in SUBSET Nat, T # {}
  PROVE  \E x \in T : \A y \in T : x <= y
<1> DEFINE R == StrictSubsetOrdering(Nat)
           I == {0 .. x : x \in T}
<1>1. IsWellFoundedOn(R, FiniteSubsetsOf(Nat))
  BY FS_StrictSubsetOrderingWellFounded
<1>2. I \subseteq FiniteSubsetsOf(Nat) /\ I # {}
  <2>1. \A x \in T : 0 .. x \in SUBSET Nat /\ IsFiniteSet(0 .. x)
    BY FS_Interval
  <2>2. QED
    BY <2>1 DEF FiniteSubsetsOf
<1>3. \E s \in I : \A t \in I : ~ (<<t, s>> \in R)
  <2> HIDE DEF R, I
  <2> QED BY <1>1, <1>2, WFMin
<1>4. PICK x \in T : \A y \in T : ~ (<<0 .. y, 0 .. x>> \in R)
  BY <1>3
<1>5. ASSUME NEW y \in T, y < x PROVE FALSE
  <2>1. 0 .. y \subseteq 0 .. x /\ x \in 0 .. x /\ x \notin 0 .. y
    BY <1>5
  <2>2. 0 .. y \in SUBSET Nat /\ 0 .. x \in SUBSET Nat /\ 0 .. y # 0 .. x
    BY <2>1
  <2>3. <<0 .. y, 0 .. x>> \in R
    BY <2>1, <2>2 DEF StrictSubsetOrdering
  <2>4. QED
    BY <1>4, <2>3
<1>6. QED
  BY <1>5

UpTo(s, v) == {i \in DOMAIN s : s[i] <= v}
Values(s) == {s[i] : i \in DOMAIN s}
Below(s, v) == {i \in DOMAIN s : s[i] < v}

LEMMA UpToFinite ==
  ASSUME NEW s \in Seq(Nat), NEW v
  PROVE  IsFiniteSet(UpTo(s, v)) /\ Cardinality(UpTo(s, v)) \in Nat
<1>1. UpTo(s, v) \subseteq 1 .. Len(s) /\ IsFiniteSet(1 .. Len(s))
  BY FS_Interval DEF UpTo
<1>2. QED
  BY <1>1, FS_Subset, FS_CardinalityType

(* There is an element of every rank, although no sort is modelled: it is the
   least value that enough of the samples do not exceed. *)
LEMMA RankExists ==
  ASSUME NEW s \in Seq(Nat), NEW top \in Nat, \A i \in DOMAIN s : s[i] <= top,
         NEW idx \in Nat, idx < Len(s)
  PROVE  \E i \in DOMAIN s : /\ Cardinality(Below(s, s[i])) <= idx
                             /\ idx < Cardinality(UpTo(s, s[i]))
<1> DEFINE T == {v \in Nat : idx < Cardinality(UpTo(s, v))}
<1>1. \A v \in Nat : IsFiniteSet(UpTo(s, v)) /\ Cardinality(UpTo(s, v)) \in Nat
  BY UpToFinite
<1>2. top \in T
  <2>1. UpTo(s, top) = 1 .. Len(s)
    BY DEF UpTo
  <2>2. Cardinality(1 .. Len(s)) = Len(s)
    <3>1. Len(s) \in Nat /\ 1 \in Int /\ Len(s) \in Int
      OBVIOUS
    <3>2. Cardinality(1 .. Len(s)) = IF 1 > Len(s) THEN 0 ELSE Len(s) - 1 + 1
      BY <3>1, FS_Interval
    <3>3. QED
      BY <3>1, <3>2
  <2>3. QED
    BY <2>1, <2>2
<1>3. PICK x \in T : \A y \in T : x <= y
  BY <1>2, Least
<1>4. x \in Nat /\ idx < Cardinality(UpTo(s, x)) /\ \A i \in DOMAIN s : s[i] \in Nat
  OBVIOUS
<1>7. Cardinality({}) = 0
  BY FS_EmptySet
<1>5. CASE x = 0
  <2>1. UpTo(s, x) # {}
    <3>1. IsFiniteSet(UpTo(s, x)) /\ Cardinality(UpTo(s, x)) # 0
      BY <1>1, <1>4
    <3>2. QED
      BY <3>1, FS_EmptySet
  <2>2. PICK i \in DOMAIN s : s[i] = x
    BY <1>4, <1>5, <2>1 DEF UpTo
  <2>3. Below(s, x) = {}
    BY <1>4, <1>5 DEF Below
  <2>4. Cardinality(Below(s, s[i])) = 0
    BY <1>7, <2>2, <2>3, Zenon
  <2>5. QED
    BY <1>4, <2>2, <2>4
<1>6. CASE x # 0
  <2>1. x - 1 \in Nat /\ x - 1 \notin T
    BY <1>3, <1>4, <1>6
  <2>2. Cardinality(UpTo(s, x - 1)) <= idx
    BY <1>1, <2>1
  <2>3. Below(s, x) = UpTo(s, x - 1)
    BY <1>4 DEF Below, UpTo
  <2>4. ASSUME \A i \in DOMAIN s : s[i] # x PROVE FALSE
    <3>1. UpTo(s, x) = UpTo(s, x - 1)
      BY <1>4, <2>4 DEF UpTo
    <3>2. QED
      BY <1>1, <1>4, <2>1, <2>2, <3>1
  <2>5. QED
    BY <1>4, <2>2, <2>3, <2>4
<1>8. QED BY <1>5, <1>6

LEMMA SortedAtRank ==
  ASSUME NEW s \in Seq(Nat), NEW top \in Nat, \A i \in DOMAIN s : s[i] <= top,
         NEW idx \in Nat, idx < Len(s)
  PROVE  LET v == SortedAt(s, idx)
         IN /\ \E i \in DOMAIN s : v = s[i]
            /\ Cardinality(Below(s, v)) <= idx
            /\ idx < Cardinality(UpTo(s, v))
<1> DEFINE Value == {s[i] : i \in DOMAIN s}
<1>1. \E v \in Value : Cardinality(Below(s, v)) <= idx /\ idx < Cardinality(UpTo(s, v))
  BY RankExists
<1>2. SortedAt(s, idx) =
        CHOOSE v \in Value : Cardinality(Below(s, v)) <= idx /\ idx < Cardinality(UpTo(s, v))
  BY DEF SortedAt, Below, UpTo
<1>3. QED
  BY <1>1, <1>2

(* RankIndex of stats.c is the nearest rank of the percentiles main.c prints:
   an index of the array, and between p% of its length and one more. *)
LEMMA RankIndexNearest ==
  \A n \in Nat \ {0} : \A p \in {1, 50, 95, 99, 100} :
    /\ RankIndex(p, n) \in Nat /\ RankIndex(p, n) < n
    /\ 100 * RankIndex(p, n) < p * n /\ p * n <= 100 * (RankIndex(p, n) + 1)
<1> SUFFICES ASSUME NEW n \in Nat \ {0}, NEW p \in {1, 50, 95, 99, 100}
    PROVE  /\ RankIndex(p, n) \in Nat /\ RankIndex(p, n) < n
           /\ 100 * RankIndex(p, n) < p * n /\ p * n <= 100 * (RankIndex(p, n) + 1)
  OBVIOUS
<1>1. CASE p = 100
  BY <1>1 DEF RankIndex
<1>2. CASE p \in {1, 50, 95, 99}
  <2> DEFINE q == (p * n + 99) \div 100
  <2>1. p * n \in Nat /\ p * n >= 1 /\ p * n <= 99 * n
    BY <1>2
  <2>2. q \in Nat /\ 100 * q <= p * n + 99 /\ p * n + 99 < 100 * q + 100
    <3> DEFINE m == p * n + 99
    <3>1. m \in Nat
      BY <2>1
    <3> HIDE DEF m
    <3>2. m \div 100 \in Nat /\ 100 * (m \div 100) <= m /\ m < 100 * (m \div 100) + 100
      BY <3>1
    <3>3. QED
      BY <3>2 DEF m
  <2>3. RankIndex(p, n) = q - 1
    BY <1>2 DEF RankIndex
  <2> HIDE DEF q
  <2>4. q >= 1 /\ q - 1 < n
    BY <2>1, <2>2
  <2>5. QED
    BY <2>1, <2>2, <2>3, <2>4
<1>3. QED BY <1>1, <1>2

(* v is the nearest-rank percentile p of the samples s. *)
IsPercentile(s, p, v) ==
  /\ v \in Values(s)
  /\ 100 * Cardinality(Below(s, v)) < p * Len(s)
  /\ 100 * Cardinality(UpTo(s, v)) >= p * Len(s)

LEMMA PercentileOf ==
  ASSUME NEW s \in Seq(Nat), s # << >>, NEW top \in Nat, \A i \in DOMAIN s : s[i] <= top,
         NEW p \in {1, 50, 95, 99, 100}
  PROVE  IsPercentile(s, p, SortedAt(s, RankIndex(p, Len(s))))
<1>1. PICK n \in Nat \ {0} : n = Len(s)
  OBVIOUS
<1>2. PICK idx : idx = RankIndex(p, n)
  OBVIOUS
<1>3. idx \in Nat /\ idx < n /\ 100 * idx < p * n /\ p * n <= 100 * (idx + 1)
  <2>1. RankIndex(p, n) \in Nat
    BY RankIndexNearest, Zenon
  <2>2. RankIndex(p, n) < n
    BY RankIndexNearest, Zenon
  <2>3. 100 * RankIndex(p, n) < p * n
    BY RankIndexNearest, Zenon
  <2>4. p * n <= 100 * (RankIndex(p, n) + 1)
    BY RankIndexNearest, Zenon
  <2>5. QED
    BY <1>2, <2>1, <2>2, <2>3, <2>4
<1>4. PICK v : v = SortedAt(s, idx)
  OBVIOUS
<1>5. /\ \E i \in DOMAIN s : v = s[i]
      /\ Cardinality(Below(s, v)) <= idx /\ idx < Cardinality(UpTo(s, v))
  <2>1. idx \in Nat /\ idx < Len(s)
    BY <1>1, <1>3
  <2>2. \E i \in DOMAIN s : SortedAt(s, idx) = s[i]
    BY <2>1, SortedAtRank
  <2>3. Cardinality(Below(s, SortedAt(s, idx))) <= idx
    BY <2>1, SortedAtRank
  <2>4. idx < Cardinality(UpTo(s, SortedAt(s, idx)))
    BY <2>1, SortedAtRank
  <2>5. QED
    BY <1>4, <2>2, <2>3, <2>4
<1>6. Cardinality(Below(s, v)) \in Nat /\ Cardinality(UpTo(s, v)) \in Nat
  <2>1. Below(s, v) \subseteq 1 .. n /\ IsFiniteSet(1 .. n)
    BY <1>1, FS_Interval DEF Below
  <2>2. QED
    BY <2>1, UpToFinite, FS_Subset, FS_CardinalityType
<1>7. p * n \in Nat
  OBVIOUS
<1>8. 100 * Cardinality(Below(s, v)) < p * n /\ 100 * Cardinality(UpTo(s, v)) >= p * n
  BY <1>3, <1>5, <1>6, <1>7
<1>9. QED
  BY <1>1, <1>2, <1>4, <1>5, <1>8 DEF Values, IsPercentile

LEMMA SamplesAre ==
  ASSUME HistoryInv, LatencyInv, SamplesInv
  PROVE  /\ stats.samples \in Seq(Nat) /\ stats.sampleCap \in Nat /\ Len(stats.samples) \in Nat
         /\ MaxRetained \in Nat
         /\ DOMAIN stats.samples = 1 .. Len(stats.samples)
         /\ stats.minimum \in Nat /\ stats.maximum \in Nat
         /\ SuccessRtts # {} => \A r \in SuccessRtts : /\ r \in Nat /\ stats.minimum <= r
                                                       /\ r <= stats.maximum
         /\ \A i \in DOMAIN stats.samples : stats.samples[i] \in SuccessRtts
<1>1. stats \in StatsType /\ hist \in Seq(Observation) /\ MaxRetained \in Nat
  BY MonitorAssumption DEF HistoryInv, LatencyInv
<1>2. stats.samples \in Seq(Nat) /\ stats.sampleCap \in Nat
      /\ stats.minimum \in Nat /\ stats.maximum \in Nat
  BY <1>1 DEF StatsType
<1>3. SuccessRtts # {} => \A r \in SuccessRtts : stats.minimum <= r /\ r <= stats.maximum
  BY DEF LatencyInv, LatencyTracked
<1>4. SuccessRtts \subseteq Nat
  BY <1>1, RttsAreNat
<1>5. QED
  BY <1>1, <1>2, <1>3, <1>4 DEF SamplesInv

(* What is retained is enough for what is reported. *)
LEMMA SamplesGivePercentiles ==
  HistoryInv /\ LatencyInv /\ SamplesInv => PercentilesSound
<1> SUFFICES ASSUME HistoryInv, LatencyInv, SamplesInv PROVE PercentilesSound
  OBVIOUS
<1> DEFINE s == stats.samples
           n == Len(s)
<1>1. /\ s \in Seq(Nat) /\ DOMAIN s = 1 .. n /\ n \in Nat
      /\ stats.minimum \in Nat /\ stats.maximum \in Nat
      /\ SuccessRtts # {} => \A r \in SuccessRtts : /\ r \in Nat /\ stats.minimum <= r
                                                    /\ r <= stats.maximum
      /\ \A i \in DOMAIN s : s[i] \in SuccessRtts
  BY SamplesAre
<1>2. ASSUME s # << >>, NEW p \in {1, 50, 95, 99, 100}
      PROVE  LET v == Percentile(stats, p)
             IN /\ v \in SuccessRtts
                /\ 100 * Cardinality(Below(s, v)) < p * n
                /\ 100 * Cardinality(UpTo(s, v)) >= p * n
  <2> DEFINE v == SortedAt(s, RankIndex(p, Len(s)))
  <2>1. \A i \in DOMAIN s : s[i] <= stats.maximum
    BY <1>1
  <2>2. IsPercentile(s, p, v)
    <3>1. s \in Seq(Nat) /\ s # << >> /\ stats.maximum \in Nat
      BY <1>1, <1>2
    <3> HIDE DEF s
    <3>2. QED
      BY <2>1, <3>1, PercentileOf, Zenon
  <2>3. Percentile(stats, p) = v
    BY <1>2 DEF Percentile
  <2>4. v \in SuccessRtts
    BY <1>1, <2>2 DEF IsPercentile, Values
  <2>5. QED
    BY <2>2, <2>3, <2>4 DEF IsPercentile
<1>3. Bufferbloat(stats) >= -1
  <2>1. CASE stats.connects = 0 \/ n < 5
    BY <2>1 DEF Bufferbloat
  <2>2. CASE ~(stats.connects = 0 \/ n < 5)
    <3>1. s # << >>
      BY <2>2
    <3>2. Percentile(stats, 95) \in SuccessRtts
      BY <1>2, <3>1
    <3>3. Percentile(stats, 95) \in Nat /\ stats.minimum <= Percentile(stats, 95)
      BY <1>1, <3>2
    <3>4. QED
      BY <1>1, <2>2, <3>3 DEF Bufferbloat
  <2>3. QED BY <2>1, <2>2
<1>4. \A v : /\ Below(s, v) = {i \in 1 .. n : s[i] < v}
             /\ UpTo(s, v) = {i \in 1 .. n : s[i] <= v}
  BY <1>1 DEF Below, UpTo
<1>5. Len(s) <= stats.sampleCap /\ Len(s) <= MaxRetained
  BY DEF SamplesInv
<1>6. ASSUME s # << >>, NEW p \in {1, 50, 95, 99, 100}
      PROVE  LET v == Percentile(stats, p)
             IN /\ v \in SuccessRtts
                /\ 100 * Cardinality({i \in 1 .. n : s[i] < v}) < p * n
                /\ 100 * Cardinality({i \in 1 .. n : s[i] <= v}) >= p * n
  <2> DEFINE v == Percentile(stats, p)
  <2>1. /\ v \in SuccessRtts
        /\ 100 * Cardinality(Below(s, v)) < p * n
        /\ 100 * Cardinality(UpTo(s, v)) >= p * n
    BY <1>2, <1>6
  <2>2. /\ Below(s, v) = {i \in 1 .. n : s[i] < v}
        /\ UpTo(s, v) = {i \in 1 .. n : s[i] <= v}
    BY <1>4
  <2> HIDE DEF v, n, s
  <2>3. QED
    BY <2>1, <2>2 DEF v
<1>7. QED
  BY <1>3, <1>5, <1>6 DEF PercentilesSound

LEMMA InitSamples == Init => SamplesInv
BY MonitorAssumption DEF Init, StatsInit, SamplesInv

LEMMA SuccessSamples ==
  ASSUME HistoryInv, LatencyInv, SamplesInv,
         NEW rtt \in Rtts, NEW grows \in BOOLEAN, Success(rtt, grows)
  PROVE  SamplesInv'
<1>1. /\ hist \in Seq(Observation) /\ stats \in StatsType /\ rtt \in Nat
      /\ hist' = Append(hist, [ok |-> TRUE, rtt |-> rtt])
  BY MonitorAssumption DEF HistoryInv, LatencyInv, Success, Record
<1>2. SuccessRtts' = SuccessRtts \cup {rtt}
  BY <1>1, RttsGrow
<1>3. \/ stats'.samples = stats.samples /\ stats'.sampleCap = stats.sampleCap
      \/ /\ Len(stats.samples) < MaxRetained
         /\ stats'.samples = Append(stats.samples, rtt)
         /\ stats'.sampleCap = IF Full(stats) THEN Grown(stats.sampleCap) ELSE stats.sampleCap
  BY <1>1, SuccessStats
<1>4. /\ stats.samples \in Seq(Nat) /\ stats.sampleCap \in Nat /\ Len(stats.samples) \in Nat
      /\ MaxRetained \in Nat
      /\ Len(stats.samples) <= stats.sampleCap /\ Len(stats.samples) <= MaxRetained
      /\ \A i \in DOMAIN stats.samples : stats.samples[i] \in SuccessRtts
  BY SamplesAre DEF SamplesInv
<1>5. CASE stats'.samples = stats.samples /\ stats'.sampleCap = stats.sampleCap
  BY <1>2, <1>4, <1>5 DEF SamplesInv
<1>6. CASE /\ Len(stats.samples) < MaxRetained
           /\ stats'.samples = Append(stats.samples, rtt)
           /\ stats'.sampleCap = IF Full(stats) THEN Grown(stats.sampleCap)
                                 ELSE stats.sampleCap
  <2>1. Len(stats'.samples) = Len(stats.samples) + 1
    BY <1>1, <1>4, <1>6
  <2>2. Len(stats.samples) + 1 <= stats'.sampleCap
    BY <1>4, <1>6, MonitorAssumption DEF Full, Grown
  <2>3. ASSUME NEW i \in DOMAIN stats'.samples PROVE stats'.samples[i] \in SuccessRtts'
    <3>1. i \in DOMAIN stats.samples \/ i = Len(stats.samples) + 1
      BY <1>1, <1>4, <1>6
    <3>2. i \in DOMAIN stats.samples => stats'.samples[i] = stats.samples[i]
      BY <1>1, <1>4, <1>6
    <3>3. stats'.samples[Len(stats.samples) + 1] = rtt
      BY <1>1, <1>4, <1>6
    <3>4. QED
      BY <1>2, <1>4, <3>1, <3>2, <3>3
  <2>4. QED
    BY <1>4, <1>6, <2>1, <2>2, <2>3 DEF SamplesInv
<1>7. QED BY <1>3, <1>5, <1>6

LEMMA FailureSamples ==
  ASSUME HistoryInv, LatencyInv, SamplesInv, Failure
  PROVE  SamplesInv'
<1>1. /\ hist \in Seq(Observation) /\ stats \in StatsType
      /\ hist' = Append(hist, [ok |-> FALSE, rtt |-> 0])
  BY DEF HistoryInv, LatencyInv, Failure, Record
<1>2. SuccessRtts' = SuccessRtts
  BY <1>1, RttsGrow
<1>3. stats'.samples = stats.samples /\ stats'.sampleCap = stats.sampleCap
  BY <1>1, FailureStats
<1>4. QED
  BY <1>2, <1>3 DEF SamplesInv

-----------------------------------------------------------------------------
(* The alerts of one kind. *)
KindOf(s, kind) == {i \in DOMAIN s : s[i].kind = kind}

LEMMA KindAppend ==
  ASSUME NEW s \in Seq(Alert), NEW a \in Alert, NEW kind
  PROVE  /\ Cardinality(KindOf(s, kind)) \in Nat
         /\ Cardinality(KindOf(Append(s, a), kind)) =
              IF a.kind = kind THEN Cardinality(KindOf(s, kind)) + 1
              ELSE Cardinality(KindOf(s, kind))
<1> DEFINE n == Len(s)
           t == Append(s, a)
<1>1. /\ n \in Nat /\ DOMAIN s = 1 .. n /\ DOMAIN t = 1 .. n + 1
      /\ \A i \in 1 .. n : t[i] = s[i]
      /\ t[n + 1] = a
      /\ \A i : i \in 1 .. n + 1 <=> i \in 1 .. n \/ i = n + 1
      /\ n + 1 \notin 1 .. n
  OBVIOUS
<1> HIDE DEF n, t
<1>2. KindOf(t, kind) = IF a.kind = kind THEN KindOf(s, kind) \cup {n + 1} ELSE KindOf(s, kind)
  BY <1>1 DEF KindOf
<1>3. n + 1 \notin KindOf(s, kind) /\ KindOf(s, kind) \subseteq 1 .. n
  BY <1>1 DEF KindOf
<1>4. IsFiniteSet(KindOf(s, kind))
  <2>1. IsFiniteSet(1 .. n)
    BY <1>1, FS_Interval
  <2>2. QED
    BY <1>3, <2>1, FS_Subset
<1>5. Cardinality(KindOf(s, kind)) \in Nat
  BY <1>4, FS_CardinalityType
<1>6. Cardinality(KindOf(s, kind) \cup {n + 1}) = Cardinality(KindOf(s, kind)) + 1
  BY <1>3, <1>4, FS_AddElement
<1>7. CASE a.kind = kind
  BY <1>2, <1>5, <1>6, <1>7 DEF t
<1>8. CASE a.kind # kind
  BY <1>2, <1>5, <1>8 DEF t
<1>9. QED BY <1>7, <1>8

(* What Record appends to the alerts, one at a time. *)
Stamped(at, A) == [i \in DOMAIN A |-> [at |-> at, kind |-> A[i][1], n |-> A[i][2]]]

LEMMA StampedNone ==
  ASSUME NEW s \in Seq(Alert), NEW at
  PROVE  s \o Stamped(at, << >>) = s
<1>1. Stamped(at, << >>) = << >>
  BY DEF Stamped
<1>2. s \o << >> = s
  OBVIOUS
<1>3. QED
  BY <1>1, <1>2, Zenon

LEMMA StampedOne ==
  ASSUME NEW s \in Seq(Alert), NEW at, NEW x, NEW m,
         NEW a \in Alert, a = [at |-> at, kind |-> x, n |-> m]
  PROVE  s \o Stamped(at, << <<x, m>> >>) = Append(s, a)
<1>1. Stamped(at, << <<x, m>> >>) = <<a>>
  BY DEF Stamped
<1>2. s \o <<a>> = Append(s, a)
  OBVIOUS
<1>3. QED
  BY <1>1, <1>2, Zenon

LEMMA StampedTwo ==
  ASSUME NEW s \in Seq(Alert), NEW at, NEW x, NEW m, NEW y, NEW k,
         NEW a \in Alert, a = [at |-> at, kind |-> x, n |-> m],
         NEW b \in Alert, b = [at |-> at, kind |-> y, n |-> k]
  PROVE  s \o Stamped(at, << <<x, m>>, <<y, k>> >>) = Append(Append(s, a), b)
<1>1. Stamped(at, << <<x, m>>, <<y, k>> >>) = <<a, b>>
  BY DEF Stamped
<1>2. s \o <<a, b>> = Append(Append(s, a), b)
  OBVIOUS
<1>3. QED
  BY <1>1, <1>2, Zenon

LEMMA ConcatTwo ==
  ASSUME NEW p, NEW q
  PROVE  <<p>> \o <<q>> = <<p, q>>
<1> DEFINE s == <<p>> \o <<q>>
           t == <<p, q>>
<1>1. <<p>> \in Seq({p, q}) /\ <<q>> \in Seq({p, q}) /\ t \in Seq({p, q})
  OBVIOUS
<1>2. /\ Len(<<p>>) = 1 /\ Len(<<q>>) = 1 /\ <<p>>[1] = p /\ <<q>>[1] = q
      /\ Len(t) = 2 /\ t[1] = p /\ t[2] = q
  OBVIOUS
<1>3. s \in Seq({p, q}) /\ Len(s) = 2 /\ s[1] = p /\ s[2] = q
  <2>1. s \in Seq({p, q}) /\ Len(s) = Len(<<p>>) + Len(<<q>>)
    BY <1>1, ConcatProperties
  <2>2. \A i \in 1 .. 2 : s[i] = IF i <= 1 THEN <<p>>[i] ELSE <<q>>[i - 1]
    BY <1>1, <1>2, ConcatProperties
  <2>3. QED
    BY <1>2, <2>1, <2>2
<1> HIDE DEF s, t
<1>4. \A i \in 1 .. Len(s) : s[i] = t[i]
  <2>1. \A i \in 1 .. 2 : i = 1 \/ i = 2
    OBVIOUS
  <2>2. QED
    BY <1>2, <1>3, <2>1
<1>5. s = t
  BY <1>1, <1>2, <1>3, <1>4, SeqEqual
<1>6. QED
  BY <1>5 DEF s, t

LEMMA AlertsAppended ==
  ASSUME diag \in DiagType, hist \in Seq(Observation), alerts \in Seq(Alert),
         NEW ok \in BOOLEAN, NEW rtt \in Nat, Record(ok, rtt)
  PROVE  LET m == Len(hist) + 1
             recovered == [at |-> m, kind |-> "RECOVERED", n |-> diag.consecFails]
             latency == [at |-> m, kind |-> IF diag'.highLatency THEN "HIGH" ELSE "NORMAL",
                         n |-> 0]
             down == [at |-> m, kind |-> "DOWN", n |-> DownThreshold]
             up == IF diag.isDown THEN Append(alerts, recovered) ELSE alerts
         IN /\ ok => (alerts' = up \/ alerts' = Append(up, latency))
            /\ ~ok => alerts' = IF diag'.outages # diag.outages THEN Append(alerts, down)
                                ELSE alerts
<1> DEFINE m == Len(hist) + 1
           word == IF diag'.highLatency THEN "HIGH" ELSE "NORMAL"
           recovered == [at |-> m, kind |-> "RECOVERED", n |-> diag.consecFails]
           latency == [at |-> m, kind |-> word, n |-> 0]
           down == [at |-> m, kind |-> "DOWN", n |-> DownThreshold]
           A == Alerts(diag, ok, rtt)
<1>1. m \in Nat /\ diag.consecFails \in Nat /\ DownThreshold \in Nat
      /\ word \in {"HIGH", "NORMAL"}
  BY MonitorAssumption DEF DiagType
<1>2. recovered \in Alert /\ latency \in Alert /\ down \in Alert
  BY <1>1 DEF Alert
<1>3. alerts' = alerts \o Stamped(m, A) /\ diag' = Observe(diag, ok, rtt)
  BY DEF Record, Stamped
<1>4. CASE ok
  <2>1. \/ A = << >> /\ ~diag.isDown
        \/ A = << <<word, 0>> >> /\ ~diag.isDown
        \/ A = << <<"RECOVERED", diag.consecFails>> >> /\ diag.isDown
        \/ A = << <<"RECOVERED", diag.consecFails>>, <<word, 0>> >> /\ diag.isDown
    <3> DEFINE r == IF diag.isDown THEN << <<"RECOVERED", diag.consecFails>> >> ELSE << >>
               l == IF diag'.highLatency = diag.highLatency THEN << >> ELSE << <<word, 0>> >>
    <3>1. A = r \o l \o << >>
      BY <1>3, <1>4 DEF Alerts
    <3>2. A = r \o l
      BY <3>1
    <3>3. CASE diag.isDown /\ diag'.highLatency # diag.highLatency
      <4>1. r = << <<"RECOVERED", diag.consecFails>> >> /\ l = << <<word, 0>> >>
        BY <3>3
      <4>2. ASSUME NEW p, NEW q PROVE <<p>> \o <<q>> = <<p, q>>
        BY ConcatTwo
      <4> HIDE DEF A, word, r, l
      <4>3. A = << <<"RECOVERED", diag.consecFails>>, <<word, 0>> >>
        BY <3>2, <4>1, <4>2, Zenon
      <4>4. QED
        BY <3>3, <4>3
    <3>4. CASE diag.isDown /\ diag'.highLatency = diag.highLatency
      BY <3>2, <3>4
    <3>5. CASE ~diag.isDown
      BY <3>2, <3>5
    <3>6. QED
      BY <3>3, <3>4, <3>5
  <2> HIDE DEF word, A, m
  <2>2. /\ alerts \o Stamped(m, << >>) = alerts
        /\ alerts \o Stamped(m, << <<word, 0>> >>) = Append(alerts, latency)
        /\ alerts \o Stamped(m, << <<"RECOVERED", diag.consecFails>> >>)
             = Append(alerts, recovered)
        /\ alerts \o Stamped(m, << <<"RECOVERED", diag.consecFails>>, <<word, 0>> >>)
             = Append(Append(alerts, recovered), latency)
    BY <1>2, StampedNone, StampedOne, StampedTwo, SMTT(30)
  <2> HIDE DEF latency, recovered
  <2>3. \/ alerts' = IF diag.isDown THEN Append(alerts, recovered) ELSE alerts
        \/ alerts' = Append(IF diag.isDown THEN Append(alerts, recovered) ELSE alerts, latency)
    BY <1>3, <2>1, <2>2
  <2>4. QED
    BY <1>4, <2>3 DEF latency, recovered, word, m
<1>5. CASE ~ok
  <2>1. diag'.highLatency = diag.highLatency
    BY <1>3, <1>5, FailureKeepsLatency DEF Observe
  <2>2. A = IF diag'.outages # diag.outages THEN << <<"DOWN", DownThreshold>> >> ELSE << >>
    BY <1>3, <1>5, <2>1 DEF Alerts
  <2> HIDE DEF A, m, word
  <2>3. /\ alerts \o Stamped(m, << >>) = alerts
        /\ alerts \o Stamped(m, << <<"DOWN", DownThreshold>> >>) = Append(alerts, down)
    BY <1>2, StampedNone, StampedOne
  <2>4. QED
    BY <1>3, <1>5, <2>2, <2>3 DEF m
<1>6. QED BY <1>4, <1>5

(* What an alert says is so in the history h, of which it may be late. *)
Tells(h, a) ==
  /\ a.at \in 1 .. Len(h)
  /\ a.kind = "DOWN" => Streak(h, a.at) = DownThreshold
  /\ a.kind = "RECOVERED" => /\ h[a.at].ok
                             /\ a.n = Streak(h, a.at - 1) /\ a.n >= DownThreshold

AllTell(h, s) == s \in Seq(Alert) /\ \A i \in DOMAIN s : Tells(h, s[i])

(* No later observation makes an alert wrong. *)
LEMMA TellsStays ==
  ASSUME NEW h \in Seq(Observation), NEW o \in Observation, NEW s, AllTell(h, s)
  PROVE  AllTell(Append(h, o), s)
<1> DEFINE g == Append(h, o)
<1>1. /\ Len(g) = Len(h) + 1 /\ Len(h) \in Nat
      /\ \A i \in 1 .. Len(h) : g[i] = h[i]
  OBVIOUS
<1>2. \A i \in 0 .. Len(h) : Streak(g, i) = Streak(h, i)
  BY StreakNext
<1> HIDE DEF g
<1>3. ASSUME NEW a \in Alert, Tells(h, a) PROVE Tells(g, a)
  <2>1. a.at \in 1 .. Len(h)
    BY <1>3 DEF Tells
  <2>2. a.at \in 1 .. Len(g) /\ a.at \in 0 .. Len(h) /\ a.at - 1 \in 0 .. Len(h)
    BY <1>1, <2>1
  <2>3. g[a.at] = h[a.at] /\ Streak(g, a.at) = Streak(h, a.at)
        /\ Streak(g, a.at - 1) = Streak(h, a.at - 1)
    BY <1>1, <1>2, <2>1, <2>2
  <2>4. QED
    BY <1>3, <2>2, <2>3 DEF Tells
<1>4. \A i \in DOMAIN s : s[i] \in Alert
  BY DEF AllTell
<1>5. QED
  BY <1>3, <1>4 DEF AllTell, g

LEMMA TellsAppend ==
  ASSUME NEW h, NEW s, AllTell(h, s), NEW a \in Alert, Tells(h, a)
  PROVE  AllTell(h, Append(s, a))
<1> DEFINE t == Append(s, a)
<1>1. s \in Seq(Alert) /\ \A i \in DOMAIN s : Tells(h, s[i])
  BY DEF AllTell
<1>2. /\ t \in Seq(Alert)
      /\ \A i \in DOMAIN t : i \in DOMAIN s \/ i = Len(s) + 1
      /\ \A i \in DOMAIN s : t[i] = s[i]
      /\ t[Len(s) + 1] = a
  BY <1>1
<1> HIDE DEF t
<1>3. ASSUME NEW i \in DOMAIN t PROVE Tells(h, t[i])
  BY <1>1, <1>2
<1>4. QED
  BY <1>2, <1>3 DEF AllTell, t

LEMMA AlertsInvIs ==
  hist \in Seq(Observation) =>
    (AlertsInv <=> /\ AllTell(hist, alerts)
                   /\ Cardinality(KindOf(alerts, "DOWN")) = diag.outages
                   /\ Cardinality(KindOf(alerts, "RECOVERED"))
                        = diag.outages - (IF diag.isDown THEN 1 ELSE 0))
BY RunIsStreak
   DEF AlertsInv, AlertsTellOutages, AllTell, Tells, KindOf, AlertsOf, Alert

LEMMA InitAlerts == Init => AlertsInv
<1> SUFFICES ASSUME Init PROVE AlertsInv
  OBVIOUS
<1>1. alerts = << >> /\ hist = << >> /\ diag.outages = 0 /\ diag.isDown = FALSE
  BY DEF Init, DiagInit
<1>2. AlertsOf("DOWN") = {} /\ AlertsOf("RECOVERED") = {}
  BY <1>1 DEF AlertsOf
<1>3. Cardinality(AlertsOf("DOWN")) = 0 /\ Cardinality(AlertsOf("RECOVERED")) = 0
  BY <1>2, FS_EmptySet, Zenon
<1>4. QED
  BY <1>1, <1>2, <1>3 DEF AlertsInv, AlertsTellOutages

LEMMA RecordAlerts ==
  ASSUME HistoryInv, AlertsInv, NEW ok \in BOOLEAN, NEW rtt \in Rtts \cup {0},
         Record(ok, rtt)
  PROVE  AlertsInv'
<1> DEFINE o == [ok |-> ok, rtt |-> rtt]
           g == Append(hist, o)
           m == Len(hist) + 1
           now == Streak(hist, Len(hist))
           recovered == [at |-> m, kind |-> "RECOVERED", n |-> diag.consecFails]
           latency == [at |-> m, kind |-> IF diag'.highLatency THEN "HIGH" ELSE "NORMAL",
                       n |-> 0]
           down == [at |-> m, kind |-> "DOWN", n |-> DownThreshold]
           up == IF diag.isDown THEN Append(alerts, recovered) ELSE alerts
           D(s) == Cardinality(KindOf(s, "DOWN"))
           R(s) == Cardinality(KindOf(s, "RECOVERED"))
<1>1. /\ diag \in DiagType /\ hist \in Seq(Observation) /\ rtt \in Nat
      /\ o \in Observation /\ hist' = g /\ diag' = Observe(diag, ok, rtt)
      /\ DownThreshold \in Nat \ {0}
  BY MonitorAssumption DEF HistoryInv, Observation, Record
<1>2. /\ diag.consecFails = now /\ diag.consecFails \in Nat
      /\ diag.outages \in Nat /\ diag.isDown \in BOOLEAN
      /\ diag.isDown <=> now >= DownThreshold
  BY <1>1, RunIsStreak DEF HistoryInv, OutagesMatchHistory, DiagType
<1>3. /\ AllTell(hist, alerts)
      /\ D(alerts) = diag.outages
      /\ R(alerts) = diag.outages - (IF diag.isDown THEN 1 ELSE 0)
  BY <1>1, AlertsInvIs
<1>4. alerts \in Seq(Alert) /\ m \in Nat /\ Len(g) = m
  BY <1>1, <1>3 DEF AllTell
<1>5. /\ recovered \in Alert /\ recovered.kind = "RECOVERED"
      /\ latency \in Alert /\ latency.kind # "RECOVERED" /\ latency.kind # "DOWN"
      /\ down \in Alert /\ down.kind = "DOWN"
  BY <1>1, <1>2, <1>4 DEF Alert
<1>6. AllTell(g, alerts)
  BY <1>1, <1>3, TellsStays
<1>7. /\ ok => (alerts' = up \/ alerts' = Append(up, latency))
      /\ ~ok => alerts' = IF diag'.outages # diag.outages THEN Append(alerts, down)
                          ELSE alerts
  BY <1>1, <1>4, AlertsAppended
<1>8. /\ Streak(g, m) = IF ok THEN 0 ELSE now + 1
      /\ Streak(g, m - 1) = now
      /\ m \in 1 .. Len(g) /\ g[m].ok = ok
  <2>1. Streak(g, Len(hist) + 1) = IF o.ok THEN 0 ELSE Streak(hist, Len(hist)) + 1
    BY <1>1, StreakNext
  <2>2. Streak(g, Len(hist)) = Streak(hist, Len(hist))
    BY <1>1, StreakNext
  <2>3. m - 1 = Len(hist) /\ g[m] = o /\ o.ok = ok
    BY <1>1
  <2>4. QED
    BY <1>4, <2>1, <2>2, <2>3
<1>9. AlertsInv' <=> /\ AllTell(g, alerts')
                     /\ D(alerts') = diag'.outages
                     /\ R(alerts') = diag'.outages - (IF diag'.isDown THEN 1 ELSE 0)
  <2>1. \A i : Run(i)' = Streak(g, i)
    BY <1>1 DEF Run, Streak, RunOf
  <2>2. AlertsOf("DOWN")' = KindOf(alerts', "DOWN")
        /\ AlertsOf("RECOVERED")' = KindOf(alerts', "RECOVERED")
    BY DEF AlertsOf, KindOf
  <2>3. AlertsTellOutages' <=>
          /\ \A i \in KindOf(alerts', "DOWN") : Streak(g, alerts'[i].at) = DownThreshold
          /\ \A i \in KindOf(alerts', "RECOVERED") :
               /\ g[alerts'[i].at].ok
               /\ alerts'[i].n = Streak(g, alerts'[i].at - 1)
               /\ alerts'[i].n >= DownThreshold
          /\ D(alerts') = diag'.outages
          /\ R(alerts') = diag'.outages - (IF diag'.isDown THEN 1 ELSE 0)
    BY <1>1, <2>1, <2>2 DEF AlertsTellOutages
  <2>4. AlertsInv' <=> /\ alerts' \in Seq(Alert)
                       /\ \A i \in DOMAIN alerts' : alerts'[i].at \in 1 .. Len(g)
                       /\ AlertsTellOutages'
    BY <1>1 DEF AlertsInv
  <2> HIDE DEF g, D, R
  <2>5. QED
    BY <2>3, <2>4 DEF AllTell, Tells, KindOf
<1>10. CASE ok
  <2>1. diag'.outages = diag.outages /\ diag'.isDown = FALSE
    BY <1>1, <1>10, SuccessResets DEF Observe
  <2>2. diag.isDown => Tells(g, recovered)
    BY <1>2, <1>5, <1>8, <1>10 DEF Tells
  <2>3. Tells(g, latency)
    BY <1>5, <1>8 DEF Tells
  <2>4. AllTell(g, up) /\ D(up) = diag.outages /\ R(up) = diag.outages
    <3>1. CASE diag.isDown
      <4>1. AllTell(g, Append(alerts, recovered))
        BY <1>5, <1>6, <2>2, <3>1, TellsAppend
      <4>2. D(Append(alerts, recovered)) = D(alerts)
        BY <1>4, <1>5, KindAppend
      <4>3. R(Append(alerts, recovered)) = R(alerts) + 1
        BY <1>4, <1>5, KindAppend
      <4>4. up = Append(alerts, recovered)
        BY <3>1
      <4>5. QED
        BY <1>2, <1>3, <3>1, <4>1, <4>2, <4>3, <4>4
    <3>2. CASE ~diag.isDown
      BY <1>2, <1>3, <1>6, <3>2
    <3>3. QED BY <3>1, <3>2
  <2>5. up \in Seq(Alert)
    BY <2>4 DEF AllTell
  <2> HIDE DEF up
  <2>6. AllTell(g, Append(up, latency))
    BY <1>5, <2>3, <2>4, TellsAppend
  <2>7. D(Append(up, latency)) = D(up) /\ R(Append(up, latency)) = R(up)
    BY <1>5, <2>5, KindAppend
  <2> HIDE DEF D, R
  <2>8. AllTell(g, alerts') /\ D(alerts') = diag.outages /\ R(alerts') = diag.outages
    BY <1>7, <1>10, <2>4, <2>6, <2>7
  <2>9. QED
    BY <1>2, <1>9, <2>1, <2>8
<1>11. CASE ~ok
  <2>1. /\ (diag'.isDown <=> diag.isDown \/ now + 1 = DownThreshold)
        /\ diag'.outages = IF now + 1 = DownThreshold THEN diag.outages + 1 ELSE diag.outages
    BY <1>1, <1>2, <1>11, FailureCounts DEF Observe
  <2>2. CASE now + 1 = DownThreshold
    <3>1. alerts' = Append(alerts, down) /\ diag'.outages = diag.outages + 1
      BY <1>2, <1>7, <1>11, <2>1, <2>2
    <3>2. Tells(g, down)
      BY <1>5, <1>8, <1>11, <2>2 DEF Tells
    <3>3. AllTell(g, Append(alerts, down))
      BY <1>5, <1>6, <3>2, TellsAppend
    <3>4. D(Append(alerts, down)) = D(alerts) + 1
      BY <1>4, <1>5, KindAppend
    <3>5. R(Append(alerts, down)) = R(alerts)
      BY <1>4, <1>5, KindAppend
    <3>6. ~diag.isDown /\ diag'.isDown
      BY <1>1, <1>2, <2>1, <2>2
    <3> HIDE DEF D, R, g
    <3>7. QED
      BY <1>2, <1>3, <1>9, <3>1, <3>3, <3>4, <3>5, <3>6
  <2>3. CASE now + 1 # DownThreshold
    <3>1. alerts' = alerts /\ diag'.outages = diag.outages /\ (diag'.isDown <=> diag.isDown)
      BY <1>2, <1>7, <1>11, <2>1, <2>3
    <3> HIDE DEF D, R, g
    <3>2. QED
      BY <1>3, <1>6, <1>9, <3>1
  <2>4. QED BY <2>2, <2>3
<1>12. QED BY <1>10, <1>11

-----------------------------------------------------------------------------
(* Every invariant at once, over a step. *)
MonitorInv == HistoryInv /\ AlertsInv /\ LatencyInv /\ SamplesInv

LEMMA NextMonitor == MonitorInv /\ [Next]_vars => MonitorInv'
<1> SUFFICES ASSUME MonitorInv, [Next]_vars PROVE MonitorInv'
  OBVIOUS
<1> USE DEF MonitorInv
<1>1. ASSUME NEW rtt \in Rtts, NEW grows \in BOOLEAN, Success(rtt, grows) PROVE MonitorInv'
  <2>1. Record(TRUE, rtt) /\ rtt \in Rtts \cup {0}
    BY <1>1 DEF Success
  <2>2. HistoryInv' /\ AlertsInv'
    BY <2>1, RecordHistory, RecordAlerts
  <2>3. LatencyInv' /\ SamplesInv'
    BY <1>1, SuccessLatency, SuccessSamples
  <2>4. QED
    BY <2>2, <2>3
<1>2. CASE Failure
  <2>1. Record(FALSE, 0)
    BY <1>2 DEF Failure
  <2>2. HistoryInv' /\ AlertsInv'
    BY <2>1, RecordHistory, RecordAlerts
  <2>3. LatencyInv' /\ SamplesInv'
    BY <1>2, FailureLatency, FailureSamples
  <2>4. QED
    BY <2>2, <2>3
<1>3. CASE Ended \/ UNCHANGED vars
  <2>1. UNCHANGED vars
    BY <1>3 DEF Ended
  <2>2. HistoryInv'
    BY <2>1, StutterHistory
  <2>3. AlertsInv'
    <3>1. UNCHANGED <<alerts, hist, diag>>
      BY <2>1 DEF vars
    <3>2. \A i : Run(i)' = Run(i)
      BY <3>1 DEF Run
    <3>3. \A kind : AlertsOf(kind)' = AlertsOf(kind)
      BY <3>1 DEF AlertsOf
    <3>4. AlertsTellOutages
      BY DEF MonitorInv, AlertsInv
    <3>5. AlertsTellOutages'
      BY <3>1, <3>2, <3>3, <3>4 DEF AlertsTellOutages
    <3>6. QED
      BY <3>1, <3>5 DEF MonitorInv, AlertsInv
  <2>4. LatencyInv'
    BY <2>1 DEF vars, LatencyInv, LatencyTracked, SuccessRtts, BackToNormal, AboveSpike
  <2>5. SamplesInv'
    BY <2>1 DEF vars, SamplesInv, SuccessRtts
  <2>6. QED
    BY <2>2, <2>3, <2>4, <2>5
<1>4. QED
  BY <1>1, <1>2, <1>3 DEF Next

LEMMA MonitorInvariant == Spec => []MonitorInv
<1>1. Init => MonitorInv
  BY InitHistory, InitAlerts, InitLatency, InitSamples DEF MonitorInv
<1>2. QED
  BY <1>1, NextMonitor, PTL DEF Spec

(* After any sequence of results the failure streak, its record, the number
   of outages and the down flag of diag.c are what the history says. *)
THEOREM OutagesAreHistory == Spec => []OutagesMatchHistory
<1>1. MonitorInv => OutagesMatchHistory
  BY DEF MonitorInv, HistoryInv
<1>2. QED
  BY <1>1, MonitorInvariant, PTL

(* Every outage is announced once, when it reaches the threshold, and ended
   once, with its true length, whatever latency alerts are printed between
   (diag.c:125-193). *)
THEOREM AlertsAreTrue == Spec => []AlertsTellOutages
<1>1. MonitorInv => AlertsTellOutages
  BY DEF MonitorInv, AlertsInv
<1>2. QED
  BY <1>1, MonitorInvariant, PTL

(* The EWMA of diag.c stays between the extremes of stats.c, and a latency
   alert between its two thresholds, for every sequence of round-trip times. *)
THEOREM LatencyIsTracked == Spec => []LatencyTracked
<1>1. MonitorInv => LatencyTracked
  BY DEF MonitorInv, LatencyInv
<1>2. QED
  BY <1>1, MonitorInvariant, PTL

(* The percentiles stats.c reports are nearest-rank percentiles of samples
   that were measured, for every capacity, cap and failure of realloc. *)
THEOREM PercentilesAreSound == Spec => []PercentilesSound
<1>1. MonitorInv => PercentilesSound
  BY SamplesGivePercentiles DEF MonitorInv
<1>2. QED
  BY <1>1, MonitorInvariant, PTL
=============================================================================
