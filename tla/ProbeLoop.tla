----------------------------- MODULE ProbeLoop -----------------------------
(***************************************************************************)
(* ProbeLoop of main.c: the main thread, from the pool's creation to the   *)
(* exit code, with SIGINT/SIGTERM (g_interrupted) and the deadline clock.  *)
(*                                                                         *)
(* In concurrent mode the probes of a cycle are those of ProbeCycle, which *)
(* Cpool implements; without a pool the targets are probed one by one.     *)
(* Each target has a scratch record (LastResult, LastRtt) its probe writes *)
(* and the main thread reads afterwards.                                   *)
(***************************************************************************)
EXTENDS Diag, FiniteSetsExt

CONSTANTS
  Rc,             \* number of resolved targets; main exits before when none
  PoolStarts,     \* possible values of pool != NULL after line 821
  Counts,         \* possible values of --count (-1: unlimited)
  Deadlines,      \* is there a --deadline: possible values
  Rtts,           \* round-trip times of successful probes
  MaxCycles       \* bound on the cycles of an unlimited run

ASSUME ProbeLoopAssumption ==
  /\ Rc \in Nat \ {0}
  /\ PoolStarts \subseteq BOOLEAN /\ Deadlines \subseteq BOOLEAN
  /\ Counts \subseteq Nat \cup {-1}
  /\ Rtts \subseteq Nat \ {0}
  /\ MaxCycles \in Nat
  /\ DblMax \in Nat /\ MaxRetained \in Nat /\ FirstCap \in Nat \ {0}

Target == 1 .. Rc       \* rt[0] .. rt[rc - 1]

Result == {"ok", "failed", "interrupted"}

VARIABLES
  pc,             \* where the main thread is
  k,              \* sequential scheduling: the target to probe next
  cycle,          \* cycles completed
  count,          \* args->Count
  deadline,       \* args->Deadline > 0
  interrupted,    \* g_interrupted
  expired,        \* the deadline has passed
  pooled,         \* pool != NULL
  phase, pending, probing,        \* the pool: see ProbeCycle
  result,         \* LastResult of each target; SUCCESS is 0, as is calloc'ed memory
  lastRtt,        \* LastRtt of each target
  stats, diag,    \* Stats and Diag of each target
  exitCode,       \* what ProbeLoop returns
  late,           \* targets whose last probe began with g_interrupted set
  lateProbes,     \* history: probes begun with g_interrupted set
  overdue,        \* history: probes begun after the deadline
  probed,         \* history: probes of each target that ended with a verdict
  won             \* history: those that succeeded

poolVars == <<phase, pending, probing>>
config == <<count, deadline>>
env == <<interrupted, expired>>
scratch == <<result, lastRtt, late, lateProbes, overdue, probed, won>>
totals == <<stats, diag>>
vars == <<pc, k, cycle, config, env, pooled, poolVars, scratch, totals, exitCode>>

Pool == INSTANCE ProbeCycle WITH Target <- Target

Init ==
  /\ pc = "setup" /\ k = 1 /\ cycle = 0
  /\ count \in Counts /\ deadline \in Deadlines
  /\ interrupted \in BOOLEAN       \* the handler is installed before resolving
  /\ expired = FALSE
  /\ pooled = FALSE
  /\ Pool!Init
  /\ result = [t \in Target |-> "ok"]
  /\ lastRtt = [t \in Target |-> 0]
  /\ stats = [t \in Target |-> StatsInit]
  /\ diag = [t \in Target |-> DiagInit]
  /\ exitCode = "none"
  /\ late = {} /\ lateProbes = 0 /\ overdue = 0
  /\ probed = [t \in Target |-> 0]
  /\ won = [t \in Target |-> 0]

-----------------------------------------------------------------------------
(* The environment.                                                        *)

(* SignalHandler. *)
Interrupt ==
  /\ pc # "exit" /\ ~interrupted
  /\ interrupted' = TRUE
  /\ UNCHANGED <<pc, k, cycle, config, expired, pooled, poolVars, scratch, totals, exitCode>>

(* The time of the deadline comes. *)
Tick ==
  /\ deadline /\ pc \notin {"setup", "report", "exit"} /\ ~expired
  /\ expired' = TRUE
  /\ UNCHANGED <<pc, k, cycle, config, interrupted, pooled, poolVars, scratch, totals, exitCode>>

-----------------------------------------------------------------------------
(* Before the loop: rt is allocated, then the pool is created; with no     *)
(* --concurrent, or when Cpool_Create fails, there is none.                *)
Setup ==
  /\ pc = "setup"
  /\ \/ /\ pc' = "exit" /\ exitCode' = "failure"
        /\ Pool!Close /\ UNCHANGED pooled
     \/ /\ pc' = "test" /\ UNCHANGED exitCode
        /\ pooled' \in PoolStarts
        /\ IF pooled' THEN UNCHANGED poolVars ELSE Pool!Close
  /\ UNCHANGED <<k, cycle, config, env, scratch, totals>>

(* Mutant of CountReached: one cycle too many. *)
CountPassed == count # -1 /\ cycle > count

CountReached == count # -1 /\ cycle >= count

(* The loop condition and the deadline test that follows it. *)
Test ==
  /\ pc = "test"
  /\ IF interrupted \/ CountReached \/ expired
     THEN pc' = "report" /\ UNCHANGED <<k, poolVars>>
     ELSE /\ cycle < MaxCycles
          /\ k' = 1
          /\ IF pooled THEN pc' = "cycle" /\ Pool!StartCycle
                       ELSE pc' = "probe" /\ UNCHANGED poolVars
  /\ UNCHANGED <<cycle, config, env, pooled, scratch, totals, exitCode>>

-----------------------------------------------------------------------------
(* Probes.                                                                 *)

(* Connect starts.  It looks at g_interrupted before it waits, so that a
   probe that begins after the signal cannot succeed. *)
Begin(t) ==
  /\ late' = IF interrupted THEN late \cup {t} ELSE late \ {t}
  /\ lateProbes' = lateProbes + (IF interrupted THEN 1 ELSE 0)
  /\ overdue' = overdue + (IF expired THEN 1 ELSE 0)
  /\ UNCHANGED <<result, lastRtt, probed, won>>

Outcome(t) ==
  IF t \in late THEN {"failed", "interrupted"}
  ELSE IF interrupted THEN Result ELSE {"ok", "failed"}

(* Connect returns and Probe_One writes the scratch record of t. *)
Finish(t, r, rtt) ==
  /\ r \in Outcome(t)
  /\ result' = [result EXCEPT ![t] = r]
  /\ lastRtt' = [lastRtt EXCEPT ![t] = rtt]
  /\ probed' = [probed EXCEPT ![t] = IF r = "interrupted" THEN @ ELSE @ + 1]
  /\ won' = [won EXCEPT ![t] = IF r = "ok" THEN @ + 1 ELSE @]
  /\ UNCHANGED <<late, lateProbes, overdue>>

(* Sequential scheduling: Probe_One of target k is called ... *)
SeqBegin ==
  /\ pc = "probe"
  /\ pc' = "inprobe"
  /\ Begin(k)
  /\ UNCHANGED <<k, cycle, config, env, pooled, poolVars, totals, exitCode>>

(* Mutant of SeqEnd: the signal is not looked at within a round. *)
SeqEndDeaf(r, rtt) ==
  /\ pc = "inprobe"
  /\ Finish(k, r, rtt)
  /\ IF k = Rc THEN pc' = "process" /\ UNCHANGED k
               ELSE pc' = "probe" /\ k' = k + 1
  /\ UNCHANGED <<cycle, config, env, pooled, poolVars, totals, exitCode>>

(* ... and returns; an interrupt leaves the rest of the round unprobed. *)
SeqEnd(r, rtt) ==
  /\ pc = "inprobe"
  /\ Finish(k, r, rtt)
  /\ IF interrupted \/ k = Rc THEN pc' = "process" /\ UNCHANGED k
                              ELSE pc' = "probe" /\ k' = k + 1
  /\ UNCHANGED <<cycle, config, env, pooled, poolVars, totals, exitCode>>

(* Concurrent scheduling: a worker of the pool does it. *)
PoolBegin(t) ==
  /\ Pool!BeginProbe(t)
  /\ Begin(t)
  /\ UNCHANGED <<pc, k, cycle, config, env, pooled, totals, exitCode>>

PoolEnd(t, r, rtt) ==
  /\ Pool!EndProbe(t)
  /\ Finish(t, r, rtt)
  /\ UNCHANGED <<pc, k, cycle, config, env, pooled, totals, exitCode>>

(* Cpool_RunCycle returns. *)
CycleDone ==
  /\ pc = "cycle"
  /\ Pool!EndCycle
  /\ pc' = "process"
  /\ UNCHANGED <<k, cycle, config, env, pooled, scratch, totals, exitCode>>

-----------------------------------------------------------------------------
(* After a round.                                                          *)

(* What the main thread makes of target t's scratch record. *)
Counted(t) == result[t] # "interrupted"

StatsAfter(t) ==
  IF ~Counted(t) THEN stats[t]
  ELSE IF result[t] = "ok"
       THEN [AddSample(stats[t], lastRtt[t], TRUE)
               EXCEPT !.connects = @ + 1, !.attempts = @ + 1]
       ELSE [stats[t] EXCEPT !.failures = @ + 1, !.attempts = @ + 1]

DiagAfter(t) ==
  IF Counted(t) THEN Observe(diag[t], result[t] = "ok", lastRtt[t]) ELSE diag[t]

(* Mutant of Process: an interrupted round is thrown away. *)
ProcessUnlessInterrupted ==
  /\ pc = "process"
  /\ stats' = IF interrupted THEN stats ELSE [t \in Target |-> StatsAfter(t)]
  /\ diag' = IF interrupted THEN diag ELSE [t \in Target |-> DiagAfter(t)]
  /\ pc' = "decide"
  /\ UNCHANGED <<k, cycle, config, env, pooled, poolVars, scratch, exitCode>>

(* The results are processed in target order; then come the loop's exits:
   "interrupted_now" remembers an interrupted probe.  The count is tested
   before the clock, and neither is after an interrupt. *)
Process ==
  /\ pc = "process"
  /\ stats' = [t \in Target |-> StatsAfter(t)]
  /\ diag' = [t \in Target |-> DiagAfter(t)]
  /\ pc' = "decide"
  /\ UNCHANGED <<k, cycle, config, env, pooled, poolVars, scratch, exitCode>>

Decide ==
  /\ pc = "decide"
  /\ IF interrupted \/ \E t \in Target : ~Counted(t)
     THEN pc' = "report" /\ UNCHANGED cycle
     ELSE /\ cycle' = cycle + 1
          /\ pc' = IF (count # -1 /\ cycle' >= count) \/ expired THEN "report" ELSE "pause"
  /\ UNCHANGED <<k, config, env, pooled, poolVars, scratch, totals, exitCode>>

(* delay_ms; a signal cuts it short. *)
Pause ==
  /\ pc = "pause"
  /\ pc' = "test"
  /\ UNCHANGED <<k, cycle, config, env, pooled, poolVars, scratch, totals, exitCode>>

-----------------------------------------------------------------------------
(* What is reported at the end.                                            *)

(* Mutant of Up: a target that was reached once stays up. *)
UpOnce(t) == stats[t].connects > 0

(* The metric pingdd_up of WritePrometheus, for a target that resolved. *)
Up(t) == result[t] = "ok"

(* The verdict of PrintCombinedHuman on all targets together. *)
Combined ==
  LET total(field) == MapThenSumSet(LAMBDA t : stats[t][field], Target)
      all == [attempts |-> total("attempts"), failures |-> total("failures")]
  IN IF (\E t \in Target : diag[t].isDown) \/ LossAtLeast(all, 100) THEN "DOWN"
     ELSE IF LossAbove(all, 5) \/ \E t \in Target : diag[t].outages > 0 THEN "DEGRADED"
     ELSE "HEALTHY"

Attempted == \E t \in Target : stats[t].attempts > 0

(* Mutant of Connected: one unreachable target fails the run. *)
AllConnected == \A t \in Target : stats[t].connects > 0

Connected == \E t \in Target : stats[t].connects > 0

(* Mutant of Report: the pool is not destroyed. *)
ReportLeaks ==
  /\ pc = "report"
  /\ pc' = "exit"
  /\ UNCHANGED poolVars
  /\ exitCode' = IF Attempted /\ ~Connected THEN "failure" ELSE "success"
  /\ UNCHANGED <<k, cycle, config, env, pooled, scratch, totals>>

(* Summaries and metrics are printed, the pool is destroyed, and the exit
   code tells whether every probe failed. *)
Report ==
  /\ pc = "report"
  /\ pc' = "exit"
  /\ IF pooled THEN Pool!Close ELSE UNCHANGED poolVars
  /\ exitCode' = IF Attempted /\ ~Connected THEN "failure" ELSE "success"
  /\ UNCHANGED <<k, cycle, config, env, pooled, scratch, totals>>

Exited == pc = "exit" /\ UNCHANGED vars

RttOf(r) == IF r = "ok" THEN Rtts ELSE {0}

ProbeEnds ==
  \/ \E r \in Result : \E rtt \in RttOf(r) : SeqEnd(r, rtt)
  \/ \E t \in Target, r \in Result : \E rtt \in RttOf(r) : PoolEnd(t, r, rtt)

Main ==
  \/ Setup \/ Test
  \/ SeqBegin \/ CycleDone
  \/ Process \/ Decide \/ Pause \/ Report

Next ==
  \/ Main
  \/ \E t \in Target : PoolBegin(t)
  \/ ProbeEnds
  \/ Interrupt \/ Tick
  \/ Exited

(* The main thread runs, the pool keeps the promise of ProbeCycle, a probe
   is bounded by its timeout, and time passes.  Nobody has to interrupt. *)
Fairness ==
  /\ WF_vars(Main)
  /\ \A t \in Target : WF_vars(PoolBegin(t))
  /\ WF_vars(ProbeEnds)
  /\ WF_vars(Tick)

SafeSpec == Init /\ [][Next]_vars
Spec == SafeSpec /\ Fairness

-----------------------------------------------------------------------------
(* Properties.                                                             *)

Settled == pc \in {"test", "decide", "report", "exit"}

(* No verdict is lost: once a round is processed, each probe that ended
   with one is in its target's totals, whichever probes of the round the
   signal cut off (main.c:904-949). *)
EveryProbeCounted ==
  Settled => \A t \in Target :
    stats[t].attempts >= probed[t] /\ stats[t].connects >= won[t]

(* stats.h:19 "Total number of connection attempts": the totals count
   nothing but probes.  Without a pool the code breaks it: main.c:894 leaves
   the round, and main.c:904 processes the stale records of the targets it
   has not probed. *)
OnlyProbesCounted ==
  Settled => \A t \in Target :
    stats[t].attempts <= probed[t] /\ stats[t].connects <= won[t]

(* No probe is lost, and with a pool nothing else is counted: no record is
   stale when it is processed, although the signal may come at any point of
   the cycle, so the totals are exact. *)
TotalsSound == EveryProbeCounted /\ (pooled => OnlyProbesCounted)

(* Whenever the loop goes round, all targets have been probed and counted as
   often as there were cycles: none runs ahead, none starves.  --count N
   makes N probes of each and never more; exactly N unless an interrupt or
   the deadline ended the run first. *)
CountHonoured ==
  /\ pc \in {"test", "pause"} =>
       \A t \in Target : probed[t] = cycle /\ stats[t].attempts = cycle
  /\ count # -1 =>
       /\ \A t \in Target : probed[t] <= count /\ stats[t].attempts <= count
       /\ (pc = "report" /\ ~interrupted /\ ~expired) =>
            \A t \in Target : stats[t].attempts = count

(* After the signal at most the round that the loop condition had already
   let through is probed, and sequentially at most one target of it.  The
   deadline is not looked at within a round or during a pause, but no second
   round begins after it (main.c:887, 960). *)
StopsPromptly ==
  /\ lateProbes <= IF pooled THEN Rc ELSE 1
  /\ overdue <= Rc

(* main.c:1018 "Exit non-zero if every probe failed across all targets." *)
ExitCodeTruthful ==
  (pc = "exit" /\ (\E t \in Target : probed[t] > 0) /\ (\A t \in Target : won[t] = 0))
    => exitCode = "failure"

(* With a pool the exit code keeps that promise; and in either mode a run
   that reached some target does not report failure. *)
ExitCodeSound ==
  /\ pooled => ExitCodeTruthful
  /\ (pc = "exit" /\ \E t \in Target : won[t] > 0) => exitCode = "success"

(* main.c:724 "Last-probe reachability (1=reachable)": a target reported up
   has been probed, and its last probe succeeded. *)
UpWasReached == pc \in {"report", "exit"} => \A t \in Target : Up(t) => won[t] > 0

(* What a run reports agrees with itself, although the exit code comes from
   the totals, the combined verdict from totals and outages, and pingdd_up from
   the last record (main.c:656, 728, 1025), also when a signal cut the last
   round: a failed run is DOWN; DOWN without an outage that is still open is a
   failed run; a target in an open outage is not up, and one that is up after
   it was probed has no failures since. *)
ReportsAgree ==
  pc = "exit" /\ Attempted =>
    /\ exitCode = "failure" => Combined = "DOWN"
    /\ Combined = "DOWN" => exitCode = "failure" \/ \E t \in Target : diag[t].isDown
    /\ \A t \in Target :
         /\ diag[t].isDown => ~Up(t) /\ Verdict(diag[t], stats[t]) = "DOWN"
         /\ Up(t) /\ stats[t].attempts > 0 => diag[t].consecFails = 0 /\ stats[t].connects > 0
         /\ stats[t].attempts = stats[t].connects + stats[t].failures

(* A bounded, interrupted or deadlined run ends, and with it the pool. *)
Terminates ==
  (count # -1 \/ deadline \/ interrupted) ~> (pc = "exit" /\ phase = "closed")

-----------------------------------------------------------------------------
(* The inductive invariant behind TotalsSound, CountHonoured, StopsPromptly *)
(* and ExitCodeSound (see ProbeLoopProofs): within a round the totals are   *)
(* still those of the cycles completed, and what a target has to add to     *)
(* them is the verdict in its record, if the round has reached it.          *)

Round == {"probe", "inprobe", "cycle", "process"}

(* The targets whose record is of this round. *)
Reached == {t \in Target :
  \/ pc \in {"probe", "inprobe"} /\ t < k
  \/ pc = "cycle" /\ t \notin pending \cup probing
  \/ pc = "process" /\ (pooled \/ t <= k)}

Verdicts(t) == IF t \in Reached /\ Counted(t) THEN 1 ELSE 0
Wins(t) == IF t \in Reached /\ result[t] = "ok" THEN 1 ELSE 0

LoopTypeOK ==
  /\ pc \in {"setup", "test", "pause", "decide", "report", "exit"} \cup Round
  /\ k \in Target /\ cycle \in Nat /\ count \in Nat \cup {-1}
  /\ interrupted \in BOOLEAN /\ expired \in BOOLEAN /\ pooled \in BOOLEAN
  /\ pending \subseteq Target /\ probing \subseteq Target /\ late \subseteq Target
  /\ result \in [Target -> Result] /\ lastRtt \in [Target -> Nat]
  /\ probed \in [Target -> Nat] /\ won \in [Target -> Nat]
  /\ stats \in [Target -> StatsType]
  /\ lateProbes \in Nat /\ overdue \in Nat

ThreadInv ==
  /\ pc # "cycle" => pending = {} /\ probing = {}
  /\ pending \cap probing = {}
  /\ pc = "cycle" => pooled
  /\ pc \in {"probe", "inprobe"} => ~pooled
  /\ (late # {} \/ \E t \in Target : ~Counted(t)) => interrupted
  /\ pc = "process" /\ ~pooled /\ k # Rc => interrupted

TallyInv ==
  /\ pc \in {"setup", "test", "pause"} \cup Round => \A t \in Target :
       /\ stats[t].attempts = cycle
       /\ probed[t] = cycle + Verdicts(t)
       /\ won[t] = stats[t].connects + Wins(t)
  /\ pc = "decide" => \A t \in Target :
       /\ stats[t].attempts = cycle + (IF Counted(t) THEN 1 ELSE 0)
       /\ interrupted \/ (probed[t] = stats[t].attempts /\ won[t] = stats[t].connects)
  /\ TotalsSound

CountInv ==
  /\ pc = "setup" => cycle = 0 /\ \A t \in Target : won[t] = 0
  /\ count # -1 =>
       /\ cycle <= count
       /\ pc \in Round \cup {"decide", "pause"} => cycle < count
       /\ pc \in {"report", "exit"} => \A t \in Target : stats[t].attempts <= count
       /\ pc = "exit" => \A t \in Target : probed[t] <= count
  /\ CountHonoured

LagInv ==
  /\ ~interrupted => lateProbes = 0
  /\ ~expired => overdue = 0
  /\ pc \in {"setup", "test", "pause"} => lateProbes = 0 /\ overdue = 0
  /\ pc = "probe" => lateProbes = 0 /\ overdue < k
  /\ pc = "inprobe" => overdue <= k
  /\ pc = "cycle" => /\ lateProbes + Cardinality(pending) <= Rc
                     /\ overdue + Cardinality(pending) <= Rc
  /\ StopsPromptly

ExitInv ==
  pc = "exit" =>
    \/ exitCode = IF Attempted /\ ~Connected THEN "failure" ELSE "success"
    \/ exitCode = "failure" /\ \A t \in Target : probed[t] = 0 /\ won[t] = 0

LoopInv == LoopTypeOK /\ ThreadInv /\ TallyInv /\ CountInv /\ LagInv /\ ExitInv

(* And behind ReportsAgree: outside the rounds, a target whose record says
   "ok" is in no outage and has that success in its totals.  The three sources
   of the reports are then bound together target by target. *)
AgreeInv ==
  /\ diag \in [Target -> DiagType]
  /\ \A t \in Target : stats[t].attempts = stats[t].connects + stats[t].failures
  /\ pc \notin Round => \A t \in Target : result[t] = "ok" =>
       /\ ~diag[t].isDown /\ diag[t].consecFails = 0
       /\ stats[t].attempts > 0 => stats[t].connects > 0
  /\ pc = "exit" /\ Attempted => exitCode = IF Connected THEN "success" ELSE "failure"
=============================================================================
