----------------------------- MODULE Resilience -----------------------------
(***************************************************************************)
(* LoadTest_Resilience of loadtest.c: a load test per concurrency level, a *)
(* baseline from the first, and a verdict.  A phase is one LoadTest_Run,   *)
(* of which only the average latency and the loss matter here; LoadTest    *)
(* models the run itself.                                                  *)
(***************************************************************************)
EXTENDS Integers, Sequences, FiniteSets

CONSTANTS
  Requests,         \* possible values of cfg->Concurrency
  Durations,        \* possible values of cfg->DurationMs
  MaxConcurrency,   \* LOADTEST_MAX_CONCURRENCY
  MinPhase,         \* shortest phase, 500 ms
  Outcomes          \* possible [avg, loss] of a phase: ms and percent

ASSUME ResilienceAssumption ==
  /\ Requests \subseteq Nat /\ Durations \subseteq Nat
  /\ MaxConcurrency \in Nat \ {0}
  /\ MaxConcurrency <= 32768       \* what levels[16] reaches by doubling
  /\ MinPhase \in Nat
  /\ Outcomes \subseteq [avg : Nat, loss : 0 .. 100]

VARIABLES
  step,             \* where the sweep is
  request, duration,    \* cfg
  levels,           \* levels[0 .. level_count - 1]
  phaseMs,          \* phase_ms
  baseline,         \* baseline_avg and baseline_loss
  knee,             \* -1, or the level where degradation starts
  rows,             \* history: the outcomes of the phases run so far
  verdict,          \* what is printed at the end
  stopped           \* g_interrupted

sweepVars == <<step, request, duration, levels, phaseMs, baseline, knee, rows, verdict, stopped>>

MaxConc(c) == IF c < 1 THEN 1 ELSE IF c > MaxConcurrency THEN MaxConcurrency ELSE c

(* lvl = 1, 2, 4, ...: what levels[16] has room for beside the maximum. *)
Doubling ==
  <<1, 2, 4, 8, 16, 32, 64, 128, 256, 512, 1024, 2048, 4096, 8192, 16384>>

(* Mutant of Ramp: the maximum comes twice when it is a power of two. *)
RampTwice(max) ==
  LET upTo == {i \in DOMAIN Doubling : Doubling[i] <= max}
  IN Append(SubSeq(Doubling, 1, Cardinality(upTo)), max)

(* The levels below max, then max. *)
Below(max) == {i \in DOMAIN Doubling : Doubling[i] < max}
Ramp(max) == Append(SubSeq(Doubling, 1, Cardinality(Below(max))), max)

SweepInit ==
  /\ step = "start" /\ request \in Requests /\ duration \in Durations
  /\ levels = << >> /\ phaseMs = 0
  /\ baseline = [avg |-> 0, loss |-> 0] /\ knee = -1
  /\ rows = << >> /\ verdict = <<"none", 0>>
  /\ stopped \in BOOLEAN

Plan ==
  /\ step = "start"
  /\ levels' = Ramp(MaxConc(request))
  /\ phaseMs' = LET share == duration \div Len(levels')
                IN IF share < MinPhase THEN MinPhase ELSE share
  /\ step' = "sweep"
  /\ UNCHANGED <<request, duration, baseline, knee, rows, verdict, stopped>>

(* Latency more than doubled against the baseline b, or loss more than two
   points above it. *)
Degraded(r, b) == r.loss > b.loss + 2 \/ (b.avg > 0 /\ r.avg > 2 * b.avg)

(* The loop condition: another level, unless the user interrupted. *)
NextLevel ==
  /\ step = "sweep"
  /\ step' = IF Len(rows) < Len(levels) /\ ~stopped THEN "phase" ELSE "verdict"
  /\ UNCHANGED <<request, duration, levels, phaseMs, baseline, knee, rows, verdict, stopped>>

(* Mutant of Phase: the knee is the last degraded level. *)
PhaseLastKnee(r) ==
  /\ step = "phase"
  /\ step' = "sweep"
  /\ rows' = Append(rows, r)
  /\ baseline' = IF rows = << >> THEN r ELSE baseline
  /\ knee' = IF Degraded(r, baseline') THEN levels[Len(rows')] ELSE knee
  /\ UNCHANGED <<request, duration, levels, phaseMs, verdict, stopped>>

(* The phase runs; the first one is the baseline it is compared with. *)
Phase(r) ==
  /\ step = "phase"
  /\ step' = "sweep"
  /\ rows' = Append(rows, r)
  /\ baseline' = IF rows = << >> THEN r ELSE baseline
  /\ knee' = IF Degraded(r, baseline') /\ knee < 0 THEN levels[Len(rows')] ELSE knee
  /\ UNCHANGED <<request, duration, levels, phaseMs, verdict, stopped>>

(* LoadTest_Run returns -1. *)
PhaseFails ==
  /\ step = "phase"
  /\ step' = "error"
  /\ UNCHANGED <<request, duration, levels, phaseMs, baseline, knee, rows, verdict, stopped>>

Conclude ==
  /\ step = "verdict"
  /\ verdict' = IF knee >= 0 THEN <<"degrades", knee>> ELSE <<"steady", MaxConc(request)>>
  /\ step' = "done"
  /\ UNCHANGED <<request, duration, levels, phaseMs, baseline, knee, rows, stopped>>

StopSweep ==
  /\ ~stopped
  /\ stopped' = TRUE
  /\ UNCHANGED <<step, request, duration, levels, phaseMs, baseline, knee, rows, verdict>>

Finished == step \in {"done", "error"} /\ UNCHANGED sweepVars

Sweep == Plan \/ NextLevel \/ (\E r \in Outcomes : Phase(r)) \/ PhaseFails \/ Conclude

SweepNext == Sweep \/ StopSweep \/ Finished

(* Every phase ends, as LoadSpec does, which LoadTest implements: so the
   sweep goes on. *)
SweepSpec == SweepInit /\ [][SweepNext]_sweepVars /\ WF_sweepVars(Sweep)

-----------------------------------------------------------------------------
(* Properties.                                                             *)

(* The levels fit levels[16], start at one connection (or at the maximum, if
   that is one), grow, never skip past the double of the one before, and end
   with the maximum asked for; every level gets at least MinPhase. *)
RampSound ==
  step # "start" =>
    /\ Len(levels) \in 1 .. 16
    /\ levels[1] = 1
    /\ levels[Len(levels)] = MaxConc(request)
    /\ levels[Len(levels)] <= MaxConcurrency
    /\ \A i \in 1 .. Len(levels) - 1 :
         levels[i] < levels[i + 1] /\ levels[i + 1] <= 2 * levels[i]
    /\ phaseMs >= MinPhase

(* Degradation is reported if and only if it was measured, and the level
   reported is the lowest one that was worse than the first. *)
VerdictSound ==
  LET worse == {i \in DOMAIN rows : Degraded(rows[i], rows[1])}
  IN step = "done" =>
       IF worse = {} THEN verdict[1] # "degrades"
       ELSE verdict = <<"degrades", levels[CHOOSE i \in worse : \A j \in worse : i <= j]>>

(* loadtest.h:78 "measuring degradation at each level": a service is held
   steady up to a level that was measured.  The code breaks it: after an
   interrupt it names the maximum, whichever levels were left out
   (loadtest.c:288, 350-354). *)
SteadyIsMeasured ==
  (step = "done" /\ verdict[1] = "steady") =>
    \E i \in DOMAIN rows : levels[i] = verdict[2]

(* README.md:170 "reports where the service starts to degrade": a service
   of which no connection succeeded is not steady.  The code breaks it: all
   losses are compared with the loss of the first level, 100% included. *)
SteadyIsServed ==
  (step = "done" /\ verdict[1] = "steady") => \A i \in DOMAIN rows : rows[i].loss < 100

-----------------------------------------------------------------------------
(* The inductive invariant behind RampSound and VerdictSound (see           *)
(* ModeProofs): the rows are those of the first levels, the baseline is the *)
(* first of them, and the knee the first that is degraded against it.       *)

Worse(i) == Degraded(rows[i], rows[1])

SweepInv ==
  /\ step \in {"start", "sweep", "phase", "verdict", "done", "error"}
  /\ request \in Nat /\ duration \in Nat
  /\ levels \in Seq(Nat) /\ rows \in Seq(Outcomes)
  /\ step = "start" => rows = << >> /\ knee = -1
  /\ RampSound
  /\ Len(rows) <= Len(levels)
  /\ step = "phase" => Len(rows) < Len(levels)
  /\ rows # << >> => baseline = rows[1]
  /\ \/ knee = -1 /\ \A i \in DOMAIN rows : ~Worse(i)
     \/ \E i \in DOMAIN rows : /\ Worse(i) /\ knee = levels[i]
                               /\ \A j \in 1 .. i - 1 : ~Worse(j)
  /\ step = "done" =>
       verdict = IF knee >= 0 THEN <<"degrades", knee>> ELSE <<"steady", MaxConc(request)>>
=============================================================================
