------------------------------ MODULE LoadTest ------------------------------
(***************************************************************************)
(* LoadTest_Run of loadtest.c: the main thread spawns workers that connect *)
(* until the deadline or the interrupt, waits for them and merges their    *)
(* private results.  There is no lock: a worker owns its own slot of args  *)
(* until it is joined.                                                     *)
(***************************************************************************)
EXTENDS Integers, FiniteSets, FiniteSetsExt

CONSTANTS
  Concurrency,      \* cfg->Concurrency, as requested
  MaxConcurrency,   \* LOADTEST_MAX_CONCURRENCY
  Silents,          \* possible values of cfg->Silent
  Rtts,             \* round-trip times of successful connections
  DblMax,           \* DBL_MAX
  MaxAttempts       \* bound on the attempts of one worker

ASSUME LoadTestAssumption ==
  /\ Concurrency \in Nat /\ MaxConcurrency \in Nat \ {0}
  /\ Silents \subseteq BOOLEAN
  /\ DblMax \in Nat /\ Rtts \subseteq 1 .. DblMax - 1
  /\ MaxAttempts \in Nat

(* conc: at least one worker, at most the cap. *)
Conc == IF Concurrency < 1 THEN 1
        ELSE IF Concurrency > MaxConcurrency THEN MaxConcurrency ELSE Concurrency

Worker == 0 .. Conc - 1

VARIABLES
  pc,               \* where the main thread is
  silent,           \* cfg->Silent
  n,                \* the loop index
  started,          \* threads that were created
  wpc,              \* where each worker is
  late,             \* workers whose connection began with g_interrupted set
  res,              \* args[w].Res
  out,              \* *out, the merged result
  ret,              \* what LoadTest_Run returns
  expired,          \* NowMs() >= deadline_ms
  interrupted,      \* g_interrupted
  cut               \* history: connections that ended PINGDD_INTERRUPTED

vars == <<pc, silent, n, started, wpc, late, res, out, ret, expired, interrupted, cut>>

Zero == [attempts |-> 0, success |-> 0, failed |-> 0, total |-> 0,
         minRtt |-> 0, maxRtt |-> 0]

Init ==
  /\ pc = "alloc" /\ silent \in Silents /\ n = 0 /\ started = 0
  /\ wpc = [w \in Worker |-> "unborn"]
  /\ late = {}
  /\ res = [w \in Worker |-> Zero]
  /\ out = Zero
  /\ ret = 1
  /\ expired = FALSE
  /\ interrupted \in BOOLEAN
  /\ cut = 0

-----------------------------------------------------------------------------
(* The main thread.                                                        *)

Alloc ==
  /\ pc = "alloc"
  /\ \/ pc' = "returned" /\ ret' = -1
     \/ pc' = "spawn" /\ UNCHANGED ret
  /\ UNCHANGED <<silent, n, started, wpc, late, res, out, expired, interrupted, cut>>

(* Where the main thread goes from the spawn loop. *)
AfterSpawn == IF silent THEN "join" ELSE "progress"

(* pthread_create of worker n succeeds, or fails and ends the loop. *)
Spawn ==
  /\ pc = "spawn"
  /\ \/ /\ wpc' = [wpc EXCEPT ![n] = "born"]
        /\ started' = started + 1
        /\ IF n + 1 = Conc THEN pc' = AfterSpawn /\ n' = 0
                           ELSE n' = n + 1 /\ UNCHANGED pc
     \/ pc' = AfterSpawn /\ n' = 0 /\ UNCHANGED <<wpc, started>>
  /\ UNCHANGED <<silent, late, res, out, ret, expired, interrupted, cut>>

(* The progress ticker sleeps and looks at the clock and at the signal. *)
Progress ==
  /\ pc = "progress"
  /\ expired \/ interrupted
  /\ pc' = "join"
  /\ UNCHANGED <<silent, n, started, wpc, late, res, out, ret, expired, interrupted, cut>>

(* Mutant of Join: the last worker is not joined. *)
JoinButLast ==
  /\ pc = "join"
  /\ IF n + 1 < started THEN wpc[n] = "exited" /\ n' = n + 1 /\ UNCHANGED pc
                        ELSE pc' = "merge" /\ UNCHANGED n
  /\ UNCHANGED <<silent, started, wpc, late, res, out, ret, expired, interrupted, cut>>

Join ==
  /\ pc = "join"
  /\ IF n < started THEN wpc[n] = "exited" /\ n' = n + 1 /\ UNCHANGED pc
                    ELSE pc' = "merge" /\ UNCHANGED n
  /\ UNCHANGED <<silent, started, wpc, late, res, out, ret, expired, interrupted, cut>>

(* The slots of the workers that were started. *)
Slots == 0 .. started - 1

Tally(slots) ==
  LET total(field) == MapThenSumSet(LAMBDA w : res[w][field], slots)
      mins == {res[w].minRtt : w \in {v \in slots : res[v].success > 0}}
      maxs == {res[w].maxRtt : w \in slots}
  IN [attempts |-> total("attempts"), success |-> total("success"),
      failed |-> total("failed"), total |-> total("total"),
      minRtt |-> IF mins = {} THEN 0 ELSE Min(mins),
      maxRtt |-> Max(maxs \cup {0})]

(* The slots are merged into *out and freed. *)
Merge ==
  /\ pc = "merge"
  /\ pc' = "returned"
  /\ out' = Tally(Slots)
  /\ ret' = 0
  /\ UNCHANGED <<silent, n, started, wpc, late, res, expired, interrupted, cut>>

-----------------------------------------------------------------------------
(* A worker: WorkerMain.                                                   *)

(* Mutant of Test: a worker stops for the signal only. *)
TestSignalOnly(w) ==
  IF interrupted
  THEN wpc' = [wpc EXCEPT ![w] = "exited"]
  ELSE /\ res'[w].attempts < MaxAttempts
       /\ wpc' = [wpc EXCEPT ![w] = "dialling"]

(* The loop condition.  A worker that goes on counts the attempt when
   Connect returns; MaxAttempts bounds the attempts of a run. *)
Test(w) ==
  IF expired \/ interrupted
  THEN wpc' = [wpc EXCEPT ![w] = "exited"]
  ELSE /\ res'[w].attempts < MaxAttempts
       /\ wpc' = [wpc EXCEPT ![w] = "dialling"]

(* Mutant of Start: the minimum starts from 0. *)
StartFromZero(w) ==
  /\ wpc[w] = "born"
  /\ res' = res
  /\ Test(w)
  /\ UNCHANGED <<pc, silent, n, started, late, out, ret, expired, interrupted, cut>>

Start(w) ==
  /\ wpc[w] = "born"
  /\ res' = [res EXCEPT ![w].minRtt = DblMax, ![w].maxRtt = 0]
  /\ Test(w)
  /\ UNCHANGED <<pc, silent, n, started, late, out, ret, expired, interrupted, cut>>

(* Connect begins, and looks at g_interrupted before it waits. *)
Dial(w) ==
  /\ wpc[w] = "dialling"
  /\ wpc' = [wpc EXCEPT ![w] = "connecting"]
  /\ late' = IF interrupted THEN late \cup {w} ELSE late
  /\ UNCHANGED <<pc, silent, n, started, res, out, ret, expired, interrupted, cut>>

(* Connect succeeds after rtt. *)
Connected(w, rtt) ==
  /\ wpc[w] = "connecting" /\ w \notin late
  /\ res' = [res EXCEPT ![w].attempts = @ + 1, ![w].success = @ + 1,
                        ![w].total = @ + rtt,
                        ![w].minRtt = IF rtt < @ THEN rtt ELSE @,
                        ![w].maxRtt = IF rtt > @ THEN rtt ELSE @]
  /\ Test(w)
  /\ UNCHANGED <<pc, silent, n, started, late, out, ret, expired, interrupted, cut>>

(* Connect fails. *)
Refused(w) ==
  /\ wpc[w] = "connecting"
  /\ res' = [res EXCEPT ![w].attempts = @ + 1, ![w].failed = @ + 1]
  /\ Test(w)
  /\ UNCHANGED <<pc, silent, n, started, late, out, ret, expired, interrupted, cut>>

(* Connect reports the interrupt: an attempt, neither won nor lost. *)
Cut(w) ==
  /\ wpc[w] = "connecting" /\ interrupted
  /\ res' = [res EXCEPT ![w].attempts = @ + 1]
  /\ wpc' = [wpc EXCEPT ![w] = "exited"]
  /\ cut' = cut + 1
  /\ UNCHANGED <<pc, silent, n, started, late, out, ret, expired, interrupted>>

WorkerStep(w) ==
  \/ Start(w) \/ Dial(w) \/ Refused(w) \/ Cut(w)
  \/ \E rtt \in Rtts : Connected(w, rtt)

-----------------------------------------------------------------------------
(* The environment: the deadline passes, the user interrupts.              *)

Tick ==
  /\ pc # "alloc" /\ ~expired
  /\ expired' = TRUE
  /\ UNCHANGED <<pc, silent, n, started, wpc, late, res, out, ret, interrupted, cut>>

Interrupt ==
  /\ ~interrupted
  /\ interrupted' = TRUE
  /\ UNCHANGED <<pc, silent, n, started, wpc, late, res, out, ret, expired, cut>>

Returned == pc = "returned" /\ UNCHANGED vars

Main == Alloc \/ Spawn \/ Progress \/ Join \/ Merge

Next ==
  \/ Main
  \/ \E w \in Worker : WorkerStep(w)
  \/ Tick \/ Interrupt
  \/ Returned

(* Threads run, a connection ends within its timeout and time passes. *)
Fairness ==
  /\ WF_vars(Main)
  /\ \A w \in Worker : WF_vars(WorkerStep(w))
  /\ WF_vars(Tick)

Spec == Init /\ [][Next]_vars /\ Fairness

-----------------------------------------------------------------------------
(* Properties.                                                             *)

(* No worker is alive once its slot may be read by the merge or freed, and
   the slots are never shared: no lock is needed (loadtest.c:217-249). *)
SlotsOwned ==
  pc \in {"merge", "returned"} => \A w \in Worker : wpc[w] \in {"unborn", "exited"}

(* Its inductive form (see LoadTestProofs): the threads that exist are those
   that were counted, and the main thread waits for each of them in turn. *)
ThreadInv ==
  /\ pc \in {"alloc", "spawn", "progress", "join", "merge", "returned"}
  /\ n \in 0 .. Conc /\ started \in 0 .. Conc
  /\ wpc \in [Worker -> {"unborn", "born", "dialling", "connecting", "exited"}]
  /\ \A w \in Worker : wpc[w] = "unborn" <=> w >= started
  /\ pc = "alloc" => n = 0 /\ started = 0
  /\ pc = "spawn" => n = started /\ n < Conc
  /\ pc = "progress" => n = 0
  /\ pc = "join" => \A w \in Worker : w < n => wpc[w] = "exited"
  /\ SlotsOwned

(* The merged result is that of the run.  Every attempt is in it; those that
   are neither a success nor a failure are the connections an interrupt cut,
   at most one per worker, and none without an interrupt.  Minimum and
   maximum are round-trip times of the run around its average, with zeros,
   and no DBL_MAX, when nothing connected: a worker without a success does
   not spoil the minimum (loadtest.c:236-245). *)
ResultSound ==
  (pc = "returned" /\ ret = 0) =>
    /\ out.attempts = out.success + out.failed + cut
    /\ cut <= started /\ (~interrupted => cut = 0)
    /\ out.success = MapThenSumSet(LAMBDA w : res[w].success, Worker)
    /\ IF out.success = 0 THEN out.minRtt = 0 /\ out.maxRtt = 0 /\ out.total = 0
       ELSE /\ out.minRtt \in Rtts /\ out.maxRtt \in Rtts
            /\ out.minRtt * out.success <= out.total
            /\ out.total <= out.maxRtt * out.success

(* The run as one experiment: its tally is in the slots, also in those of
   workers that were never started, and a connection is open from the test of
   the loop that let it through. *)
InSlots == Tally(Worker)
Experiment == INSTANCE LoadSpec WITH
  Width <- Conc, running <- pc # "returned", over <- expired \/ interrupted,
  open <- Cardinality({w \in Worker : wpc[w] \in {"dialling", "connecting"}}),
  tally <- InSlots, result <- out

(* The inductive form of ResultSound (see LoadTestProofs): what each slot
   holds while its worker runs, and the tally of all of them. *)
Result == [attempts : Nat, success : Nat, failed : Nat, total : Nat,
           minRtt : Nat, maxRtt : Nat]

SlotSound(w) ==
  /\ wpc[w] \in {"unborn", "born"} => res[w] = Zero
  /\ IF res[w].success = 0
     THEN /\ res[w].total = 0 /\ res[w].maxRtt = 0
          /\ wpc[w] \in {"dialling", "connecting"} => res[w].minRtt = DblMax
     ELSE /\ res[w].minRtt \in Rtts /\ res[w].maxRtt \in Rtts
          /\ res[w].minRtt * res[w].success <= res[w].total
          /\ res[w].total <= res[w].maxRtt * res[w].success

Exited == {w \in Worker : wpc[w] = "exited"}

ResultInv ==
  /\ res \in [Worker -> Result] /\ cut \in Nat
  /\ expired \in BOOLEAN /\ interrupted \in BOOLEAN
  /\ \A w \in Worker : SlotSound(w)
  /\ InSlots.attempts = InSlots.success + InSlots.failed + cut
  /\ cut <= Cardinality(Exited) /\ (~interrupted => cut = 0)
  /\ Exited # {} => expired \/ interrupted
  /\ IF pc = "returned" THEN ret \in {0, -1} /\ (ret = 0 => out = InSlots) ELSE ret = 1

(* A load test is one experiment, although each worker looks at the clock and
   the signal for itself and counts on its own: no connection begins after
   the end, at most one per worker is open then, the result is the tally of
   all that ended, no earlier and no later one, and the run returns. *)
ImplementsExperiment == Experiment!Spec

(* loadtest.h:72 "@retval -1 Invalid arguments or thread-spawn failure":
   a run that returns 0 had all the workers it was to have.  The code breaks
   it: a failed pthread_create ends the spawn loop and the run goes on with
   the workers there are, even with none (loadtest.c:193-200, 253). *)
SpawnFailureReported == ret = 0 => started = Conc
=============================================================================
