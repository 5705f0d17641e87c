# PingDD in TLA+

This directory holds a verification development for PingDD, a connectivity probe
written in C: TLA+ modules translated from its source, TLC configurations that check
them on small instances, and proofs of most of its safety properties that TLAPS checks for
every instance. Line numbers are those of `src/src/`. The POSIX build is the one modelled.

## 1. The program

`main` parses arguments and configuration, builds a list of targets, resolves and perhaps
annotates them, and runs one mode: the probe loop, a traceroute, a load test or resilience
sweep, or HTTP(S) probes. SIGINT and SIGTERM set one flag, `g_interrupted`, which everything polls.

| Component | State | Operations | Interacts with | Hard behaviour | What makes it correct |
|---|---|---|---|---|---|
| Probe pool (`cpool.c`) | mutex, two condition variables, `Gen`, `WorkIndex`, `Remaining`, `Shutdown`, `NThreads` | Create, RunCycle, Destroy; WorkerMain | main loop calls it, workers call `Connect` | late workers, spurious wakeups, failing `pthread_create`, shutdown | each target probed once per cycle by one worker; main reads only between cycles; cycles and shutdown end |
| Main (`main.c`) | settings, list, open log files | main | everything below | failure at each step of the start | a mode starts only on what it relies on; everything is released; the exit code says what happened |
| Probe loop (`main.c`) | cycle, per-target scratch record, deadline, flag | ProbeLoop, signal handler, exit code, metrics | pool, statistics, diagnostics | the signal at every point, stale records | totals are those of the probes made; counts, exit code and end of the run |
| Statistics (`stats.c`) | aggregates, retained samples | AddSample, Percentile | main loop | failing `realloc`, the cap, rank rounding | percentiles are measured values of the right rank |
| Diagnostics (`diag.c`) | failure streak, outage flag, EWMA, baseline | Observe, Verdict, Grade | main loop | long histories | outages and alerts are what the history says |
| Probe engine (`socket.c`, `timer.c`) | timers, address index | Connect, ProbeTcp/Udp/Icmp, WaitEvent | kernel, name server; other workers through `icmp_seq` | EINTR, foreign packets, time budget, the unlocked counter | bounded time, result of the right address, no other probe's reply |
| Load test (`loadtest.c`) | a result slot per worker, deadline | LoadTest_Run, LoadTest_Resilience | threads, `Connect` | partial spawn, interrupt, merge | no slot read while written; result accounts for all attempts; verdict follows from rows |
| Traceroute (`traceroute.c`) | hop, query, sequence number | Traceroute_Run, TraceProbe | ICMP | late, foreign, truncated messages | replies on the right line, bounded time |
| HTTP(S) probe (`http.c`) | socket, TLS contexts, response, timers | Http_Probe, RunHttpMode | server | silent or trickling peer, failure midway | resources released, bounded time, real successes |
| Target matrix (`targets.c`) | growing list | Targets_Build, Targets_Resolve | name server | reuse of answers, failing `realloc`, 16-bit ports | the list is what was asked for; targets of one host agree |
| Arguments, configuration (`arguments.c`, `config.c`) | `arguments_t` | defaults, file, command line, checks | main | options that touch the same field, in any order | the documented precedence |
| Annotation (`resolve.c`) | names and AS of a target | Resolve_Annotate | DNS | missing or reordered answers | what is printed beside an address is about it |
| CSV, printing (`csv.c`, `print.c`) | none that lasts | text | main | — | not modelled: formatting |

`PROJECT.json` lists every component with its status, the map from definitions to source
lines, and the hazards, each at the line where it bites.

## 2. The modules

Every `MC*` module instantiates the module of its name for TLC; a `*Proofs` module holds
the proofs about the module of its name. Two hold those of several: **EchoProofs** is about
`IcmpPool` and `Traceroute`, whose replies must reach who asked, and **ModeProofs** about
`Http`, `Resilience` and `Startup` with `Settings` and `Targets`. **SumTheorems** is about no
part of the program: it is the theory of sums over a set that two of them need.

**ProbeCycle** is the promise of the pool (`cpool.h`): a cycle has pending targets, begins
and ends each of them once, and ends when all are done. **Cpool** is `cpool.c`, with one
action per critical section: `Alloc`, `SpawnOk`, `SpawnFail` (Create), `RunCycle` and
`OwnerWake` (the wait on `DoneCv`), `Destroy`, `Join`, `Free`; and for each worker
`WorkerStart`, `Enter`, `ProbeOne`, `Resume`, `SpuriousWake`. `TopOfLoop`, `Claim` and
`SignOff` are the parts of a worker's critical section. A worker leaves the mutex only in
`cnd_wait` and around `Probe_One`, so these sections are atomic. `Gen` is kept modulo
`GenMod`. `Cpool` implements `ProbeCycle` under the mapping `Cycle`.

**Stats** and **Diag** are operators on records, translated from `stats.c` and `diag.c`;
**Monitor** drives them with every sequence of results of one target. Arithmetic is exact:
the EWMA is an integer over a power of the smoothing factor's denominator (`scale`), so
that a comparison with the baseline has no rounding.

**ProbeLoop** is `ProbeLoop` of `main.c` on several targets, with the pool as an instance
of `ProbeCycle` (which `Cpool` implements) or, if the pool could not be made or was not
asked for, one target after another. A target has its scratch record (`result`, `lastRtt`),
its totals and its diagnostics. The results of a round are processed in one step: the main
thread is alone then, and the signal in the middle of it has the effect of the signal before
or after it. `Combined` is the verdict over all targets and `Up` is `pingdd_up`.

**Probe** is one `Connect`: addresses in turn, and for each the probe of its protocol,
`WaitEvent` with its restarts, and the timer of `timer.c`, whose reading disarms it. Time is
discrete and passes only in `poll()`. **IcmpPool** is what several of these share: pool
workers (scheduled by `ProbeCycle`) increment `icmp_seq` without a lock, here as a load, a
store and the second load some builds make, and a raw socket is handed every reply. Replies
stay in flight or in a socket's queue, in any order and for any time.

**LoadSpec** is the promise of a load test (`loadtest.h`): one experiment of overlapping
connections with one tally, without threads. **LoadTest** is `LoadTest_Run` and its workers,
and implements `LoadSpec` under the mapping `Experiment`. **Resilience** is
`LoadTest_Resilience`, whose phases return any outcome of a set, as `LoadTest` shows that
they return.

**Traceroute** is `Traceroute_Run` with `TraceProbe`; the network is a set of messages that
may arrive late, in any order, or never, and other programs' messages arrive too.

**Http** is `RunHttpMode` with `Http_Probe`: the addresses, the handshake, the response
loop with its timer, and the signal that makes the blocking call fail.

**Settings** is the making of `arguments_t`: `InitDefaults`, `Config_Load` (a line is a key
and a value), `ProcessArguments` (one left fold over the command line), `Acceptable` (the
checks that follow it) and `Colored`. Texts are compared, never taken apart; what `strtol`
or the words of a boolean make of a text is a function given as a constant. **Targets** is
`Targets_Build` (the matrix in one step; each `--target` and each file line in a step of its
own, since each may fail) and `Targets_Resolve`, one target per step, with a name server
that may answer differently each time. **Startup** extends both and is `main`: arguments,
source interface, list, resolution, annotation, choice of the mode, log files, mode, exit.

How they compose: `Cpool` implements `ProbeCycle`, on which `ProbeLoop` and `IcmpPool` are
built; `LoadTest` implements `LoadSpec`; `Startup` starts the modes that `ProbeLoop`,
`LoadTest`, `Resilience`, `Traceroute` and `Http` model, and `ModeSound` says what it gives them.

Definitions whose comment begins with "Mutant of" are plausible bugs. `PROJECT.json` pairs
each with a property, which must fail if the mutant takes the place of the definition.

## 3. The runs

| Run | Shows | Bounds |
|---|---|---|
| `pool` | `NoSharedTarget`, `QuietOutsideCycle`, `RemainingIsBusy`, `NoUseAfterFree`, `DestroyCompletes`; `ImplementsCycle`: the pool refines `ProbeCycle`, its liveness included, so that every cycle ends | 4 targets, 3 threads, generations modulo 2 |
| `monitor` | outages, alerts, latency alert and percentiles are what the history says | 7 results, threshold 3, round trips 10, 15 and 39, 5 retained samples |
| `loop` | totals, `--count`, prompt stop, exit code, agreement of exit code, combined verdict and `pingdd_up`, end of the run | 3 targets, 2 cycles, counts -1 to 2, deadline, pooled or not, outage threshold 2 |
| `load_test` | slots are private until joined, the merged result is that of the run; `ImplementsExperiment`: the threads refine `LoadSpec`, its end included | 2 workers (3 asked for), 2 attempts each |
| `resilience` | the ramp, and the verdict from the rows | requests around a cap of 6 and above, all sequences of outcomes |
| `probe` | time per address, reaction to the signal, result of the right address | 2 addresses, timeout 3, 2 EINTRs, 2 foreign packets |
| `icmp` | no probe takes another's reply, but on raw sockets after a race or a wrap | 2 interchangeable targets, 3 rounds, numbers modulo 4 |
| `traceroute` | replies on their line, complete hops, time | 2 hops of 2 queries, timeout 2, 1 foreign message |
| `http` | sockets, time, successes, end of plain runs | 2 addresses, timeout 2, 2 probes, 3 reads |
| `startup` | precedence of settings, colour, the matrix, agreement of targets of a host, what a mode relies on, annotations, release and exit code | some 2000 inputs, each varying one subject: targets, colour, numbers, file, modes and log files, interface, annotation; ports 1 to 3, up to 6 targets |
| `loop_exit` | violation: see finding 1 | as `loop` |
| `http_handshake` | violation: see finding 2 | as `http` |

Why the bounds are enough. *Pool*: with more targets than threads a worker takes a second
target; with three threads one can be late, one asleep and one probing; modulus 2 makes the
generation wrap in the second cycle, which is the worst case, as the proofs hold for every
modulus from 2. *Monitor*: seven results hold two outages and a recovery, two doublings of
the sample array, one of which may fail, and the cap; the round trips lie so that the
latency alert can be raised by the second result and cleared by the sixth. *Loop*: three
targets have a first, middle and last one for the signal to hit; in two cycles stale records
are those of another cycle, and an outage can be open at the end. *Load test*: one worker
may be missing, alive or gone while the other runs. *Probe, HTTP*: two addresses separate
"this address" from "the one before" and "the last"; every restart and timeout happens at
each moment of the timeout. *Icmp*: four numbers and six probes let the counter come round
while an old reply is still under way. *Traceroute*: two hops with two queries allow replies
to another query, and to another hop. *Startup*: options are paired with those they share a
field with, in both orders and in the file; the port array is filled exactly and overflows,
the list grows at 0, 1, 2 and 4, and the answer changes between two questions. Where
counters have no bound in the code (`MaxCycles`, `MaxProbes`, `MaxObs`, `MaxAttempts`,
`MaxEintr`, `MaxForeign`, `MaxReads`, `MaxTicks`) the constant is named in the module, and
clocks stop only above the bounds that properties hold them to. The theorems of section 5
hold whatever the bounds are.

**Fairness.** A thread that can run does (weak fairness of each worker, of the owner's
steps and of the main thread), which every preemptive scheduler grants: waits are for
conditions that stay true until they are seen, so strong fairness is not needed. The
owner's calls (`RunCycle`, `Destroy`) are not fair: nothing obliges the caller. Time passes
(`Tick`) while a thread waits. Nothing is assumed of the network, of peers or of the
signal. A probe in `ProbeLoop` ends (`ProbeEnds`): it is what `AddressBudget` of
`Probe` bounds; a phase of a sweep ends, as `LoadSpec` promises and `LoadTest` keeps.
`Startup`, `Monitor` and `IcmpPool` have safety properties only and no fairness. `startup`
is the one run without the deadlock check: `main` ends, and has no step afterwards.

## 4. Findings

1. `ExitCodeTruthful` (`main.c:1025`). When the signal ends a sequential round, `main.c:904`
   processes the records of all targets, those not reached included. In the first round
   these are zeroed memory, and 0 is `SUCCESS`: a run in which every probe failed counts
   a success and exits with `EXIT_SUCCESS`, against `main.c:1018`. `TotalsSound` says what
   is right: no probe is lost, and with a pool nothing else is counted.
2. `ProbesEnd` (`http.c:314`). In the TLS handshake a receive that timed out is a reason to
   go on, and no clock is looked at. A peer that accepts and stays silent holds the probe
   for ever, against "Overall timeout" at `http.h:24`. `PlainEnds` and `TimeSpent` show that
   plain HTTP is free of it.

While modelling we met more statements that the code does not keep. Each is a definition
of the module named here, with the statement quoted in its comment; it is reproduced by
adding it to the INVARIANTS of that module's configuration (those of Targets: of Startup's).

| Module | Definition | What the code does |
|---|---|---|
| ProbeLoop | `OnlyProbesCounted` | an interrupted sequential round counts stale records (the cause of finding 1) |
| ProbeLoop | `UpWasReached` | `pingdd_up` is 1 for a target that was never probed; `ReportsAgree` says what holds |
| Monitor | `DownOnlyAfterThreshold` | the verdict is DOWN after a single failure, if nothing succeeded before |
| Monitor | `HighOnlyWhenSustained` | one long round trip raises HIGH LATENCY |
| LoadTest | `SpawnFailureReported` | a load test that lacks threads returns 0 |
| Resilience | `SteadyIsMeasured` | an interrupted sweep says "steady" for a level it did not run |
| Resilience | `SteadyIsServed` | so does a sweep in which nothing connected |
| Probe | `HonoursInterrupt` | a signal between the test and `poll()` is not seen until `poll()` returns; `InterruptLag` bounds the delay |
| Probe | `DefinitiveAnswerWins` | a refused connection does not end the probe |
| IcmpPool | `RepliesAlwaysOwn` | on raw sockets two workers may take the same number, or meet a reply 65536 probes old |
| Traceroute | `SuccessIsDestination` | a router's destination-unreachable counts as reached |
| Http | `OverallTimeout` | each address and phase has the whole timeout; `TimeSpent` is the bound that holds |
| Http | `ContextsReleased` | TLS contexts are not freed after a handshake that failed |
| Targets | `PortsValid` | a port of the targets file is cast to 16 bits unchecked; `-p` and `--target` check theirs |
| Targets | `AddressesOnce` | an ICMP target holds each address three times |
| Startup | `FlagWins` | after `color=false` in the file `--color` has no effect |
| Startup | `JsonIsPlain` | `color=true` after `json=true` in the file turns colour on beside JSON |
| Startup | `NamedFileIsRead` | in `--no-config … --config FILE` FILE is ignored, not only `~/.pingdd` (README.md:126-127 and 278, `arguments.c:75-76`) |
| Startup | `NoConfigDisables` | in `--config FILE … --no-config` FILE is loaded, though `arguments.c:150` says that `--no-config` disables all files |
| Startup | `ImplicitFileIsRead` | `~/.pingdd` is ignored, or another file read, when the value of another option reads `--no-config` or `--config` |
| Startup | `NotesAreOwn` | a late or foreign DNS datagram passes for the answer: neither id, question nor sender is compared (`resolve.c:187`) |
| Startup | `MarkedSockets` | HTTP and traceroute sockets get neither ToS nor source address |

The three about `--config` and `--no-config` have one cause: `SelectConfigPath` scans the
command line before it is parsed and stops at the first of the two texts, whatever the other
is and wherever it stands. The documents do not agree among themselves either: by
`arguments.c:150` the first of these command lines is right and the second wrong, by the
README and the usage text the other way round. `SettingsSound` takes no side. It states what
the settings are given the file that the code takes, and `Lines` names that file by the
positions of the two texts, without `SelectConfigPath`.

## 5. Proofs

Each theorem below states a property of a run for every value of the constants, from the
module's own assumption (`...Assumption`, ranges of the constants) alone. In each module an
inductive invariant, stated at the end of the module it is about or where it is proved, joins
the property with
what it rests on. There is one lemma per action, and under it one step per conjunct.

**CpoolProofs**: `TypeCorrect`, `TargetsNotShared`, `RemainingExact`, `OwnerQuiet`,
`PoolOutlivesWorkers`, and `Implements`: the pool without fairness implements `ProbeCycle`
without fairness. `IInv` joins `TypeOK` and `RemainingIsBusy` with

- `SpawnInv`: the threads that exist are the first `spawned`, and `NThreads` is their number
  once spawning is over, also when it failed midway;
- `IdleInv`: outside a cycle `Remaining` is 0 and every worker's baseline is `Gen`. It is
  why raising `Gen` makes each worker busy, those not yet scheduled too, whatever the
  modulus: `Gen` and `Gen + 1` differ (lemma `NextGen`), and no worker is two behind;
- `CycleInv`: within a cycle a worker that signed off found no target left, so `Remaining = 0`
  implies that all targets were begun, and the owner sleeps only while somebody is busy;
- `ClaimInv`: a target being probed is below `WorkIndex` and has one claimant;
- `ShutdownInv`: workers leave only after the shutdown, and joined workers have left.

`SignOffIInv` is where the size of `Busy` falls by one with `Remaining`. The refinement
lemmas (`...Refines`) follow the actions of the owner and of a worker.

**ProbeLoopProofs**: `TotalsAreSound`, `CountIsHonoured`, `StopIsPrompt`, `ExitCodeIsSound`,
`ReportsDoAgree`. `LoopInv` keeps, for each target, how its totals relate to the probes made
at every step of a round (`TallyInv`, with `Round` and `Wins`: what the records not yet
processed will add), where the count stands (`CountInv`), how many probes a signal or
deadline can still let through (`LagInv`), and what the exit code is made of (`ExitInv`).
`ThreadInv` ties the phase of the pool to the main thread's place. A pooled round is exact
because every record is written before the cycle ends; a sequential one is not, and there
only the lower bound of `TotalsSound` is inductive. `AgreeInv` joins the three sources of the
reports target by target: a record that says "ok" is in no outage, and its success is in the
totals as soon as these count anything; the combined verdict is then a matter of sums.

**ProbeProofs**: `AddressBudgetHolds`, `InterruptLagHolds` from `TimeInvariance`, and
`ResultsAreRight`. `BudgetInv`: the timer, the poll under way and its remaining time fit the
one start of the address, through every restart; `SignalInv`: after the signal no new poll
begins but the one that the test had let through; `ResultInv`: the list of failures has one
entry per address given up.

**EchoProofs**, for the pool: `SuccessesAreOwn`. A number stands for one probe as long as
numbers are taken by one worker at a time and have not come round; on datagram sockets the
kernel delivers replies by socket. For the traceroute: `RepliesKeepTheirLine`,
`HopsAreComplete`, `TimeIsBounded`. The sequence number is `(hop - 1) * Queries + q + 1`, so
it tells the hop (lemma `OneHop`), and every message under way bears the number and distance
of its probe (`SentInv`).

**LoadTestProofs**: `SlotsNeverShared`, from `ThreadInv`: the threads that exist are those
counted, and the join waits for each in turn. `ResultIsOfTheRun`: `ResultInv` says what one
slot holds while its worker runs (`SlotSound`: DBL_MAX as the minimum before the first
success, round trips around the average after it), and that the slots together account for
every attempt but those the interrupt cut, one per worker that left at most. One step changes
one slot, so the tally changes as that slot does (`TallyWon`, `TallyLost`). The same lemmas
give `LoadTestIsAnExperiment`: the threads, without fairness, implement `LoadSpec` without
fairness, each ended connection being one step of the tally and everything else a stutter.

**MonitorProofs**: `OutagesAreHistory`. `HistoryInv` adds to the property only the types of
the diagnostics and of the history. The work is in how the runs of failures of a history
change when a result is appended: the property speaks of positions and maximal runs, not of
a recursive count. `AlertsAreTrue` (`AlertsInv`) follows from it: one observation appends at
most two alerts, stamped with its position, and what earlier alerts say is about a prefix
that does not change. `LatencyIsTracked` (`LatencyInv`): the average stays between the least
and the greatest round trip (`MeanBetween`), and the alert goes up and down across different
thresholds. `PercentilesAreSound` (`SamplesInv`): the retained samples are round trips
observed; there is one of every rank, although no sort is modelled (`SortedAtRank`), and the
index that `Percentile` computes with the C rounding is that of the nearest rank.

**ModeProofs**. HTTP: `SocketsAreClosed`, `TimeIsSpent`, `SuccessesAreReceived`. `ClockInv`
gives the time spent at each point of the probe in terms of the address and the clock of the
response; `SuccessInv` says that a response is empty until something was received.

The sweep: `RampIsSound`, for every request and every cap that the array of levels can hold
(the assumption on the constant says so, since beyond it the C code would write past the
array), and `VerdictIsSound`. `SweepInv` says that `knee` is the level of the first row worse
than the baseline, or -1 while there is none, that the baseline is the first row, and that
there is never a row more than levels.

The start: `HostsDoAgree`, `NotesMatch`, `ExitIsClean`, `ModesAreSound`, from `MainIsInductive`:
`MainSpec => []MainInv`. `TypeInv` and `SettingsType` are what a field may hold whatever was
read, among it the ranges that the loops of `traceroute.c` and `loadtest.c` rely on; `ListInv`:
the list is made of fresh targets, then resolved from the left, those resolved agreeing by
host; `ModeInv`: which settings and lists each stage of `main` stands for; `SourceInv`: the
source addresses are of the interface; `NotesInv`: one note per target annotated, each backed
by an answer about the address of that target, but for texts that a stray datagram brought; `ExitInv`: the logs that can be open at each
stage, and the mode that ran. Command line, configuration file and list of interfaces are
read by folds. Each fold is shown to be the end of a sequence of steps (`TextFold`,
`LineFold`, `AddressFold` with `FoldPrefixes`), and what is kept by one step is kept by the
whole (`UpTo`); `ReadInv` is what is kept along the command line: the settings fit, and the
option whose value is awaited is the text just read.

`SettingsAreSound` and `ColourIsSound` say what comes out of these folds, for every command
line and file. `Left` holds after each text of the command line: every field but the lists is
what the last text that assigns it says, or what it was before the command line (`LastSays`),
and a host stands at the place that its count among the hosts gives it (`Rank`). `FileIsChosen`
shows that the file which the scan of `SelectConfigPath` takes is the one `SettingsSound` names.
`FileLeft` is the same along the lines of the file; since each key assigns a single field of its own
(`KeysAreSingle`), "last line that assigns" is "last line with that key" there. `InputInv`
carries the result from the step that reads the input to the exit: nothing changes settings
or colour later.

`MatrixIsWhole`, for every number of hosts, protocols and ranges of ports: what occurs in a
sequence of sequences occurs in each of them (`OccJoin`, by a bijection of positions, and
`OccFlatten`, along the sequence), so the occurrences of a destination multiply from the loop
over the ports outwards (`PortsOcc`, `RowOcc`, `RowsOcc`, `MatrixOcc`). `MatrixInv` holds the
result through the specs, the file and the resolution, which change no destination.

What is assumed there of the constants: texts are strings other than the null pointer;
numerals have integer values and the words for booleans have boolean ones; the name server
answers with one address at least, all of which it can be asked about, as it can about an AS (one in a stray datagram, too);
the null pointer is no path that opens; equal addresses of
two interfaces are of one family; the lines of a targets file name a known protocol, the
others being dropped where they are read. `MCStartup` satisfies all of it.

**SumTheorems** and the folds. The library defines a sum over a set by a recursive choice.
The induction theorems of the library take an operator as a parameter, which the prover
cannot instantiate; but an induction whose predicate is given as the set of the objects that
satisfy it needs no operator. `SubsetInduction` is of this form, over the subsets of a finite
set, and rests on strict inclusion being well founded. From it follow what a sum is
(`SumRecursion`), how it changes with one of its terms (`SumUpdate`), and how sums compare;
`UpTo` and `FoldExists` in ModeProofs do the same for positions of a sequence.

Every invariant of a passing run is stated by a theorem. Only model-checked is liveness
(`DestroyCompletes`, the fair halves of `ImplementsCycle` and `ImplementsExperiment`,
`Terminates`, `PlainEnds`), which is outside the reach of the prover.

## 6. What is not modelled

- `csv.c`, `print.c`, JSON and Prometheus output but for `pingdd_up`, and the texts of
  verdicts and errors: formatting. So a row per success where the documents speak of every
  attempt, or a log file named after no host, is not a matter of these modules.
- `RunLoadTestMode` (`main.c:433-512`) but for its choice in `Startup`: it sets up and prints.
- The taking apart of texts: tokens, trimming, `strtol`, `ParseUrl`, labels, and the cut of
  overlong texts. Encoding and decoding of DNS packets: `Startup` gets replies as sequences of
  records, with missing, truncated and reordered ones, and strays (`Strays`) in their place.
  Each text of a note carries, for the properties alone, whether it answers the question.
- Windows branches, and `DnsFailed` of `diag.c`, which no summary of a resolved target shows.
- Floating point: sums and averages are exact, and rounding is not claimed to be harmless.
- In `Probe`, `Traceroute` and `Http` code takes no time, only waiting does. In `Http`,
  `send` does not block, and getaddrinfo takes no time.
- `NThreads` is written without the mutex (`cpool.c:179`) while workers run; no worker reads
  it, so the model has no race there.

## 7. Plan

Built: the pool and its abstract cycle; statistics and diagnostics; the probe loop; the load
test with its abstract experiment, and the sweep; the probe engine, alone and in the pool;
traceroute; HTTP; targets, settings and the start of the program; proofs for all of them.
Next:

1. An abstract probe (a call that returns within a bound, or after the signal), with `Probe`
   as its refinement, so that `ProbeLoop` and `LoadTest` rest on it by name.
2. A blocking `send` in `Http`, with SO_SNDTIMEO, and its part in `TimeSpent`.
