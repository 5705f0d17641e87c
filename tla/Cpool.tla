------------------------------- MODULE Cpool -------------------------------
(***************************************************************************)
(* The persistent concurrent probe pool of cpool.c: one owner (the main    *)
(* thread, ProbeLoop) and up to CPOOL_MAX_THREADS workers around one mutex *)
(* and two condition variables.                                            *)
(*                                                                         *)
(* Every field of the pool a worker uses is read and written with the      *)
(* mutex held, so a step is one critical section: from taking the mutex to *)
(* releasing it in mtx_unlock or cnd_wait.  A thread blocked in cnd_wait   *)
(* is "waiting" (worker, StartCv) or "blocked" (owner, DoneCv); a signal,  *)
(* a broadcast or a spurious wakeup makes it runnable, and it evaluates    *)
(* its loop condition again once it has the mutex.  Only Probe_One runs    *)
(* outside the mutex.  What it writes is the target's own scratch record,  *)
(* so a target stands for its record here.                                 *)
(***************************************************************************)
EXTENDS Naturals, FiniteSets

CONSTANTS
  Rc,             \* number of resolved targets (Rc of struct cpool)
  MaxThreads,     \* CPOOL_MAX_THREADS
  GenMod          \* 2^w, w the width of unsigned long (Gen wraps)

ASSUME CpoolAssumption ==
  /\ Rc \in Nat \ {0}
  /\ MaxThreads \in Nat \ {0}
  /\ GenMod \in Nat /\ GenMod >= 2

Target == 0 .. Rc - 1

(* nthreads of Cpool_Create: one worker per target, capped. *)
Wanted == IF Rc > MaxThreads THEN MaxThreads ELSE Rc

Thread == 0 .. Wanted - 1

VARIABLES
  owner,          \* where the main thread is: see OwnerState
  spawned,        \* i of Cpool_Create: pthread_create calls that succeeded
  nthreads,       \* NThreads
  workIndex,      \* WorkIndex: next target to claim in this cycle
  remaining,      \* Remaining: workers still busy in this cycle
  gen,            \* Gen
  shutdown,       \* Shutdown
  joined,         \* i of Cpool_Destroy: workers joined so far
  wpc,            \* where each worker is: see WorkerState
  seen,           \* each worker's local "seen"
  claim           \* each worker's local "idx"

poolVars == <<spawned, nthreads, workIndex, remaining, gen, shutdown, joined>>
vars == <<owner, poolVars, wpc, seen, claim>>

OwnerState ==
  {"alloc", "spawn",     \* in Cpool_Create
   "failed",             \* Cpool_Create returned NULL
   "idle",               \* pool exists, no call of it is running
   "blocked", "woken",   \* in Cpool_RunCycle: in cnd_wait, woken from it
   "join", "freed"}      \* in the join loop of Cpool_Destroy, after it

WorkerState ==
  {"unborn",             \* no such thread yet
   "born",               \* created, has not run yet
   "ready",              \* runnable, wants the mutex at the top of the loop
   "waiting",            \* in cnd_wait on StartCv
   "probing",            \* in Probe_One, without the mutex
   "probed",             \* Probe_One returned, wants the mutex
   "exited"}             \* WorkerMain returned

TypeOK ==
  /\ owner \in OwnerState
  /\ spawned \in 0 .. Wanted
  /\ nthreads \in 0 .. Wanted
  /\ workIndex \in 0 .. Rc
  /\ remaining \in 0 .. Wanted
  /\ gen \in 0 .. GenMod - 1
  /\ shutdown \in BOOLEAN
  /\ joined \in 0 .. Wanted
  /\ wpc \in [Thread -> WorkerState]
  /\ seen \in [Thread -> 0 .. GenMod - 1]
  /\ claim \in [Thread -> Target]

Init ==
  /\ owner = "alloc"
  /\ spawned = 0
  /\ nthreads = 0
  /\ workIndex = 0
  /\ remaining = 0
  /\ gen = 0
  /\ shutdown = FALSE
  /\ joined = 0
  /\ wpc = [w \in Thread |-> "unborn"]
  /\ seen = [w \in Thread |-> 0]
  /\ claim = [w \in Thread |-> 0]

-----------------------------------------------------------------------------
(* Owner: Cpool_Create.                                                    *)

(* The two callocs and the initial field values; either calloc may fail. *)
Alloc ==
  /\ owner = "alloc"
  /\ \/ /\ owner' = "failed"
        /\ UNCHANGED <<nthreads, workIndex>>
     \/ /\ owner' = "spawn"
        /\ nthreads' = Wanted
        /\ workIndex' = Rc
  /\ UNCHANGED <<spawned, remaining, gen, shutdown, joined, wpc, seen, claim>>

(* pthread_create succeeds for the next worker. *)
SpawnOk ==
  /\ owner = "spawn"
  /\ wpc' = [wpc EXCEPT ![spawned] = "born"]
  /\ spawned' = spawned + 1
  /\ owner' = IF spawned + 1 = Wanted THEN "idle" ELSE "spawn"
  /\ UNCHANGED <<nthreads, workIndex, remaining, gen, shutdown, joined, seen, claim>>

(* pthread_create fails: the pool keeps the workers it has, and is given
   up (an inlined Cpool_Destroy with nobody to join) when it has none. *)
SpawnFail ==
  /\ owner = "spawn"
  /\ nthreads' = spawned
  /\ owner' = IF spawned = 0 THEN "failed" ELSE "idle"
  /\ shutdown' = (spawned = 0)
  /\ UNCHANGED <<spawned, workIndex, remaining, gen, joined, wpc, seen, claim>>

-----------------------------------------------------------------------------
(* Condition variables.                                                    *)

(* cnd_broadcast(StartCv): every worker in cnd_wait becomes runnable. *)
WakeWorkers ==
  wpc' = [w \in Thread |-> IF wpc[w] = "waiting" THEN "ready" ELSE wpc[w]]

(* The owner's loop "while (Remaining > 0) cnd_wait(DoneCv)". *)
AwaitDone(rem) == owner' = IF rem > 0 THEN "blocked" ELSE "idle"

-----------------------------------------------------------------------------
(* Owner: Cpool_RunCycle and Cpool_Destroy.                                *)

(* Mutant of RunCycle: WorkIndex is not reset. *)
RunCycleNoReset ==
  /\ owner = "idle"
  /\ remaining' = nthreads
  /\ gen' = (gen + 1) % GenMod
  /\ WakeWorkers
  /\ AwaitDone(nthreads)
  /\ UNCHANGED <<spawned, nthreads, workIndex, shutdown, joined, seen, claim>>

RunCycle ==
  /\ owner = "idle"
  /\ workIndex' = 0
  /\ remaining' = nthreads
  /\ gen' = (gen + 1) % GenMod
  /\ WakeWorkers
  /\ AwaitDone(nthreads)
  /\ UNCHANGED <<spawned, nthreads, shutdown, joined, seen, claim>>

(* Mutant of OwnerWake: "if" for "while" around cnd_wait(DoneCv). *)
OwnerWakeIf ==
  /\ owner = "woken"
  /\ owner' = "idle"
  /\ UNCHANGED <<poolVars, wpc, seen, claim>>

(* Back from cnd_wait(DoneCv), signalled or not. *)
OwnerWake ==
  /\ owner = "woken"
  /\ AwaitDone(remaining)
  /\ UNCHANGED <<poolVars, wpc, seen, claim>>

(* Mutant of Destroy: the broadcast is missing. *)
DestroyMute ==
  /\ owner = "idle"
  /\ owner' = "join"
  /\ shutdown' = TRUE
  /\ UNCHANGED <<spawned, nthreads, workIndex, remaining, gen, joined, wpc, seen, claim>>

Destroy ==
  /\ owner = "idle"
  /\ owner' = "join"
  /\ shutdown' = TRUE
  /\ WakeWorkers
  /\ UNCHANGED <<spawned, nthreads, workIndex, remaining, gen, joined, seen, claim>>

(* Mutant of Join: it does not wait for the worker to leave. *)
JoinAtOnce ==
  /\ owner = "join"
  /\ joined < nthreads
  /\ joined' = joined + 1
  /\ UNCHANGED <<owner, spawned, nthreads, workIndex, remaining, gen, shutdown,
                 wpc, seen, claim>>

(* pthread_join of the next worker returns. *)
Join ==
  /\ owner = "join"
  /\ joined < nthreads
  /\ wpc[joined] = "exited"
  /\ joined' = joined + 1
  /\ UNCHANGED <<owner, spawned, nthreads, workIndex, remaining, gen, shutdown,
                 wpc, seen, claim>>

(* Everybody is joined: the pool and its mutex are freed. *)
Free ==
  /\ owner = "join"
  /\ joined = nthreads
  /\ owner' = "freed"
  /\ UNCHANGED <<poolVars, wpc, seen, claim>>

-----------------------------------------------------------------------------
(* Workers: WorkerMain.                                                    *)

(* Mutant of WorkerStart: the baseline is whatever Gen is when the thread
   first runs, so that it may miss a cycle (see the comment at cpool.c:97). *)
WorkerStartLateBaseline(w) ==
  /\ wpc[w] = "born"
  /\ wpc' = [wpc EXCEPT ![w] = "ready"]
  /\ seen' = [seen EXCEPT ![w] = gen]
  /\ UNCHANGED <<owner, poolVars, claim>>

(* The thread starts: its baseline is generation 0, whatever Gen is now. *)
WorkerStart(w) ==
  /\ wpc[w] = "born"
  /\ wpc' = [wpc EXCEPT ![w] = "ready"]
  /\ seen' = [seen EXCEPT ![w] = 0]
  /\ UNCHANGED <<owner, poolVars, claim>>

(* The test at the top of the loop, in a worker whose last generation is s. *)
TopOfLoop(s) ==
  IF shutdown THEN "exited" ELSE IF gen = s THEN "waiting" ELSE "ready"

(* Mutant of Claim: one target too many. *)
ClaimPastEnd(w) ==
  /\ workIndex <= Rc
  /\ claim' = [claim EXCEPT ![w] = workIndex]
  /\ workIndex' = workIndex + 1
  /\ wpc' = [wpc EXCEPT ![w] = "probing"]
  /\ UNCHANGED <<owner, remaining>>

(* Mutant of Claim: the target stays there for the next worker to take. *)
ClaimUnmoved(w) ==
  /\ workIndex < Rc
  /\ claim' = [claim EXCEPT ![w] = workIndex]
  /\ wpc' = [wpc EXCEPT ![w] = "probing"]
  /\ UNCHANGED <<owner, workIndex, remaining>>

(* One turn of the claim loop, mutex held: take the next target and leave
   the critical section to probe it ... *)
Claim(w) ==
  /\ workIndex < Rc
  /\ claim' = [claim EXCEPT ![w] = workIndex]
  /\ workIndex' = workIndex + 1
  /\ wpc' = [wpc EXCEPT ![w] = "probing"]
  /\ UNCHANGED <<owner, remaining>>

(* ... or, when no target is left, sign off from the cycle (the last one
   signals DoneCv) and, still holding the mutex, go round the outer loop. *)
SignOff(w) ==
  /\ workIndex >= Rc
  /\ remaining' = remaining - 1
  /\ owner' = IF remaining = 1 /\ owner = "blocked" THEN "woken" ELSE owner
  /\ wpc' = [wpc EXCEPT ![w] = TopOfLoop(seen'[w])]
  /\ UNCHANGED <<workIndex, claim>>

(* A worker that is runnable gets the mutex at the top of its loop. *)
Enter(w) ==
  /\ wpc[w] = "ready"
  /\ \/ /\ TopOfLoop(seen[w]) # "ready"
        /\ wpc' = [wpc EXCEPT ![w] = TopOfLoop(seen[w])]
        /\ UNCHANGED <<owner, workIndex, remaining, seen, claim>>
     \/ /\ TopOfLoop(seen[w]) = "ready"
        /\ seen' = [seen EXCEPT ![w] = gen]
        /\ Claim(w) \/ SignOff(w)
  /\ UNCHANGED <<spawned, nthreads, gen, shutdown, joined>>

(* Probe_One(Rt[idx]) returns: the record of the claimed target is written. *)
ProbeOne(w) ==
  /\ wpc[w] = "probing"
  /\ wpc' = [wpc EXCEPT ![w] = "probed"]
  /\ UNCHANGED <<owner, poolVars, seen, claim>>

(* Back from Probe_One, the worker has the mutex again. *)
Resume(w) ==
  /\ wpc[w] = "probed"
  /\ UNCHANGED <<seen, spawned, nthreads, gen, shutdown, joined>>
  /\ Claim(w) \/ SignOff(w)

(* pthread_cond_wait may return without a signal. *)
SpuriousWake ==
  \/ \E w \in Thread :
       /\ wpc[w] = "waiting"
       /\ wpc' = [wpc EXCEPT ![w] = "ready"]
       /\ UNCHANGED <<owner, poolVars, seen, claim>>
  \/ /\ owner = "blocked"
     /\ owner' = "woken"
     /\ UNCHANGED <<poolVars, wpc, seen, claim>>

(* The pool is gone; nothing is left to do. *)
Stopped == owner \in {"failed", "freed"} /\ UNCHANGED vars

Worker(w) == WorkerStart(w) \/ Enter(w) \/ ProbeOne(w) \/ Resume(w)

Owner ==
  \/ Alloc \/ SpawnOk \/ SpawnFail
  \/ RunCycle \/ OwnerWake
  \/ Destroy \/ Join \/ Free

Next ==
  \/ Owner
  \/ \E w \in Thread : Worker(w)
  \/ SpuriousWake
  \/ Stopped

(* The operating system runs every runnable thread, a mutex is not held
   for ever and a probe ends (it is bounded by its timeout).  Nothing makes
   ProbeLoop start another cycle or stop, so RunCycle and Destroy are not
   fair; spurious wakeups are not either. *)
Fairness ==
  /\ \A w \in Thread : WF_vars(Worker(w))
  /\ WF_vars(Alloc \/ SpawnOk \/ SpawnFail)
  /\ WF_vars(OwnerWake)
  /\ WF_vars(Join \/ Free)

SafeSpec == Init /\ [][Next]_vars
Spec == SafeSpec /\ Fairness

-----------------------------------------------------------------------------
(* Properties.                                                             *)

(* Workers that exist and have not signed off from the current cycle. *)
Busy ==
  {w \in 0 .. nthreads - 1 :
     wpc[w] \in {"probing", "probed"} \/ (wpc[w] # "exited" /\ seen[w] # gen)}

InCycle == owner \in {"blocked", "woken"}

(* Two workers never write the scratch record of one target at once: the
   unlocked Probe_One calls of cpool.c:120 are on different targets. *)
NoSharedTarget ==
  \A w1, w2 \in Thread :
    (w1 # w2 /\ wpc[w1] = "probing" /\ wpc[w2] = "probing") => claim[w1] # claim[w2]

(* The owner runs outside Cpool_RunCycle (and there reads every target's
   record without a lock, main.c:904-949) only while no worker is probing
   and no target of the cycle is left over. *)
QuietOutsideCycle ==
  (owner \in {"idle", "join", "freed"}) =>
    /\ \A w \in Thread : wpc[w] \notin {"probing", "probed"}
    /\ workIndex >= Rc

(* Remaining counts exactly the workers that still owe this cycle a
   sign-off, those that have not been scheduled since before it included.
   A worker that skipped a generation, or signed off twice, breaks it. *)
RemainingIsBusy == owner \notin {"join", "freed"} => remaining = Cardinality(Busy)

(* Nobody is left that could touch the pool, or its mutex, after free(). *)
NoUseAfterFree ==
  owner \in {"failed", "freed"} => \A w \in Thread : wpc[w] \in {"unborn", "exited"}

(* Cpool_Destroy returns: no worker sleeps through the shutdown. *)
DestroyCompletes == (owner = "join") ~> (owner = "freed")

(* The refinement mapping: a target is pending while WorkIndex has not
   passed it, and being probed while some worker that claimed it is. *)
CyclePhase ==
  IF InCycle THEN "running"
  ELSE IF owner \in {"failed", "join", "freed"} THEN "closed" ELSE "idle"

CyclePending == IF InCycle THEN {t \in Target : t >= workIndex} ELSE {}

CycleProbing == {claim[w] : w \in {v \in Thread : wpc[v] = "probing"}}

Cycle == INSTANCE ProbeCycle WITH
  Target <- Target, phase <- CyclePhase, pending <- CyclePending, probing <- CycleProbing

(* The pool implements ProbeCycle: each target is begun once and ended once
   per cycle, and RunCycle returns only after that. *)
ImplementsCycle == Cycle!Spec
-----------------------------------------------------------------------------
(* The inductive invariant behind the safety properties (CpoolProofs).     *)

(* Threads that exist are the first ones, and only they take part. *)
SpawnInv ==
  /\ owner = "alloc" => spawned = 0 /\ nthreads = 0
  /\ owner = "spawn" => spawned < Wanted /\ nthreads = Wanted
  /\ owner = "failed" => spawned = 0 /\ nthreads = 0
  /\ owner \notin {"alloc", "spawn", "failed"} => spawned = nthreads /\ nthreads > 0
  /\ \A w \in Thread : wpc[w] = "unborn" <=> w >= spawned

(* Until the first cycle, and between cycles, every worker is up to date. *)
IdleInv ==
  /\ owner \in {"alloc", "spawn", "failed"} => gen = 0 /\ \A w \in Thread : seen[w] = 0
  /\ owner \in {"spawn", "idle", "join", "freed"} => workIndex = Rc
  /\ ~InCycle =>
       /\ remaining = 0
       /\ \A w \in Thread :
            /\ wpc[w] \notin {"probing", "probed"}
            /\ w < spawned => seen[w] = gen

(* Within a cycle a worker that has not joined in is runnable, and one that
   has signed off found no target left. *)
CycleInv ==
  /\ \A w \in Thread : wpc[w] = "born" => seen[w] = 0
  /\ \A w \in Thread : wpc[w] \in {"waiting", "probing", "probed"} => seen[w] = gen
  /\ InCycle =>
       /\ Busy # 0 .. nthreads - 1 => workIndex = Rc
       /\ \A w \in Thread : wpc[w] # "exited"
       /\ owner = "blocked" => remaining > 0

(* A claimed target is below WorkIndex and has one claimant. *)
ClaimInv ==
  /\ \A w \in Thread : wpc[w] = "probing" => claim[w] < workIndex
  /\ NoSharedTarget

(* Workers leave only after the shutdown, and joined ones have left. *)
ShutdownInv ==
  /\ shutdown => owner \in {"failed", "join", "freed"}
  /\ owner \in {"join", "freed"} => shutdown
  /\ \A w \in Thread : wpc[w] = "exited" => shutdown
  /\ joined <= nthreads
  /\ \A w \in Thread : w < joined => wpc[w] = "exited"
  /\ owner = "freed" => joined = nthreads

IInv ==
  /\ TypeOK
  /\ SpawnInv
  /\ IdleInv
  /\ CycleInv
  /\ ClaimInv
  /\ ShutdownInv
  /\ RemainingIsBusy
=============================================================================
