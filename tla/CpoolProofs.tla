---------------------------- MODULE CpoolProofs ----------------------------
(***************************************************************************)
(* Theorems about Cpool, for every number of targets, every thread cap and *)
(* every width of the generation counter.  All of them rest on the         *)
(* inductive invariant IInv of Cpool.                                      *)
(***************************************************************************)
EXTENDS Cpool, TLAPS, FiniteSetTheorems

-----------------------------------------------------------------------------
(* Facts about the operators of the model.                                 *)

(* The generation counter, wrap included, never steps onto itself. *)
LEMMA NextGen ==
  ASSUME NEW g \in 0 .. GenMod - 1
  PROVE  /\ (g + 1) % GenMod \in 0 .. GenMod - 1
         /\ (g + 1) % GenMod # g
<1>1. CASE g + 1 < GenMod
  <2>1. (g + 1) % GenMod = g + 1
    BY <1>1, CpoolAssumption
  <2>2. QED BY <2>1, <1>1, CpoolAssumption
<1>2. CASE g + 1 = GenMod
  <2>1. (g + 1) % GenMod = 0
    BY <1>2, CpoolAssumption
  <2>2. QED BY <2>1, <1>2, CpoolAssumption
<1>3. QED BY <1>1, <1>2, CpoolAssumption

(* The pool wants at least one worker. *)
LEMMA WantedType == Wanted \in Nat \ {0} /\ Wanted <= Rc
BY CpoolAssumption DEF Wanted

(* Busy is a finite set of workers. *)
LEMMA BusyFinite ==
  ASSUME nthreads \in 0 .. Wanted
  PROVE  /\ Busy \subseteq 0 .. nthreads - 1
         /\ IsFiniteSet(Busy)
         /\ Cardinality(Busy) \in Nat
<1>1. Busy \subseteq 0 .. nthreads - 1
  BY DEF Busy
<1>2. IsFiniteSet(0 .. nthreads - 1)
  BY FS_Interval, WantedType
<1>3. QED BY <1>1, <1>2, FS_Subset, FS_CardinalityType

-----------------------------------------------------------------------------
(* The initial state. *)

(* The invariant holds before Cpool_Create allocates anything. *)
LEMMA InitIInv == Init => IInv
<1> SUFFICES ASSUME Init PROVE IInv
  OBVIOUS
<1> USE CpoolAssumption, WantedType DEF Init
<1>1. TypeOK
  <2>1. wpc \in [Thread -> WorkerState]
    BY DEF WorkerState
  <2>2. seen \in [Thread -> 0 .. GenMod - 1] /\ gen \in 0 .. GenMod - 1
    OBVIOUS
  <2>3. claim \in [Thread -> Target]
    BY DEF Target
  <2>4. owner \in OwnerState /\ shutdown \in BOOLEAN
    BY DEF OwnerState
  <2>5. spawned \in 0 .. Wanted /\ nthreads \in 0 .. Wanted /\ joined \in 0 .. Wanted
    OBVIOUS
  <2>6. workIndex \in 0 .. Rc /\ remaining \in 0 .. Wanted
    OBVIOUS
  <2>7. QED
    BY <2>1, <2>2, <2>3, <2>4, <2>5, <2>6 DEF TypeOK
<1>2. SpawnInv
  BY DEF SpawnInv, Thread
<1>3. IdleInv
  BY DEF IdleInv, Thread, InCycle
<1>4. CycleInv
  BY DEF CycleInv, InCycle
<1>5. ClaimInv
  BY DEF ClaimInv, NoSharedTarget
<1>6. ShutdownInv
  BY DEF ShutdownInv, Thread
<1>7. RemainingIsBusy
  <2>1. Busy = {}
    BY DEF Busy
  <2>2. QED BY <2>1, FS_EmptySet DEF RemainingIsBusy
<1>8. QED
  BY <1>1, <1>2, <1>3, <1>4, <1>5, <1>6, <1>7 DEF IInv

-----------------------------------------------------------------------------
(* The owner's steps. *)

(* Allocation starts with a fresh generation and no worker. *)
LEMMA AllocIInv == IInv /\ Alloc => IInv'
<1> SUFFICES ASSUME IInv, Alloc PROVE IInv'
  OBVIOUS
<1> USE CpoolAssumption, WantedType DEF IInv, Alloc
<1>1. TypeOK'
  BY DEF TypeOK, OwnerState
<1>2. SpawnInv'
  BY DEF SpawnInv, TypeOK
<1>3. IdleInv'
  BY DEF IdleInv, InCycle
<1>4. CycleInv'
  BY DEF CycleInv, InCycle
<1>5. ClaimInv'
  BY DEF ClaimInv, NoSharedTarget, IdleInv, InCycle
<1>6. ShutdownInv'
  BY DEF ShutdownInv, TypeOK, SpawnInv
<1>7. RemainingIsBusy'
  <2>1. Busy' = {}
    BY DEF Busy, SpawnInv, IdleInv, Thread, TypeOK
  <2>2. QED BY <2>1, FS_EmptySet DEF RemainingIsBusy, IdleInv, InCycle
<1>8. QED
  BY <1>1, <1>2, <1>3, <1>4, <1>5, <1>6, <1>7 DEF IInv

(* A spawned worker is not busy: no cycle is under way yet. *)
LEMMA SpawnOkIInv == IInv /\ SpawnOk => IInv'
<1> SUFFICES ASSUME IInv, SpawnOk PROVE IInv'
  OBVIOUS
<1> USE CpoolAssumption, WantedType DEF IInv, SpawnOk
<1>1. TypeOK'
  BY DEF TypeOK, OwnerState, WorkerState, SpawnInv, Thread
<1>2. SpawnInv'
  BY DEF SpawnInv, TypeOK, Thread
<1>3. IdleInv'
  BY DEF IdleInv, InCycle, TypeOK
<1>4. CycleInv'
  BY DEF CycleInv, InCycle, IdleInv, TypeOK
<1>5. ClaimInv'
  BY DEF ClaimInv, NoSharedTarget, TypeOK
<1>6. ShutdownInv'
  BY DEF ShutdownInv, TypeOK, SpawnInv, Thread
<1>7. RemainingIsBusy'
  <2>1. Busy' = {}
    BY DEF Busy, IdleInv, InCycle, Thread, TypeOK, SpawnInv
  <2>2. QED BY <2>1, FS_EmptySet DEF RemainingIsBusy, IdleInv, InCycle
<1>8. QED
  BY <1>1, <1>2, <1>3, <1>4, <1>5, <1>6, <1>7 DEF IInv

(* A failed pthread_create ends the spawning without disturbing the workers
   that run already (cpool.c:179). *)
LEMMA SpawnFailIInv == IInv /\ SpawnFail => IInv'
<1> SUFFICES ASSUME IInv, SpawnFail PROVE IInv'
  OBVIOUS
<1> USE CpoolAssumption, WantedType DEF IInv, SpawnFail
<1>1. TypeOK'
  BY DEF TypeOK, OwnerState, SpawnInv
<1>2. SpawnInv'
  BY DEF SpawnInv, TypeOK
<1>3. IdleInv'
  BY DEF IdleInv, InCycle
<1>4. CycleInv'
  BY DEF CycleInv, InCycle
<1>5. ClaimInv'
  BY DEF ClaimInv, NoSharedTarget
<1>6. ShutdownInv'
  BY DEF ShutdownInv, TypeOK, SpawnInv, Thread
<1>7. RemainingIsBusy'
  <2>1. Busy' = {}
    BY DEF Busy, IdleInv, InCycle, Thread, TypeOK, SpawnInv
  <2>2. QED BY <2>1, FS_EmptySet DEF RemainingIsBusy, IdleInv, InCycle
<1>8. QED
  BY <1>1, <1>2, <1>3, <1>4, <1>5, <1>6, <1>7 DEF IInv

(* A new cycle: every worker was up to date, so every worker is busy. *)
LEMMA RunCycleIInv == IInv /\ RunCycle => IInv'
<1> SUFFICES ASSUME IInv, RunCycle PROVE IInv'
  OBVIOUS
<1> USE CpoolAssumption, WantedType DEF IInv, RunCycle, WakeWorkers, AwaitDone
<1>0. /\ owner' = "blocked"
      /\ gen' \in 0 .. GenMod - 1
      /\ gen' # gen
      /\ \A w \in Thread : w < spawned => seen[w] = gen
      /\ \A w \in Thread : wpc'[w] \in {"unborn", "born", "ready"}
  BY NextGen DEF TypeOK, SpawnInv, IdleInv, InCycle, WorkerState, ShutdownInv
<1>b. Busy' = 0 .. nthreads - 1
  BY <1>0 DEF Busy, TypeOK, SpawnInv, Thread
<1>1. TypeOK'
  <2>1. wpc' \in [Thread -> WorkerState]
    BY <1>0 DEF WorkerState
  <2>2. QED
    BY <1>0, <2>1 DEF TypeOK, OwnerState
<1>2. SpawnInv'
  BY <1>0 DEF SpawnInv, TypeOK
<1>3. IdleInv'
  BY <1>0 DEF IdleInv, InCycle
<1>4. CycleInv'
  BY <1>0, <1>b DEF CycleInv, InCycle, SpawnInv, TypeOK
<1>5. ClaimInv'
  BY <1>0 DEF ClaimInv, NoSharedTarget
<1>6. ShutdownInv'
  BY <1>0 DEF ShutdownInv, TypeOK
<1>7. RemainingIsBusy'
  BY <1>b, FS_Interval DEF RemainingIsBusy, TypeOK
<1>8. QED
  BY <1>1, <1>2, <1>3, <1>4, <1>5, <1>6, <1>7 DEF IInv

(* The owner leaves the wait only when Remaining is 0: nobody is busy then. *)
LEMMA OwnerWakeIInv == IInv /\ OwnerWake => IInv'
<1> SUFFICES ASSUME IInv, OwnerWake PROVE IInv'
  OBVIOUS
<1> USE CpoolAssumption, WantedType DEF IInv, OwnerWake, AwaitDone, poolVars
<1>b. Busy' = Busy
  BY DEF Busy
<1>0. CASE remaining = 0
  <2>1. Busy = {}
    BY <1>0, BusyFinite, FS_EmptySet DEF RemainingIsBusy, TypeOK
  <2>2. workIndex = Rc
    BY <2>1 DEF CycleInv, InCycle, SpawnInv, TypeOK
  <2>3. \A w \in Thread : /\ wpc[w] \notin {"probing", "probed"}
                          /\ w < spawned => seen[w] = gen
    <3> TAKE w \in Thread
    <3>1. InCycle /\ nthreads = spawned
      BY DEF InCycle, SpawnInv
    <3>2. CASE w < spawned
      <4>1. w \in 0 .. nthreads - 1 /\ wpc[w] # "exited"
        BY <3>1, <3>2 DEF TypeOK, Thread, CycleInv
      <4>2. QED BY <2>1, <4>1 DEF Busy
    <3>3. CASE ~(w < spawned)
      BY <3>3 DEF SpawnInv, TypeOK, Thread
    <3>4. QED BY <3>2, <3>3
  <2>4. IdleInv'
    BY <1>0, <2>2, <2>3 DEF IdleInv, InCycle
  <2>5. TypeOK' /\ SpawnInv' /\ ShutdownInv'
    BY <1>0 DEF TypeOK, OwnerState, SpawnInv, ShutdownInv
  <2>6. CycleInv' /\ ClaimInv' /\ RemainingIsBusy'
    BY <1>0, <1>b DEF CycleInv, InCycle, ClaimInv, NoSharedTarget, RemainingIsBusy
  <2>7. QED BY <2>4, <2>5, <2>6
<1>1. CASE remaining # 0
  <2>1. owner' = "blocked" /\ remaining > 0
    BY <1>1 DEF TypeOK
  <2>2. TypeOK' /\ SpawnInv' /\ ShutdownInv' /\ IdleInv'
    BY <2>1 DEF TypeOK, OwnerState, SpawnInv, ShutdownInv, IdleInv, InCycle
  <2>3. CycleInv' /\ ClaimInv' /\ RemainingIsBusy'
    BY <2>1, <1>b DEF CycleInv, InCycle, ClaimInv, NoSharedTarget, RemainingIsBusy
  <2>4. QED BY <2>2, <2>3
<1>2. QED BY <1>0, <1>1

(* The shutdown finds every worker at rest. *)
LEMMA DestroyIInv == IInv /\ Destroy => IInv'
<1> SUFFICES ASSUME IInv, Destroy PROVE IInv'
  OBVIOUS
<1> USE CpoolAssumption, WantedType DEF IInv, Destroy, WakeWorkers
<1>0. \A w \in Thread : /\ wpc[w] # "waiting" => wpc'[w] = wpc[w]
                        /\ wpc[w] = "waiting" => wpc'[w] = "ready"
  OBVIOUS
<1>1. TypeOK'
  <2>1. wpc' \in [Thread -> WorkerState]
    BY DEF TypeOK, WorkerState
  <2>2. QED
    BY <2>1 DEF TypeOK, OwnerState
<1>2. SpawnInv'
  BY <1>0 DEF SpawnInv
<1>3. IdleInv'
  BY <1>0 DEF IdleInv, InCycle
<1>4. CycleInv'
  BY <1>0 DEF CycleInv, InCycle
<1>5. ClaimInv'
  BY <1>0 DEF ClaimInv, NoSharedTarget
<1>6. ShutdownInv'
  BY <1>0 DEF ShutdownInv, TypeOK
<1>7. RemainingIsBusy'
  BY DEF RemainingIsBusy
<1>8. QED
  BY <1>1, <1>2, <1>3, <1>4, <1>5, <1>6, <1>7 DEF IInv

(* Joining changes nothing that the workers see. *)
LEMMA JoinIInv == IInv /\ Join => IInv'
<1> SUFFICES ASSUME IInv, Join PROVE IInv'
  OBVIOUS
<1> USE CpoolAssumption, WantedType DEF IInv, Join
<1>1. TypeOK' /\ SpawnInv' /\ IdleInv' /\ CycleInv' /\ ClaimInv' /\ RemainingIsBusy'
  BY DEF TypeOK, SpawnInv, IdleInv, InCycle, CycleInv, ClaimInv, NoSharedTarget,
         RemainingIsBusy
<1>2. ShutdownInv'
  BY DEF ShutdownInv, TypeOK, Thread
<1>3. QED BY <1>1, <1>2

(* The pool is freed after the last worker was joined. *)
LEMMA FreeIInv == IInv /\ Free => IInv'
<1> SUFFICES ASSUME IInv, Free PROVE IInv'
  OBVIOUS
<1> USE CpoolAssumption, WantedType DEF IInv, Free, poolVars
<1>1. TypeOK' /\ SpawnInv' /\ IdleInv' /\ ShutdownInv'
  BY DEF TypeOK, OwnerState, SpawnInv, IdleInv, InCycle, ShutdownInv
<1>2. CycleInv' /\ ClaimInv' /\ RemainingIsBusy'
  BY DEF CycleInv, InCycle, ClaimInv, NoSharedTarget, RemainingIsBusy
<1>3. QED BY <1>1, <1>2

-----------------------------------------------------------------------------
(* The workers' steps. *)

(* A worker that is scheduled late has the baseline 0, not the current Gen. *)
LEMMA WorkerStartIInv ==
  ASSUME IInv, NEW w \in Thread, WorkerStart(w)
  PROVE  IInv'
<1> USE CpoolAssumption, WantedType DEF IInv, WorkerStart, poolVars
<1>0. /\ wpc' = [wpc EXCEPT ![w] = "ready"]
      /\ seen' = seen
  BY DEF CycleInv, TypeOK
<1>b. Busy' = Busy
  BY <1>0 DEF Busy, TypeOK, Thread
<1>1. TypeOK'
  BY <1>0 DEF TypeOK, WorkerState
<1>2. SpawnInv'
  BY <1>0 DEF SpawnInv, TypeOK
<1>3. IdleInv'
  BY <1>0 DEF IdleInv, InCycle, TypeOK
<1>4. CycleInv'
  BY <1>0, <1>b DEF CycleInv, InCycle, TypeOK
<1>5. ClaimInv'
  BY <1>0 DEF ClaimInv, NoSharedTarget, TypeOK
<1>6. ShutdownInv'
  BY <1>0 DEF ShutdownInv, TypeOK
<1>7. RemainingIsBusy'
  BY <1>0, <1>b DEF RemainingIsBusy
<1>8. QED
  BY <1>1, <1>2, <1>3, <1>4, <1>5, <1>6, <1>7 DEF IInv

(* The end of a probe gives its target up; the worker still owes the sign-off. *)
LEMMA ProbeOneIInv ==
  ASSUME IInv, NEW w \in Thread, ProbeOne(w)
  PROVE  IInv'
<1> USE CpoolAssumption, WantedType DEF IInv, ProbeOne, poolVars
<1>b. Busy' = Busy
  BY DEF Busy, TypeOK, Thread
<1>1. TypeOK'
  BY DEF TypeOK, WorkerState
<1>2. SpawnInv'
  BY DEF SpawnInv, TypeOK
<1>3. IdleInv'
  BY DEF IdleInv, InCycle, TypeOK
<1>4. CycleInv'
  BY <1>b DEF CycleInv, InCycle, TypeOK
<1>5. ClaimInv'
  BY DEF ClaimInv, NoSharedTarget, TypeOK
<1>6. ShutdownInv'
  BY DEF ShutdownInv, TypeOK
<1>7. RemainingIsBusy'
  BY <1>b DEF RemainingIsBusy
<1>8. QED
  BY <1>1, <1>2, <1>3, <1>4, <1>5, <1>6, <1>7 DEF IInv

(* A busy worker takes a target: it is new to everybody and the worker
   stays busy. *)
LEMMA ClaimIInv ==
  ASSUME IInv, NEW w \in Thread, InCycle, w \in Busy, Claim(w),
         seen' = [seen EXCEPT ![w] = gen],
         UNCHANGED <<spawned, nthreads, gen, shutdown, joined>>
  PROVE  IInv'
<1> USE CpoolAssumption, WantedType DEF IInv, Claim
<1>b. Busy' = Busy
  <2>1. \A v \in Thread : v # w => wpc'[v] = wpc[v] /\ seen'[v] = seen[v]
    BY DEF TypeOK
  <2>2. wpc'[w] = "probing"
    BY DEF TypeOK
  <2>3. QED
    BY <2>1, <2>2 DEF Busy, TypeOK, Thread
<1>a. Busy = 0 .. nthreads - 1
  BY DEF CycleInv, TypeOK
<1>1. TypeOK'
  BY DEF TypeOK, WorkerState, Target
<1>2. SpawnInv'
  BY <1>a DEF SpawnInv, TypeOK, InCycle
<1>3. IdleInv'
  BY DEF IdleInv, InCycle
<1>4. CycleInv'
  BY <1>a, <1>b DEF CycleInv, InCycle, TypeOK
<1>5. ClaimInv'
  BY DEF ClaimInv, NoSharedTarget, TypeOK, Target
<1>6. ShutdownInv'
  BY DEF ShutdownInv, TypeOK, InCycle
<1>7. RemainingIsBusy'
  BY <1>b DEF RemainingIsBusy
<1>8. QED
  BY <1>1, <1>2, <1>3, <1>4, <1>5, <1>6, <1>7 DEF IInv

(* A busy worker signs off: exactly one worker less is busy, and the owner
   is woken by the last one. *)
LEMMA SignOffIInv ==
  ASSUME IInv, NEW w \in Thread, InCycle, w \in Busy, SignOff(w),
         seen' = [seen EXCEPT ![w] = gen],
         UNCHANGED <<spawned, nthreads, gen, shutdown, joined>>
  PROVE  IInv'
<1> USE CpoolAssumption, WantedType DEF IInv
<1>0. /\ ~shutdown
      /\ seen'[w] = gen
      /\ wpc' = [wpc EXCEPT ![w] = "waiting"]
      /\ workIndex = Rc /\ workIndex' = Rc
      /\ remaining' = remaining - 1
      /\ UNCHANGED claim
      /\ owner' = IF remaining = 1 /\ owner = "blocked" THEN "woken" ELSE owner
  <2>1. ~shutdown
    BY DEF ShutdownInv, InCycle
  <2>2. seen'[w] = gen
    BY DEF TypeOK
  <2>3. TopOfLoop(seen'[w]) = "waiting"
    BY <2>1, <2>2 DEF TopOfLoop
  <2>4. workIndex = Rc
    BY DEF SignOff, TypeOK
  <2>5. QED
    BY <2>1, <2>2, <2>3, <2>4 DEF SignOff
<1>b. Busy' = Busy \ {w}
  <2>1. \A v \in Thread : v # w => wpc'[v] = wpc[v] /\ seen'[v] = seen[v]
    BY <1>0 DEF TypeOK
  <2>2. wpc'[w] = "waiting"
    BY <1>0 DEF TypeOK
  <2>3. QED
    BY <1>0, <2>1, <2>2 DEF Busy, TypeOK, Thread
<1>c. /\ Cardinality(Busy') = Cardinality(Busy) - 1
      /\ Cardinality(Busy') \in Nat
      /\ remaining = Cardinality(Busy)
  <2>1. IsFiniteSet(Busy) /\ Cardinality(Busy) \in Nat
    BY BusyFinite DEF TypeOK
  <2>2. remaining = Cardinality(Busy)
    BY DEF RemainingIsBusy, InCycle
  <2>3. QED
    BY <1>b, <2>1, <2>2, FS_RemoveElement, FS_CardinalityType
<1>1. TypeOK'
  <2>1. wpc' \in [Thread -> WorkerState]
    BY <1>0 DEF TypeOK, WorkerState
  <2>2. remaining' \in 0 .. Wanted
    BY <1>0, <1>c DEF TypeOK
  <2>3. owner' \in OwnerState
    BY <1>0 DEF TypeOK, OwnerState
  <2>4. QED
    BY <1>0, <2>1, <2>2, <2>3 DEF TypeOK
<1>d. InCycle' /\ (owner' = "blocked" => owner = "blocked" /\ remaining # 1)
  BY <1>0 DEF InCycle
<1>2. SpawnInv'
  <2>1. w < spawned
    BY DEF Busy, SpawnInv, InCycle, TypeOK, Thread
  <2>2. \A v \in Thread : wpc'[v] = "unborn" <=> wpc[v] = "unborn"
    BY <1>0, <2>1 DEF SpawnInv, TypeOK, Thread
  <2>3. spawned = nthreads /\ nthreads > 0
    BY DEF SpawnInv, InCycle
  <2>4. owner' \in {"blocked", "woken"}
    BY <1>d DEF InCycle
  <2>5. QED
    BY <2>2, <2>3, <2>4 DEF SpawnInv
<1>3. IdleInv'
  BY <1>0, <1>d DEF IdleInv, InCycle
<1>4. CycleInv'
  <2>1. owner' = "blocked" => remaining' > 0
    BY <1>0, <1>c, <1>d DEF TypeOK
  <2>2. QED
    BY <1>0, <1>d, <2>1 DEF CycleInv, InCycle, TypeOK
<1>5. ClaimInv'
  BY <1>0 DEF ClaimInv, NoSharedTarget, TypeOK
<1>6. ShutdownInv'
  BY <1>0, <1>d DEF ShutdownInv, TypeOK, InCycle
<1>7. RemainingIsBusy'
  BY <1>0, <1>c DEF RemainingIsBusy
<1>8. QED
  BY <1>1, <1>2, <1>3, <1>4, <1>5, <1>6, <1>7 DEF IInv

(* A ready worker that goes to sleep or leaves. *)
LEMMA EnterTopIInv ==
  ASSUME IInv, NEW w \in Thread, wpc[w] = "ready", TopOfLoop(seen[w]) # "ready",
         wpc' = [wpc EXCEPT ![w] = TopOfLoop(seen[w])],
         UNCHANGED <<owner, poolVars, seen, claim>>
  PROVE  IInv'
<1> USE CpoolAssumption, WantedType DEF IInv, poolVars
<1>0. \/ shutdown /\ wpc' = [wpc EXCEPT ![w] = "exited"]
      \/ ~shutdown /\ gen = seen[w] /\ wpc' = [wpc EXCEPT ![w] = "waiting"]
  BY DEF TopOfLoop
<1>1. TypeOK'
  BY <1>0 DEF TypeOK, WorkerState
<1>2. SpawnInv'
  BY <1>0 DEF SpawnInv, TypeOK
<1>3. IdleInv'
  BY <1>0 DEF IdleInv, InCycle, TypeOK
<1>b. ~shutdown => Busy' = Busy
  BY <1>0 DEF Busy, TypeOK, Thread
<1>4. CycleInv'
  BY <1>0, <1>b DEF CycleInv, InCycle, TypeOK, ShutdownInv
<1>5. ClaimInv'
  BY <1>0 DEF ClaimInv, NoSharedTarget, TypeOK
<1>6. ShutdownInv'
  BY <1>0 DEF ShutdownInv, TypeOK
<1>7. RemainingIsBusy'
  <2>1. CASE shutdown
    <3>1. owner = "failed" => nthreads = 0 /\ remaining = 0
      BY DEF SpawnInv, IdleInv, InCycle
    <3>2. owner = "failed" => Busy' = {}
      BY <3>1 DEF Busy
    <3>3. owner \in {"failed", "join", "freed"}
      BY <2>1 DEF ShutdownInv
    <3>4. QED
      BY <3>1, <3>2, <3>3, FS_EmptySet DEF RemainingIsBusy
  <2>2. CASE ~shutdown
    BY <2>2, <1>b DEF RemainingIsBusy
  <2>3. QED BY <2>1, <2>2
<1>8. QED
  BY <1>1, <1>2, <1>3, <1>4, <1>5, <1>6, <1>7 DEF IInv

(* A worker acts on the pool's work only within a cycle, and owes it a
   sign-off then. *)
LEMMA ActsWhenBusy ==
  ASSUME IInv, NEW w \in Thread,
         \/ wpc[w] = "ready" /\ TopOfLoop(seen[w]) = "ready"
         \/ wpc[w] = "probed"
         \/ wpc[w] = "probing"
  PROVE  InCycle /\ w \in Busy /\ w < spawned
<1> USE CpoolAssumption, WantedType DEF IInv
<1>1. w < spawned
  BY DEF SpawnInv, TypeOK, Thread
<1>2. InCycle
  BY <1>1 DEF TopOfLoop, IdleInv
<1>3. w \in 0 .. nthreads - 1
  BY <1>1, <1>2 DEF SpawnInv, InCycle, TypeOK, Thread
<1>4. wpc[w] \in {"probing", "probed"} \/ (wpc[w] # "exited" /\ seen[w] # gen)
  BY DEF TopOfLoop
<1>5. QED
  BY <1>1, <1>2, <1>3, <1>4 DEF Busy

(* The first turn of the loop, after pthread_mutex_lock. *)
LEMMA EnterIInv ==
  ASSUME IInv, NEW w \in Thread, Enter(w)
  PROVE  IInv'
<1>1. CASE TopOfLoop(seen[w]) # "ready"
  BY <1>1, EnterTopIInv DEF Enter, poolVars
<1>2. CASE TopOfLoop(seen[w]) = "ready"
  <2>1. InCycle /\ w \in Busy
    BY <1>2, ActsWhenBusy DEF Enter
  <2>2. QED
    BY <1>2, <2>1, ClaimIInv, SignOffIInv DEF Enter
<1>3. QED BY <1>1, <1>2

(* After a probe the worker takes the next target or signs off. *)
LEMMA ResumeIInv ==
  ASSUME IInv, NEW w \in Thread, Resume(w)
  PROVE  IInv'
<1>1. InCycle /\ w \in Busy
  BY ActsWhenBusy DEF Resume
<1>2. seen' = [seen EXCEPT ![w] = gen]
  BY DEF Resume, IInv, CycleInv, TypeOK
<1>3. QED
  BY <1>1, <1>2, ClaimIInv, SignOffIInv DEF Resume

(* A wakeup without a signal leads back to the test of the condition. *)
LEMMA SpuriousWakeIInv == IInv /\ SpuriousWake => IInv'
<1> SUFFICES ASSUME IInv, SpuriousWake PROVE IInv'
  OBVIOUS
<1> USE CpoolAssumption, WantedType DEF IInv, poolVars
<1>1. CASE \E w \in Thread :
             /\ wpc[w] = "waiting"
             /\ wpc' = [wpc EXCEPT ![w] = "ready"]
             /\ UNCHANGED <<owner, poolVars, seen, claim>>
  <2> PICK w \in Thread : /\ wpc[w] = "waiting"
                          /\ wpc' = [wpc EXCEPT ![w] = "ready"]
                          /\ UNCHANGED <<owner, poolVars, seen, claim>>
    BY <1>1
  <2>b. Busy' = Busy
    BY DEF Busy, TypeOK, Thread
  <2>1. TypeOK' /\ SpawnInv' /\ IdleInv'
    BY DEF TypeOK, WorkerState, SpawnInv, IdleInv, InCycle
  <2>2. CycleInv' /\ ClaimInv' /\ ShutdownInv' /\ RemainingIsBusy'
    BY <2>b DEF CycleInv, InCycle, ClaimInv, NoSharedTarget, ShutdownInv,
                RemainingIsBusy, TypeOK
  <2>3. QED BY <2>1, <2>2
<1>2. CASE owner = "blocked" /\ owner' = "woken" /\ UNCHANGED <<poolVars, wpc, seen, claim>>
  <2>b. Busy' = Busy
    BY <1>2 DEF Busy
  <2>1. TypeOK' /\ SpawnInv' /\ IdleInv'
    BY <1>2 DEF TypeOK, OwnerState, SpawnInv, IdleInv, InCycle
  <2>2. CycleInv' /\ ClaimInv' /\ ShutdownInv' /\ RemainingIsBusy'
    BY <1>2, <2>b DEF CycleInv, InCycle, ClaimInv, NoSharedTarget, ShutdownInv,
                RemainingIsBusy
  <2>3. QED BY <2>1, <2>2
<1>3. QED BY <1>1, <1>2 DEF SpuriousWake

-----------------------------------------------------------------------------
(* The invariant and what follows from it. *)

(* The invariant depends on the variables only. *)
LEMMA StutterIInv == IInv /\ UNCHANGED vars => IInv'
BY DEF IInv, vars, poolVars, TypeOK, SpawnInv, IdleInv, InCycle, CycleInv, Busy,
       ClaimInv, NoSharedTarget, ShutdownInv, RemainingIsBusy

(* Every step of the owner and of the workers keeps the invariant. *)
LEMMA NextIInv == IInv /\ [Next]_vars => IInv'
<1> SUFFICES ASSUME IInv, [Next]_vars PROVE IInv'
  OBVIOUS
<1>1. CASE Owner
  BY <1>1, AllocIInv, SpawnOkIInv, SpawnFailIInv, RunCycleIInv, OwnerWakeIInv,
     DestroyIInv, JoinIInv, FreeIInv DEF Owner
<1>2. CASE \E w \in Thread : Worker(w)
  BY <1>2, WorkerStartIInv, EnterIInv, ProbeOneIInv, ResumeIInv DEF Worker
<1>3. CASE SpuriousWake
  BY <1>3, SpuriousWakeIInv
<1>4. CASE Stopped
  BY <1>4, StutterIInv DEF Stopped
<1>5. CASE UNCHANGED vars
  BY <1>5, StutterIInv
<1>6. QED BY <1>1, <1>2, <1>3, <1>4, <1>5 DEF Next

(* The invariant holds in every reachable state of the pool. *)
THEOREM Invariance == SafeSpec => []IInv
<1>1. QED
  BY InitIInv, NextIInv, PTL DEF SafeSpec

(* The fields of struct cpool and the workers' locals stay in their ranges:
   in particular Remaining, a size_t, is never decremented below zero, and
   WorkIndex never runs past Rc (cpool.c:118, 124). *)
THEOREM TypeCorrect == SafeSpec => []TypeOK
BY Invariance, PTL DEF IInv

(* The unlocked Probe_One calls of two workers are on different targets. *)
THEOREM TargetsNotShared == SafeSpec => []NoSharedTarget
<1>1. IInv => NoSharedTarget
  BY DEF IInv, ClaimInv
<1>2. QED
  BY <1>1, Invariance, PTL

(* Remaining counts the workers that still owe the cycle a sign-off. *)
THEOREM RemainingExact == SafeSpec => []RemainingIsBusy
BY Invariance, PTL DEF IInv

(* The owner never runs outside Cpool_RunCycle beside a probe. *)
THEOREM OwnerQuiet == SafeSpec => []QuietOutsideCycle
<1>1. IInv => QuietOutsideCycle
  <2> SUFFICES ASSUME IInv, owner \in {"idle", "join", "freed"}
               PROVE  /\ \A w \in Thread : wpc[w] \notin {"probing", "probed"}
                      /\ workIndex >= Rc
    BY DEF QuietOutsideCycle
  <2>1. workIndex = Rc
    BY DEF IInv, IdleInv
  <2>2. QED
    BY <2>1, CpoolAssumption DEF IInv, IdleInv, InCycle
<1>2. QED
  BY <1>1, Invariance, PTL

(* When the pool is freed every worker has returned from WorkerMain. *)
THEOREM PoolOutlivesWorkers == SafeSpec => []NoUseAfterFree
<1>1. IInv => NoUseAfterFree
  BY CpoolAssumption, WantedType
     DEF IInv, NoUseAfterFree, SpawnInv, ShutdownInv, TypeOK, Thread
<1>2. QED
  BY <1>1, Invariance, PTL

-----------------------------------------------------------------------------
(* Refinement: the pool implements the safety part of ProbeCycle. *)

(* The pool starts where the abstract cycle starts. *)
LEMMA InitRefines == Init => Cycle!Init
<1> SUFFICES ASSUME Init PROVE Cycle!Init
  OBVIOUS
<1>1. CyclePhase = "idle" /\ CyclePending = {} /\ CycleProbing = {}
  BY DEF Init, CyclePhase, CyclePending, CycleProbing, InCycle
<1>2. QED
  BY <1>1 DEF Cycle!Init

(* A step that leaves the mapped state alone is a stutter of ProbeCycle. *)
LEMMA SameMapping ==
  ASSUME UNCHANGED <<CyclePhase, CyclePending, CycleProbing>>
  PROVE  UNCHANGED Cycle!cycleVars
BY DEF Cycle!cycleVars

(* The abstract set of targets being probed depends on the workers alone. *)
LEMMA ProbingUnchanged ==
  ASSUME UNCHANGED claim,
         \A w \in Thread : wpc'[w] = "probing" <=> wpc[w] = "probing"
  PROVE  UNCHANGED CycleProbing
BY DEF CycleProbing

(* Raising Gen and resetting WorkIndex is the start of the abstract cycle. *)
LEMMA RunCycleRefines ==
  ASSUME IInv, RunCycle
  PROVE  Cycle!StartCycle
<1> USE CpoolAssumption DEF RunCycle, AwaitDone
<1>1. CyclePhase = "idle" /\ ~InCycle
  BY DEF CyclePhase, InCycle
<1>2. owner' = "blocked"
  BY WantedType DEF IInv, SpawnInv, TypeOK
<1>3. CyclePhase' = "running"
  BY <1>2 DEF CyclePhase, InCycle
<1>4. CyclePending' = Target
  <2>1. \A t \in Target : t >= workIndex'
    BY DEF Target
  <2>2. CyclePending' = {t \in Target : t >= workIndex'}
    BY <1>2 DEF CyclePending, InCycle
  <2>3. QED BY <2>1, <2>2
<1>5. UNCHANGED CycleProbing
  BY ProbingUnchanged DEF WakeWorkers
<1>6. QED
  BY <1>1, <1>3, <1>4, <1>5 DEF Cycle!StartCycle

(* The return from the wait is the end of the abstract cycle. *)
LEMMA OwnerWakeRefines ==
  ASSUME IInv, OwnerWake
  PROVE  Cycle!EndCycle \/ UNCHANGED Cycle!cycleVars
<1> USE CpoolAssumption DEF OwnerWake, AwaitDone, poolVars
<1>p. UNCHANGED CycleProbing
  BY ProbingUnchanged
<1>1. CASE remaining > 0
  <2>1. UNCHANGED <<CyclePhase, CyclePending>>
    BY <1>1 DEF CyclePhase, CyclePending, InCycle
  <2>2. QED
    BY <1>p, <2>1, SameMapping
<1>2. CASE ~(remaining > 0)
  <2>1. IInv'
    BY OwnerWakeIInv
  <2>2. owner' = "idle"
    BY <1>2
  <2>3. workIndex = Rc
    BY <2>1, <2>2 DEF IInv, IdleInv
  <2>4. CyclePending = {} /\ CyclePending' = {}
    BY <2>2, <2>3 DEF CyclePending, InCycle, Target
  <2>5. \A w \in Thread : wpc'[w] # "probing"
    BY <2>1, <2>2 DEF IInv, IdleInv, InCycle
  <2>6. CycleProbing = {}
    BY <2>5 DEF CycleProbing
  <2>7. CyclePhase = "running" /\ CyclePhase' = "idle"
    BY <2>2 DEF CyclePhase, InCycle
  <2>8. QED
    BY <1>p, <2>4, <2>6, <2>7 DEF Cycle!EndCycle
<1>3. QED BY <1>1, <1>2

(* The owner leaves "idle" or "alloc" for good; no cycle is under way. *)
LEMMA OwnerOutsideRefines ==
  ASSUME IInv, Alloc \/ SpawnOk \/ SpawnFail \/ Destroy \/ Join \/ Free
  PROVE  Cycle!Close \/ UNCHANGED Cycle!cycleVars
<1> USE DEF Alloc, SpawnOk, SpawnFail, Destroy, Join, Free, poolVars
<1>1. ~InCycle /\ ~InCycle'
  BY DEF InCycle
<1>2. UNCHANGED CyclePending
  BY <1>1 DEF CyclePending
<1>3. \A w \in Thread : wpc'[w] = "probing" <=> wpc[w] = "probing"
  <2>1. CASE Alloc \/ SpawnFail \/ Join \/ Free
    BY <2>1
  <2>2. CASE Destroy
    BY <2>2 DEF WakeWorkers
  <2>3. CASE SpawnOk
    BY <2>3, <1>1 DEF IInv, IdleInv, TypeOK
  <2>4. QED BY <2>1, <2>2, <2>3
<1>4. UNCHANGED CycleProbing
  BY <1>3, ProbingUnchanged
<1>5. \/ CyclePhase = "idle" /\ CyclePhase' = "closed"
      \/ UNCHANGED CyclePhase
  BY <1>1 DEF CyclePhase, InCycle
<1>6. QED
  BY <1>2, <1>4, <1>5, SameMapping DEF Cycle!Close

(* Taking the index is the begin of a probe. *)
LEMMA ClaimRefines ==
  ASSUME IInv, NEW w \in Thread, InCycle, wpc[w] # "probing", Claim(w)
  PROVE  \E t \in Target : Cycle!BeginProbe(t)
<1> USE CpoolAssumption DEF Claim, IInv
<1>1. workIndex \in Target
  BY DEF TypeOK, Target
<1>2. InCycle' /\ UNCHANGED CyclePhase
  BY DEF InCycle, CyclePhase
<1>3. workIndex \in CyclePending /\ CyclePending' = CyclePending \ {workIndex}
  BY <1>1, <1>2 DEF CyclePending, TypeOK, Target
<1>4. CycleProbing' = CycleProbing \cup {workIndex}
  <2>1. wpc'[w] = "probing" /\ claim'[w] = workIndex
    BY DEF TypeOK
  <2>2. \A v \in Thread : v # w => wpc'[v] = wpc[v] /\ claim'[v] = claim[v]
    BY DEF TypeOK
  <2>3. QED
    BY <2>1, <2>2 DEF CycleProbing
<1>5. QED
  BY <1>1, <1>2, <1>3, <1>4 DEF Cycle!BeginProbe

(* A sign-off is invisible in the abstract cycle. *)
LEMMA SignOffRefines ==
  ASSUME IInv, NEW w \in Thread, InCycle, wpc[w] # "probing", SignOff(w)
  PROVE  UNCHANGED Cycle!cycleVars
<1> USE DEF SignOff, IInv
<1>1. InCycle' /\ UNCHANGED <<CyclePhase, CyclePending>>
  BY DEF InCycle, CyclePhase, CyclePending
<1>2. \A v \in Thread : wpc'[v] = "probing" <=> wpc[v] = "probing"
  BY DEF TopOfLoop, TypeOK
<1>3. QED
  BY <1>1, <1>2, ProbingUnchanged, SameMapping

(* The end of Probe_One is the end of the probe. *)
LEMMA ProbeOneRefines ==
  ASSUME IInv, NEW w \in Thread, ProbeOne(w)
  PROVE  Cycle!EndProbe(claim[w]) /\ claim[w] \in Target
<1> USE DEF ProbeOne, IInv, poolVars
<1>1. claim[w] \in CycleProbing /\ claim[w] \in Target
  BY DEF CycleProbing, TypeOK
<1>2. UNCHANGED <<CyclePhase, CyclePending>>
  BY DEF CyclePhase, CyclePending, InCycle
<1>3. CycleProbing' = CycleProbing \ {claim[w]}
  <2>1. wpc'[w] # "probing"
    BY DEF TypeOK
  <2>2. \A v \in Thread : v # w => wpc'[v] = wpc[v]
    BY DEF TypeOK
  <2>3. \A v \in Thread : v # w /\ wpc[v] = "probing" => claim[v] # claim[w]
    BY DEF ClaimInv, NoSharedTarget
  <2>4. QED
    BY <2>1, <2>2, <2>3 DEF CycleProbing
<1>4. QED
  BY <1>1, <1>2, <1>3 DEF Cycle!EndProbe

(* Every step of a worker maps to a step or a stutter. *)
LEMMA WorkerRefines ==
  ASSUME IInv, NEW w \in Thread, Worker(w)
  PROVE  Cycle!Next \/ UNCHANGED Cycle!cycleVars
<1>1. CASE WorkerStart(w)
  <2>1. \A v \in Thread : wpc'[v] = "probing" <=> wpc[v] = "probing"
    BY <1>1 DEF WorkerStart, IInv, TypeOK
  <2>2. UNCHANGED <<CyclePhase, CyclePending>>
    BY <1>1 DEF WorkerStart, poolVars, CyclePhase, CyclePending, InCycle
  <2>3. QED
    BY <1>1, <2>1, <2>2, ProbingUnchanged, SameMapping DEF WorkerStart
<1>2. CASE Enter(w)
  <2>1. CASE TopOfLoop(seen[w]) = "ready"
    <3>1. InCycle /\ wpc[w] # "probing"
      BY <1>2, <2>1, ActsWhenBusy DEF Enter
    <3>2. Claim(w) \/ SignOff(w)
      BY <1>2, <2>1 DEF Enter
    <3>3. QED
      BY <3>1, <3>2, ClaimRefines, SignOffRefines DEF Cycle!Next
  <2>2. CASE TopOfLoop(seen[w]) # "ready"
    <3>1. \A v \in Thread : wpc'[v] = "probing" <=> wpc[v] = "probing"
      BY <1>2, <2>2 DEF Enter, IInv, TypeOK, TopOfLoop
    <3>2. UNCHANGED <<CyclePhase, CyclePending, claim>>
      BY <1>2, <2>2 DEF Enter, CyclePhase, CyclePending, InCycle
    <3>3. QED
      BY <3>1, <3>2, ProbingUnchanged, SameMapping
  <2>3. QED BY <2>1, <2>2
<1>3. CASE ProbeOne(w)
  BY <1>3, ProbeOneRefines DEF Cycle!Next
<1>4. CASE Resume(w)
  <2>1. InCycle /\ wpc[w] # "probing"
    BY <1>4, ActsWhenBusy DEF Resume
  <2>2. QED
    BY <1>4, <2>1, ClaimRefines, SignOffRefines DEF Resume, Cycle!Next
<1>5. QED
  BY <1>1, <1>2, <1>3, <1>4 DEF Worker

(* So does a step that changes nothing, *)
LEMMA StutterRefines ==
  ASSUME UNCHANGED vars
  PROVE  UNCHANGED Cycle!cycleVars
<1>1. UNCHANGED <<CyclePhase, CyclePending>>
  BY DEF vars, poolVars, CyclePhase, CyclePending, InCycle
<1>2. UNCHANGED CycleProbing
  BY ProbingUnchanged DEF vars
<1>3. QED
  BY <1>1, <1>2, SameMapping

(* and a spurious wakeup, which the cycle cannot tell from sleep. *)
LEMMA SpuriousWakeRefines ==
  ASSUME IInv, SpuriousWake
  PROVE  UNCHANGED Cycle!cycleVars
<1>1. UNCHANGED <<CyclePhase, CyclePending, claim>>
  BY DEF SpuriousWake, poolVars, CyclePhase, CyclePending, InCycle
<1>2. \A v \in Thread : wpc'[v] = "probing" <=> wpc[v] = "probing"
  BY DEF SpuriousWake, IInv, TypeOK
<1>3. QED
  BY <1>1, <1>2, ProbingUnchanged, SameMapping

(* Every step of the pool maps to a step of the abstract cycle or a stutter. *)
LEMMA NextRefines ==
  ASSUME IInv, [Next]_vars
  PROVE  [Cycle!Next]_(Cycle!cycleVars)
<1>1. CASE Owner
  BY <1>1, RunCycleRefines, OwnerWakeRefines, OwnerOutsideRefines DEF Owner, Cycle!Next
<1>2. CASE \E w \in Thread : Worker(w)
  BY <1>2, WorkerRefines
<1>3. CASE SpuriousWake
  BY <1>3, SpuriousWakeRefines
<1>4. CASE Stopped \/ UNCHANGED vars
  BY <1>4, StutterRefines DEF Stopped
<1>5. QED
  BY <1>1, <1>2, <1>3, <1>4 DEF Next

(* Every behaviour of the pool is a behaviour of ProbeCycle: within one
   Cpool_RunCycle each target is begun exactly once and ended before the
   call returns. *)
THEOREM Implements == SafeSpec => Cycle!SafeSpec
<1>1. QED
  BY InitRefines, NextRefines, Invariance, PTL DEF SafeSpec, Cycle!SafeSpec
=============================================================================
