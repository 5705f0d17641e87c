--------------------------- MODULE LoadTestProofs ---------------------------
(***************************************************************************)
(* A load test for every number of workers, every cap and all round-trip   *)
(* times: who owns the slots, what the merged result says of the run, and  *)
(* that the run is one experiment (LoadSpec).                              *)
(*                                                                         *)
(* The merged result is a sum over the workers; see SumTheorems.           *)
(***************************************************************************)
EXTENDS LoadTest, SumTheorems, FiniteSetTheorems, TLAPS

-----------------------------------------------------------------------------
(* The threads and their slots.                                            *)

LEMMA ConcType == Conc \in Nat \ {0}
<1>1. Concurrency \in Nat /\ MaxConcurrency \in Nat \ {0}
  BY LoadTestAssumption
<1>2. QED
  BY <1>1 DEF Conc

LEMMA InitThread == Init => ThreadInv
BY ConcType DEF Init, ThreadInv, SlotsOwned, Worker

(* The main thread creates workers in order and counts them ... *)
LEMMA SpawnThread == ThreadInv /\ (Alloc \/ Spawn) => ThreadInv'
<1> SUFFICES ASSUME ThreadInv, Alloc \/ Spawn PROVE ThreadInv'
  OBVIOUS
<1> USE ConcType DEF ThreadInv, SlotsOwned, Worker
<1>1. CASE Alloc
  BY <1>1 DEF Alloc
<1>2. CASE Spawn
  <2>1. CASE wpc' = [wpc EXCEPT ![n] = "born"] /\ started' = started + 1
    <3>1. n \in Worker /\ started' \in 0 .. Conc
      BY <1>2, <2>1 DEF Spawn
    <3>2. \A w \in Worker : wpc'[w] = "unborn" <=> w >= started'
      BY <1>2, <2>1, <3>1 DEF Spawn
    <3>3. CASE n + 1 = Conc
      BY <1>2, <2>1, <3>1, <3>2, <3>3 DEF Spawn, AfterSpawn
    <3>4. CASE n + 1 # Conc
      BY <1>2, <2>1, <3>1, <3>2, <3>4 DEF Spawn, AfterSpawn
    <3>5. QED BY <3>3, <3>4
  <2>2. CASE pc' = AfterSpawn /\ n' = 0 /\ UNCHANGED <<wpc, started>>
    BY <1>2, <2>2 DEF Spawn, AfterSpawn
  <2>3. QED BY <1>2, <2>1, <2>2 DEF Spawn
<1>3. QED BY <1>1, <1>2

(* ... and joins every one of them before it merges the slots. *)
LEMMA JoinThread == ThreadInv /\ (Progress \/ Join \/ Merge) => ThreadInv'
<1> SUFFICES ASSUME ThreadInv, Progress \/ Join \/ Merge PROVE ThreadInv'
  OBVIOUS
<1> USE ConcType DEF ThreadInv, SlotsOwned, Worker
<1>1. CASE Progress
  BY <1>1 DEF Progress
<1>2. CASE Join
  <2>1. CASE n < started
    BY <1>2, <2>1 DEF Join
  <2>2. CASE ~(n < started)
    BY <1>2, <2>2 DEF Join
  <2>3. QED BY <2>1, <2>2
<1>3. CASE Merge
  BY <1>3 DEF Merge
<1>4. QED BY <1>1, <1>2, <1>3

(* A worker that has exited takes no step, and none starts by itself. *)
LEMMA WorkerThread ==
  ASSUME ThreadInv, NEW w \in Worker, WorkerStep(w)
  PROVE  ThreadInv'
<1>1. /\ wpc[w] \in {"born", "dialling", "connecting"}
      /\ \E s \in {"dialling", "connecting", "exited"} : wpc' = [wpc EXCEPT ![w] = s]
      /\ UNCHANGED <<pc, n, started>>
  BY DEF WorkerStep, Start, Dial, Refused, Cut, Connected, Test
<1>2. pc \notin {"merge", "returned"}
  BY <1>1 DEF ThreadInv, SlotsOwned
<1>3. \A v \in Worker : wpc[v] = "exited" => wpc'[v] = "exited"
  BY <1>1 DEF ThreadInv
<1>4. \A v \in Worker : wpc'[v] = "unborn" <=> wpc[v] = "unborn"
  BY <1>1 DEF ThreadInv
<1>5. QED
  BY <1>1, <1>2, <1>3, <1>4 DEF ThreadInv, SlotsOwned

LEMMA NextThread == ThreadInv /\ [Next]_vars => ThreadInv'
<1> SUFFICES ASSUME ThreadInv, [Next]_vars PROVE ThreadInv'
  OBVIOUS
<1>1. CASE Main
  BY <1>1, SpawnThread, JoinThread DEF Main
<1>2. CASE \E w \in Worker : WorkerStep(w)
  BY <1>2, WorkerThread
<1>3. CASE Tick \/ Interrupt \/ Returned \/ UNCHANGED vars
  BY <1>3 DEF Tick, Interrupt, Returned, vars, ThreadInv, SlotsOwned
<1>4. QED BY <1>1, <1>2, <1>3 DEF Next

(* When the slots are merged, and when LoadTest_Run has freed them and
   returned, no worker that was created is alive, however many of them the
   system let it create (loadtest.c:217-249). *)
THEOREM SlotsNeverShared == Spec => []SlotsOwned
<1>1. ThreadInv => SlotsOwned
  BY DEF ThreadInv
<1>2. QED
  BY <1>1, InitThread, NextThread, PTL DEF Spec

-----------------------------------------------------------------------------
(* The tally of a set of slots.                                            *)

LEMMA WorkerFinite == IsFiniteSet(Worker)
BY ConcType, FS_Interval DEF Worker

(* The merged extremes, and the numbers that are them. *)
Mins(r, S) == {r[w].minRtt : w \in {v \in S : r[v].success > 0}}
Maxs(r, S) == {r[w].maxRtt : w \in S}
TallyOf(r, S) ==
  [attempts |-> SumOf(r, "attempts", S), success |-> SumOf(r, "success", S),
   failed |-> SumOf(r, "failed", S), total |-> SumOf(r, "total", S),
   minRtt |-> IF Mins(r, S) = {} THEN 0 ELSE Min(Mins(r, S)),
   maxRtt |-> Max(Maxs(r, S) \cup {0})]

LEMMA TallyIs ==
  ASSUME NEW S
  PROVE  Tally(S) = TallyOf(res, S) /\ Tally(S)' = TallyOf(res', S)
BY DEF Tally, TallyOf, SumOf, Mins, Maxs, MapThenSumSet, MapThenFoldSet

IsMin(m, r, S) ==
  /\ (\A w \in S : r[w].success = 0) => m = 0
  /\ (\E w \in S : r[w].success > 0) =>
       /\ \E w \in S : r[w].success > 0 /\ m = r[w].minRtt
       /\ \A w \in S : r[w].success > 0 => m <= r[w].minRtt

IsMax(m, r, S) ==
  /\ m = 0 \/ \E w \in S : m = r[w].maxRtt
  /\ \A w \in S : r[w].maxRtt <= m

LEMMA CountsOf ==
  ASSUME NEW r \in [Worker -> Result], NEW S \in SUBSET Worker,
         NEW field \in {"attempts", "success", "failed", "total"}
  PROVE  IsFiniteSet(S) /\ NatField(r, field, S)
<1>1. IsFiniteSet(S)
  BY WorkerFinite, FS_Subset
<1>2. \A w \in S : /\ r[w].attempts \in Nat /\ r[w].success \in Nat
                   /\ r[w].failed \in Nat /\ r[w].total \in Nat
  BY DEF Result
<1>3. QED
  BY <1>1, <1>2 DEF NatField

LEMMA MinsFinite ==
  ASSUME NEW r \in [Worker -> Result], NEW S \in SUBSET Worker
  PROVE  /\ Mins(r, S) \in SUBSET Nat /\ IsFiniteSet(Mins(r, S))
         /\ Maxs(r, S) \cup {0} \in SUBSET Nat /\ IsFiniteSet(Maxs(r, S) \cup {0})
<1>1. \A w \in S : r[w].minRtt \in Nat /\ r[w].maxRtt \in Nat
  BY DEF Result
<1>2. IsFiniteSet(S)
  BY WorkerFinite, FS_Subset
<1> DEFINE low == [w \in S |-> r[w].minRtt]
           high == [w \in S |-> r[w].maxRtt]
           L == {low[w] : w \in S}
           H == {high[w] : w \in S}
<1>3. IsFiniteSet(L)
  <2>1. low \in Surjection(S, L)
    BY DEF Surjection
  <2>2. QED
    BY <1>2, <2>1, FS_Surjection
<1>4. IsFiniteSet(H)
  <2>1. high \in Surjection(S, H)
    BY DEF Surjection
  <2>2. QED
    BY <1>2, <2>1, FS_Surjection
<1>5. Mins(r, S) \in SUBSET L /\ Maxs(r, S) = H
  BY DEF Mins, Maxs
<1>6. IsFiniteSet(Mins(r, S))
  BY <1>3, <1>5, FS_Subset
<1>7. IsFiniteSet(Maxs(r, S) \cup {0})
  <2> HIDE DEF H
  <2> QED BY <1>4, <1>5, FS_AddElement
<1>8. QED
  BY <1>1, <1>6, <1>7 DEF Mins, Maxs

LEMMA TallyMinMax ==
  ASSUME NEW r \in [Worker -> Result], NEW S \in SUBSET Worker
  PROVE  IsMin(TallyOf(r, S).minRtt, r, S) /\ IsMax(TallyOf(r, S).maxRtt, r, S)
<1> DEFINE lo == TallyOf(r, S).minRtt
           hi == TallyOf(r, S).maxRtt
           M == Maxs(r, S) \cup {0}
<1>1. /\ Mins(r, S) \in SUBSET Nat /\ IsFiniteSet(Mins(r, S))
      /\ M \in SUBSET Nat /\ IsFiniteSet(M)
  BY MinsFinite
<1>2. lo = IF Mins(r, S) = {} THEN 0 ELSE Min(Mins(r, S))
  BY DEF TallyOf
<1>3. hi = Max(M)
  BY DEF TallyOf
<1>4. IsMin(lo, r, S)
  <2>0. \A w \in S : r[w].success \in Nat
    BY DEF Result
  <2>1. CASE Mins(r, S) = {}
    <3>1. \A w \in S : ~(r[w].success > 0)
      BY <2>1 DEF Mins
    <3>2. lo = 0
      BY <1>2, <2>1
    <3> HIDE DEF lo
    <3>3. QED
      BY <2>0, <3>1, <3>2 DEF IsMin
  <2>2. CASE Mins(r, S) # {}
    <3>1. \E x \in Mins(r, S) : \A y \in Mins(r, S) : x <= y
      BY <1>1, <2>2, Extremes
    <3>2. lo \in Mins(r, S) /\ \A y \in Mins(r, S) : lo <= y
      BY <1>2, <2>2, <3>1 DEF Min
    <3> HIDE DEF lo
    <3>3. /\ \E w \in S : r[w].success > 0 /\ lo = r[w].minRtt
          /\ \A w \in S : r[w].success > 0 => lo <= r[w].minRtt
      BY <3>2 DEF Mins
    <3>4. QED
      BY <2>0, <3>3 DEF IsMin
  <2>3. QED BY <2>1, <2>2
<1>5. IsMax(hi, r, S)
  <2>1. \E x \in M : \A y \in M : y <= x
    <3>1. M # {}
      OBVIOUS
    <3> HIDE DEF M
    <3>2. QED
      BY <1>1, <3>1, Extremes
  <2>2. hi \in M /\ \A y \in M : y <= hi
    <3>1. \A x, y \in M : y <= x <=> x >= y
      BY <1>1
    <3> HIDE DEF M, hi
    <3>2. QED
      BY <1>3, <2>1, <3>1 DEF Max
  <2> HIDE DEF hi
  <2>3. QED
    BY <2>2 DEF Maxs, IsMax
<1>6. QED
  BY <1>4, <1>5

LEMMA MinMaxUnique ==
  ASSUME NEW r \in [Worker -> Result], NEW S \in SUBSET Worker, NEW m, NEW k
  PROVE  /\ IsMin(m, r, S) /\ IsMin(k, r, S) => m = k
         /\ IsMax(m, r, S) /\ IsMax(k, r, S) => m = k
<1>1. \A w \in S : r[w].success \in Nat /\ r[w].minRtt \in Nat /\ r[w].maxRtt \in Nat
  BY DEF Result
<1>2. ASSUME IsMin(m, r, S), IsMin(k, r, S) PROVE m = k
  <2>1. CASE \E w \in S : r[w].success > 0
    <3>1. PICK v \in S : r[v].success > 0 /\ m = r[v].minRtt
      BY <1>2, <2>1 DEF IsMin
    <3>2. PICK w \in S : r[w].success > 0 /\ k = r[w].minRtt
      BY <1>2, <2>1 DEF IsMin
    <3>3. m <= k /\ k <= m /\ m \in Nat /\ k \in Nat
      BY <1>1, <1>2, <2>1, <3>1, <3>2 DEF IsMin
    <3>4. QED
      BY <3>3
  <2>2. CASE ~(\E w \in S : r[w].success > 0)
    BY <1>1, <1>2, <2>2 DEF IsMin
  <2>3. QED BY <2>1, <2>2
<1>3. ASSUME IsMax(m, r, S), IsMax(k, r, S) PROVE m = k
  <2>1. m \in Nat /\ k \in Nat
    BY <1>1, <1>3 DEF IsMax
  <2>2. m <= k
    BY <1>1, <1>3, <2>1 DEF IsMax
  <2>3. k <= m
    BY <1>1, <1>3, <2>1 DEF IsMax
  <2>4. QED
    BY <2>1, <2>2, <2>3
<1>4. QED
  BY <1>2, <1>3

(* How the tally follows the slot of one worker. *)
OneSlot(r, q, w) ==
  /\ r \in [Worker -> Result] /\ q \in [Worker -> Result]
  /\ \A v \in Worker : v # w => q[v] = r[v]

LEMMA SlotCounts ==
  ASSUME NEW w \in Worker, NEW r, NEW q, OneSlot(r, q, w),
         NEW field \in {"attempts", "success", "failed", "total"}
  PROVE  /\ SumOf(r, field, Worker) \in Nat
         /\ SumOf(q, field, Worker) = SumOf(r, field, Worker) - r[w][field] + q[w][field]
         /\ r[w][field] \in Nat /\ q[w][field] \in Nat
<1>1. r \in [Worker -> Result] /\ q \in [Worker -> Result]
  BY DEF OneSlot
<1>2. IsFiniteSet(Worker) /\ NatField(r, field, Worker) /\ NatField(q, field, Worker)
  BY <1>1, CountsOf
<1>3. r[w][field] \in Nat /\ q[w][field] \in Nat
  BY <1>2 DEF NatField
<1>4. \A v \in Worker : v # w => q[v][field] = r[v][field]
  BY DEF OneSlot
<1>5. /\ SumOf(r, field, Worker) \in Nat
      /\ SumOf(q, field, Worker) = SumOf(r, field, Worker) - r[w][field] + q[w][field]
  BY <1>2, <1>3, <1>4, SumUpdate
<1>6. QED
  BY <1>3, <1>5

LEMMA SlotMoves ==
  ASSUME NEW w \in Worker, NEW r, NEW q, OneSlot(r, q, w), NEW d \in Nat,
         NEW field \in {"attempts", "success", "failed", "total"},
         q[w][field] = r[w][field] + d
  PROVE  SumOf(q, field, Worker) = SumOf(r, field, Worker) + d
<1> DEFINE a == SumOf(q, field, Worker)
           b == SumOf(r, field, Worker)
           x == q[w][field]
           y == r[w][field]
<1>1. a = b - y + x /\ b \in Nat /\ x \in Nat /\ y \in Nat /\ x = y + d
  BY SlotCounts
<1> HIDE DEF a, b, x, y
<1>2. a = b + d
  BY <1>1
<1>3. QED
  BY <1>2 DEF a, b

(* A tally is its counts and its extremes. *)
LEMMA TallyIsThat ==
  ASSUME NEW r \in [Worker -> Result], NEW m, NEW k,
         IsMin(m, r, Worker), IsMax(k, r, Worker)
  PROVE  TallyOf(r, Worker) =
           [attempts |-> SumOf(r, "attempts", Worker), success |-> SumOf(r, "success", Worker),
            failed |-> SumOf(r, "failed", Worker), total |-> SumOf(r, "total", Worker),
            minRtt |-> m, maxRtt |-> k]
<1> DEFINE t == TallyOf(r, Worker)
<1>1. IsMin(t.minRtt, r, Worker) /\ IsMax(t.maxRtt, r, Worker)
  BY TallyMinMax
<1>2. t.minRtt = m /\ t.maxRtt = k
  <2> HIDE DEF t
  <2> QED BY <1>1, MinMaxUnique
<1>3. QED
  BY <1>2 DEF TallyOf

LEMMA TallyType ==
  ASSUME NEW r \in [Worker -> Result]
  PROVE  TallyOf(r, Worker) \in Result
<1> DEFINE t == TallyOf(r, Worker)
<1>1. IsFiniteSet(Worker)
  BY WorkerFinite
<1>2. /\ NatField(r, "attempts", Worker) /\ NatField(r, "success", Worker)
      /\ NatField(r, "failed", Worker) /\ NatField(r, "total", Worker)
  BY CountsOf
<1>3. SumOf(r, "attempts", Worker) \in Nat
  BY <1>1, <1>2, SumType
<1>4. SumOf(r, "success", Worker) \in Nat
  BY <1>1, <1>2, SumType
<1>5. SumOf(r, "failed", Worker) \in Nat
  BY <1>1, <1>2, SumType
<1>6. SumOf(r, "total", Worker) \in Nat
  BY <1>1, <1>2, SumType
<1>7. t.minRtt \in Nat /\ t.maxRtt \in Nat
  <2>1. IsMin(t.minRtt, r, Worker) /\ IsMax(t.maxRtt, r, Worker)
    BY TallyMinMax
  <2>2. \A w \in Worker : r[w].success \in Nat /\ r[w].minRtt \in Nat /\ r[w].maxRtt \in Nat
    BY DEF Result
  <2> HIDE DEF t
  <2>3. QED
    BY <2>1, <2>2 DEF IsMin, IsMax
<1>8. QED
  BY <1>3, <1>4, <1>5, <1>6, <1>7 DEF TallyOf, Result

(* A slot whose successes stay as they are keeps the extremes. *)
LEMMA ExtremesStay ==
  ASSUME NEW w \in Worker, NEW r, NEW q, OneSlot(r, q, w),
         q[w].success = r[w].success, q[w].maxRtt = r[w].maxRtt,
         r[w].success > 0 => q[w].minRtt = r[w].minRtt
  PROVE  /\ TallyOf(q, Worker).minRtt = TallyOf(r, Worker).minRtt
         /\ TallyOf(q, Worker).maxRtt = TallyOf(r, Worker).maxRtt
<1> DEFINE m == TallyOf(r, Worker).minRtt
           k == TallyOf(r, Worker).maxRtt
<1>0. r \in [Worker -> Result] /\ q \in [Worker -> Result]
  BY DEF OneSlot
<1>1. IsMin(m, r, Worker) /\ IsMax(k, r, Worker)
  BY <1>0, TallyMinMax
<1> HIDE DEF m, k
<1>2. \A v \in Worker : /\ q[v].success = r[v].success /\ q[v].maxRtt = r[v].maxRtt
                        /\ r[v].success > 0 => q[v].minRtt = r[v].minRtt
  BY DEF OneSlot
<1>3. IsMin(m, q, Worker)
  <2>1. (\A v \in Worker : q[v].success = 0) => m = 0
    BY <1>1, <1>2 DEF IsMin
  <2>2. (\E v \in Worker : q[v].success > 0) =>
          \E v \in Worker : q[v].success > 0 /\ m = q[v].minRtt
    BY <1>1, <1>2 DEF IsMin
  <2>3. (\E v \in Worker : q[v].success > 0) =>
          \A v \in Worker : q[v].success > 0 => m <= q[v].minRtt
    BY <1>1, <1>2 DEF IsMin
  <2>4. QED
    BY <2>1, <2>2, <2>3 DEF IsMin
<1>4. IsMax(k, q, Worker)
  BY <1>1, <1>2 DEF IsMax
<1>5. TallyOf(q, Worker).minRtt = m /\ TallyOf(q, Worker).maxRtt = k
  BY <1>0, <1>3, <1>4, TallyIsThat
<1>6. QED
  BY <1>5 DEF m, k

(* Nothing counts before the first connection ends ... *)
LEMMA TallyStart ==
  ASSUME NEW w \in Worker, NEW r, NEW q, OneSlot(r, q, w),
         r[w] = Zero, q[w] = [Zero EXCEPT !.minRtt = DblMax]
  PROVE  TallyOf(q, Worker) = TallyOf(r, Worker)
<1>1. /\ SumOf(q, "attempts", Worker) = SumOf(r, "attempts", Worker)
      /\ SumOf(q, "success", Worker) = SumOf(r, "success", Worker)
      /\ SumOf(q, "failed", Worker) = SumOf(r, "failed", Worker)
      /\ SumOf(q, "total", Worker) = SumOf(r, "total", Worker)
  BY SlotCounts DEF Zero
<1>2. /\ TallyOf(q, Worker).minRtt = TallyOf(r, Worker).minRtt
      /\ TallyOf(q, Worker).maxRtt = TallyOf(r, Worker).maxRtt
  BY ExtremesStay DEF Zero
<1>3. QED
  BY <1>1, <1>2 DEF TallyOf

LEMMA LostIs ==
  ASSUME NEW t \in Result
  PROVE  Experiment!Lost(t) =
           [attempts |-> t.attempts + 1, success |-> t.success, failed |-> t.failed + 1,
            total |-> t.total, minRtt |-> t.minRtt, maxRtt |-> t.maxRtt]
<1> DEFINE u == [t EXCEPT !.attempts = @ + 1]
<1>1. u = [attempts |-> t.attempts + 1, success |-> t.success, failed |-> t.failed,
           total |-> t.total, minRtt |-> t.minRtt, maxRtt |-> t.maxRtt]
  BY DEF Result
<1>2. Experiment!Lost(t) = [u EXCEPT !.failed = @ + 1]
  BY DEF Experiment!Lost, Result
<1> HIDE DEF u
<1>3. QED
  BY <1>1, <1>2

(* ... a connection that fails counts as an attempt and a failure, one that
   is cut as an attempt ... *)
LEMMA TallyLost ==
  ASSUME NEW w \in Worker, NEW r, NEW q, OneSlot(r, q, w), NEW lost \in {0, 1},
         q[w].attempts = r[w].attempts + 1, q[w].failed = r[w].failed + lost,
         q[w].success = r[w].success, q[w].total = r[w].total,
         q[w].minRtt = r[w].minRtt, q[w].maxRtt = r[w].maxRtt
  PROVE  TallyOf(q, Worker) = IF lost = 1 THEN Experiment!Lost(TallyOf(r, Worker))
                                          ELSE Experiment!Cut(TallyOf(r, Worker))
<1> DEFINE t == TallyOf(r, Worker)
<1>1. TallyOf(q, Worker) \in Result /\ t \in Result
  BY TallyType DEF OneSlot
<1>2. SumOf(q, "attempts", Worker) = SumOf(r, "attempts", Worker) + 1
  BY SlotMoves
<1>3. SumOf(q, "failed", Worker) = SumOf(r, "failed", Worker) + lost
  BY SlotMoves
<1>4. /\ SumOf(q, "success", Worker) = SumOf(r, "success", Worker)
      /\ SumOf(q, "total", Worker) = SumOf(r, "total", Worker)
  BY SlotCounts
<1>5. /\ TallyOf(q, Worker).minRtt = TallyOf(r, Worker).minRtt
      /\ TallyOf(q, Worker).maxRtt = TallyOf(r, Worker).maxRtt
  BY ExtremesStay
<1>6. TallyOf(q, Worker) =
        [attempts |-> t.attempts + 1, success |-> t.success, failed |-> t.failed + lost,
         total |-> t.total, minRtt |-> t.minRtt, maxRtt |-> t.maxRtt]
  BY <1>2, <1>3, <1>4, <1>5 DEF TallyOf
<1> HIDE DEF t
<1>7. CASE lost = 1
  <2>1. Experiment!Lost(t) =
          [attempts |-> t.attempts + 1, success |-> t.success, failed |-> t.failed + 1,
           total |-> t.total, minRtt |-> t.minRtt, maxRtt |-> t.maxRtt]
    BY <1>1, LostIs
  <2>2. QED
    BY <1>6, <1>7, <2>1 DEF t
<1>8. CASE lost = 0
  <2>1. Experiment!Cut(t) =
          [attempts |-> t.attempts + 1, success |-> t.success, failed |-> t.failed,
           total |-> t.total, minRtt |-> t.minRtt, maxRtt |-> t.maxRtt]
    BY <1>1 DEF Experiment!Cut, Result
  <2>2. t.failed + lost = t.failed
    BY <1>1, <1>8 DEF Result
  <2>3. QED
    BY <1>6, <1>8, <2>1, <2>2 DEF t
<1>9. QED
  BY <1>7, <1>8

(* ... and one that succeeds moves the extremes as it would in one slot for
   all. *)
LEMMA TallyWon ==
  ASSUME NEW w \in Worker, NEW r, NEW q, OneSlot(r, q, w), NEW rtt \in Rtts,
         r[w].success = 0 => r[w].minRtt = DblMax,
         q[w].attempts = r[w].attempts + 1, q[w].failed = r[w].failed,
         q[w].success = r[w].success + 1, q[w].total = r[w].total + rtt,
         q[w].minRtt = IF rtt < r[w].minRtt THEN rtt ELSE r[w].minRtt,
         q[w].maxRtt = IF rtt > r[w].maxRtt THEN rtt ELSE r[w].maxRtt
  PROVE  TallyOf(q, Worker) = Experiment!Won(TallyOf(r, Worker), rtt)
<1> DEFINE t == TallyOf(r, Worker)
           m == IF t.success = 0 \/ rtt < t.minRtt THEN rtt ELSE t.minRtt
           k == IF rtt > t.maxRtt THEN rtt ELSE t.maxRtt
<1>0. /\ r \in [Worker -> Result] /\ q \in [Worker -> Result]
      /\ rtt \in Nat /\ rtt < DblMax /\ DblMax \in Nat
  BY LoadTestAssumption DEF OneSlot
<1>2. SumOf(q, "attempts", Worker) = t.attempts + 1
  BY SlotMoves DEF TallyOf
<1>3. SumOf(q, "success", Worker) = t.success + 1
  BY SlotMoves DEF TallyOf
<1>4. SumOf(q, "failed", Worker) = t.failed
  BY SlotCounts DEF TallyOf
<1>5. SumOf(q, "total", Worker) = t.total + rtt
  BY <1>0, SlotMoves DEF TallyOf
<1>6. IsMin(t.minRtt, r, Worker) /\ IsMax(t.maxRtt, r, Worker)
  BY <1>0, TallyMinMax
<1>7. t.success = 0 <=> \A v \in Worker : r[v].success = 0
  <2>1. IsFiniteSet(Worker) /\ NatField(r, "success", Worker)
    BY <1>0, CountsOf
  <2>2. SumOf(r, "success", Worker) = 0 <=> \A v \in Worker : r[v]["success"] = 0
    BY <2>1, SumZero
  <2>3. QED
    BY <2>2 DEF TallyOf
<1>8. /\ \A v \in Worker : v # w => q[v] = r[v]
      /\ \A v \in Worker : /\ r[v].success \in Nat /\ r[v].minRtt \in Nat
                           /\ r[v].maxRtt \in Nat
  BY <1>0 DEF OneSlot, Result
<1>8a. /\ r[w].success \in Nat /\ r[w].minRtt \in Nat /\ r[w].maxRtt \in Nat
       /\ \A v \in Worker : v # w => /\ q[v].success = r[v].success
                                    /\ q[v].minRtt = r[v].minRtt
                                    /\ q[v].maxRtt = r[v].maxRtt
  BY <1>8
<1> HIDE DEF t
<1>9. IsMin(m, q, Worker)
  <2>1. \E v \in Worker : q[v].success > 0
    BY <1>8a
  <2>2. CASE t.success = 0
    <3>1. q[w].success > 0 /\ q[w].minRtt = rtt /\ m = rtt
      BY <1>0, <1>7, <1>8, <1>8a, <2>2
    <3>2. \A v \in Worker : v # w => q[v].success = 0
      BY <1>7, <1>8, <1>8a, <2>2
    <3> HIDE DEF m
    <3>3. \A v \in Worker : q[v].success > 0 => m <= q[v].minRtt
      BY <1>0, <3>1, <3>2
    <3>4. \E v \in Worker : q[v].success > 0 /\ m = q[v].minRtt
      BY <3>1
    <3>5. QED
      BY <2>1, <3>1, <3>3, <3>4 DEF IsMin
  <2>3. CASE t.success # 0
    <3>0. PICK u \in Worker : r[u].success > 0 /\ t.minRtt = r[u].minRtt
      BY <1>6, <1>7, <1>8, <1>8a, <2>3 DEF IsMin
    <3>1. \A v \in Worker : r[v].success > 0 => t.minRtt <= r[v].minRtt
      BY <1>6, <3>0 DEF IsMin
    <3>2. t.minRtt \in Nat /\ m = IF rtt < t.minRtt THEN rtt ELSE t.minRtt
      BY <1>8, <1>8a, <2>3, <3>0
    <3>3. r[w].success = 0 \/ t.minRtt <= r[w].minRtt
      BY <1>8, <1>8a, <3>1
    <3> HIDE DEF m
    <3>4. m <= q[w].minRtt
      BY <1>0, <1>8, <1>8a, <3>2, <3>3
    <3>5. \A v \in Worker : q[v].success > 0 => m <= q[v].minRtt
      BY <1>0, <1>8, <1>8a, <3>1, <3>2, <3>4
    <3>6. \E v \in Worker : q[v].success > 0 /\ m = q[v].minRtt
      <4>1. CASE rtt < t.minRtt
        BY <1>0, <1>8, <1>8a, <3>2, <3>3, <4>1
      <4>2. CASE ~(rtt < t.minRtt) /\ u = w
        BY <1>0, <1>8, <1>8a, <3>0, <3>2, <4>2
      <4>3. CASE ~(rtt < t.minRtt) /\ u # w
        BY <1>0, <1>8, <1>8a, <3>0, <3>2, <4>3
      <4>4. QED BY <4>1, <4>2, <4>3
    <3>7. (\A v \in Worker : q[v].success = 0) => m = 0
      BY <2>1
    <3>8. QED
      BY <3>5, <3>6, <3>7 DEF IsMin
  <2>4. QED BY <2>2, <2>3
<1>10. IsMax(k, q, Worker)
  <2>1. t.maxRtt \in Nat /\ \A v \in Worker : r[v].maxRtt <= t.maxRtt
    BY <1>6, <1>8 DEF IsMax
  <2>2. \A v \in Worker : q[v].maxRtt <= k
    BY <1>0, <1>8, <1>8a, <2>1
  <2>3. k = 0 \/ \E v \in Worker : k = q[v].maxRtt
    <3>1. CASE rtt > t.maxRtt
      BY <1>0, <1>8, <1>8a, <2>1, <3>1
    <3>2. CASE ~(rtt > t.maxRtt) /\ t.maxRtt = 0
      BY <3>2
    <3>3. CASE ~(rtt > t.maxRtt) /\ t.maxRtt # 0
      <4>1. PICK u \in Worker : t.maxRtt = r[u].maxRtt
        BY <1>6, <3>3 DEF IsMax
      <4>2. CASE u = w
        BY <1>0, <1>8, <1>8a, <3>3, <4>1, <4>2
      <4>3. CASE u # w
        BY <1>8, <1>8a, <3>3, <4>1, <4>3
      <4>4. QED BY <4>2, <4>3
    <3>4. QED BY <3>1, <3>2, <3>3
  <2> HIDE DEF k
  <2>4. QED
    BY <2>2, <2>3 DEF IsMax
<1>11. TallyOf(q, Worker) =
         [attempts |-> t.attempts + 1, success |-> t.success + 1, failed |-> t.failed,
          total |-> t.total + rtt, minRtt |-> m, maxRtt |-> k]
  <2> HIDE DEF m, k
  <2> QED BY <1>0, <1>2, <1>3, <1>4, <1>5, <1>9, <1>10, TallyIsThat
<1>12. QED
  BY <1>11 DEF Experiment!Won, t

LEMMA TallyNow == InSlots = TallyOf(res, Worker) /\ InSlots' = TallyOf(res', Worker)
BY TallyIs DEF InSlots

(* Slots of workers that were not started do not matter to the merge. *)
LEMMA TallySlots ==
  ASSUME ThreadInv, ResultInv
  PROVE  Tally(Slots) = InSlots
<1> DEFINE S == 0 .. started - 1
<1>1. S \in SUBSET Worker /\ Worker \cap S = S /\ S = Slots
  BY ConcType DEF ThreadInv, Worker, Slots
<1>2. \A w \in Worker : w \notin S => res[w] = Zero
  <2>1. \A w \in Worker : w \notin S => wpc[w] = "unborn"
    BY ConcType DEF ThreadInv, Worker
  <2>2. QED
    BY <2>1 DEF ResultInv, SlotSound
<1>3. res \in [Worker -> Result]
  BY DEF ResultInv
<1>4. \A w \in Worker : w \notin S =>
        /\ res[w].attempts = 0 /\ res[w].success = 0 /\ res[w].failed = 0
        /\ res[w].total = 0 /\ res[w].maxRtt = 0
  BY <1>2 DEF Zero
<1> HIDE DEF S
<1>5. IsFiniteSet(Worker)
  BY WorkerFinite
<1>6. SumOf(res, "attempts", Worker) = SumOf(res, "attempts", S)
  <2>1. NatField(res, "attempts", Worker) /\ \A w \in Worker : w \notin S => res[w]["attempts"] = 0
    BY <1>3, <1>4, CountsOf
  <2>2. SumOf(res, "attempts", Worker) = SumOf(res, "attempts", Worker \cap S)
    BY <1>5, <2>1, SumOnly
  <2>3. QED BY <1>1, <2>2
<1>7. SumOf(res, "success", Worker) = SumOf(res, "success", S)
  <2>1. NatField(res, "success", Worker) /\ \A w \in Worker : w \notin S => res[w]["success"] = 0
    BY <1>3, <1>4, CountsOf
  <2>2. SumOf(res, "success", Worker) = SumOf(res, "success", Worker \cap S)
    BY <1>5, <2>1, SumOnly
  <2>3. QED BY <1>1, <2>2
<1>8. SumOf(res, "failed", Worker) = SumOf(res, "failed", S)
  <2>1. NatField(res, "failed", Worker) /\ \A w \in Worker : w \notin S => res[w]["failed"] = 0
    BY <1>3, <1>4, CountsOf
  <2>2. SumOf(res, "failed", Worker) = SumOf(res, "failed", Worker \cap S)
    BY <1>5, <2>1, SumOnly
  <2>3. QED BY <1>1, <2>2
<1>9. SumOf(res, "total", Worker) = SumOf(res, "total", S)
  <2>1. NatField(res, "total", Worker) /\ \A w \in Worker : w \notin S => res[w]["total"] = 0
    BY <1>3, <1>4, CountsOf
  <2>2. SumOf(res, "total", Worker) = SumOf(res, "total", Worker \cap S)
    BY <1>5, <2>1, SumOnly
  <2>3. QED BY <1>1, <2>2
<1>10. Mins(res, Worker) = Mins(res, S)
  <2>1. {v \in Worker : res[v].success > 0} = {v \in S : res[v].success > 0}
    BY <1>1, <1>4
  <2>2. QED
    BY <2>1 DEF Mins
<1>11. Maxs(res, Worker) \cup {0} = Maxs(res, S) \cup {0}
  BY <1>1, <1>4 DEF Maxs
<1>12. TallyOf(res, Worker) = TallyOf(res, S)
  BY <1>6, <1>7, <1>8, <1>9, <1>10, <1>11 DEF TallyOf
<1>13. QED
  BY <1>1, <1>12, TallyIs, TallyNow

-----------------------------------------------------------------------------
(* Arithmetic of an average between a minimum and a maximum.               *)

LEMMA Products == ASSUME NEW a \in Nat, NEW b \in Nat, NEW s \in Nat
                  PROVE  /\ a * s \in Nat /\ a * (s + 1) = a * s + a /\ a * 0 = 0
                         /\ a <= b => a * s <= b * s
<1>1. a * s \in Nat /\ a * (s + 1) = a * s + a /\ a * 0 = 0
  OBVIOUS
<1>2. ASSUME a <= b PROVE a * s <= b * s
  <2>1. PICK d \in Nat : b = a + d
    BY <1>2
  <2>2. b * s = a * s + d * s /\ d * s \in Nat /\ a * s \in Nat /\ b * s \in Nat
    BY <2>1
  <2>3. QED
    BY <2>2
<1>3. QED
  BY <1>1, <1>2

LEMMA AverageBounds ==
  ASSUME NEW lo \in Nat, NEW hi \in Nat, NEW s \in Nat, NEW t \in Nat, NEW x \in Nat,
         lo * s <= t, t <= hi * s
  PROVE  /\ (IF x < lo THEN x ELSE lo) * (s + 1) <= t + x
         /\ t + x <= (IF x > hi THEN x ELSE hi) * (s + 1)
<1>1. PICK m \in Nat : m = IF x < lo THEN x ELSE lo
  OBVIOUS
<1>2. PICK k \in Nat : k = IF x > hi THEN x ELSE hi
  OBVIOUS
<1>3. m * s <= lo * s /\ m * (s + 1) = m * s + m /\ m <= x /\ m * s \in Nat /\ lo * s \in Nat
  BY <1>1, Products
<1>4. hi * s <= k * s /\ k * (s + 1) = k * s + k /\ x <= k /\ k * s \in Nat /\ hi * s \in Nat
  BY <1>2, Products
<1>5. m * (s + 1) <= t + x
  BY <1>3
<1>6. t + x <= k * (s + 1)
  BY <1>4
<1>7. QED
  BY <1>1, <1>2, <1>5, <1>6

-----------------------------------------------------------------------------
(* What each step of a worker does to its slot.                            *)

LEMMA StartSlot ==
  ASSUME ThreadInv, ResultInv, NEW w \in Worker, Start(w)
  PROVE  /\ OneSlot(res, res', w) /\ SlotSound(w)'
         /\ InSlots' = InSlots
<1>1. res \in [Worker -> Result] /\ res[w] = Zero /\ DblMax \in Nat
  BY LoadTestAssumption DEF ResultInv, SlotSound, Start
<1>2. PICK p : p = [Zero EXCEPT !.minRtt = DblMax, !.maxRtt = 0]
  OBVIOUS
<1>3. /\ p \in Result /\ p = [Zero EXCEPT !.minRtt = DblMax]
      /\ p.success = 0 /\ p.total = 0 /\ p.maxRtt = 0 /\ p.minRtt = DblMax
  <2>1. PICK z : z = [Zero EXCEPT !.minRtt = DblMax]
    OBVIOUS
  <2>2. z = [attempts |-> 0, success |-> 0, failed |-> 0, total |-> 0,
             minRtt |-> DblMax, maxRtt |-> 0]
    BY <2>1 DEF Zero
  <2>3. [z EXCEPT !.maxRtt = 0] = z
    BY <2>2
  <2>4. p = z
    BY <1>2, <2>1, <2>3
  <2>5. QED
    BY <1>1, <2>1, <2>2, <2>4 DEF Result
<1>4. res' = [res EXCEPT ![w] = p]
  BY <1>1, <1>2 DEF Start
<1>5. OneSlot(res, res', w) /\ res'[w] = p
  BY <1>1, <1>3, <1>4 DEF OneSlot
<1>6. wpc'[w] \in {"dialling", "exited"}
  BY DEF Start, Test, ThreadInv
<1>7. SlotSound(w)'
  BY <1>3, <1>5, <1>6 DEF SlotSound
<1>8. InSlots' = InSlots
  BY <1>1, <1>3, <1>5, TallyStart, TallyNow
<1>9. QED
  BY <1>5, <1>7, <1>8

LEMMA LostSlot ==
  ASSUME ThreadInv, ResultInv, NEW w \in Worker, NEW lost \in {0, 1},
         (lost = 1 /\ Refused(w)) \/ (lost = 0 /\ Cut(w))
  PROVE  /\ OneSlot(res, res', w) /\ SlotSound(w)'
         /\ InSlots' = IF lost = 1 THEN Experiment!Lost(InSlots) ELSE Experiment!Cut(InSlots)
<1>1. res \in [Worker -> Result] /\ res[w] \in Result /\ SlotSound(w) /\ wpc[w] = "connecting"
  BY DEF ResultInv, Refused, Cut
<1>2. PICK old : old = res[w]
  OBVIOUS
<1>3. PICK p : p = [attempts |-> old.attempts + 1, success |-> old.success,
                    failed |-> old.failed + lost, total |-> old.total,
                    minRtt |-> old.minRtt, maxRtt |-> old.maxRtt]
  OBVIOUS
<1>4. PICK z : z = [old EXCEPT !.attempts = @ + 1]
  OBVIOUS
<1>5. z = [attempts |-> old.attempts + 1, success |-> old.success, failed |-> old.failed,
           total |-> old.total, minRtt |-> old.minRtt, maxRtt |-> old.maxRtt]
  BY <1>1, <1>2, <1>4 DEF Result
<1>6. p \in Result
  BY <1>1, <1>2, <1>3 DEF Result
<1>7. res' = [res EXCEPT ![w] = p]
  <2>1. CASE lost = 1 /\ Refused(w)
    <3>1. [z EXCEPT !.failed = @ + 1] = p
      BY <1>3, <1>5, <2>1
    <3>2. res' = [res EXCEPT ![w] = [z EXCEPT !.failed = @ + 1]]
      BY <1>1, <1>2, <1>4, <2>1 DEF Refused
    <3>3. QED BY <3>1, <3>2
  <2>2. CASE lost = 0 /\ Cut(w)
    <3>1. old.failed + lost = old.failed
      BY <1>1, <1>2, <2>2 DEF Result
    <3>2. z = p
      BY <1>3, <1>5, <3>1
    <3>3. QED
      BY <1>1, <1>2, <1>4, <2>2, <3>2 DEF Cut
  <2>3. QED BY <2>1, <2>2
<1>8. OneSlot(res, res', w) /\ res'[w] = p
  BY <1>1, <1>6, <1>7 DEF OneSlot
<1>9. wpc'[w] \in {"dialling", "exited"}
  BY DEF Refused, Cut, Test, ThreadInv
<1>10. SlotSound(w)'
  BY <1>1, <1>2, <1>3, <1>8, <1>9 DEF SlotSound
<1>11. TallyOf(res', Worker) = IF lost = 1 THEN Experiment!Lost(TallyOf(res, Worker))
                                          ELSE Experiment!Cut(TallyOf(res, Worker))
  BY <1>2, <1>3, <1>8, TallyLost
<1>12. QED
  BY <1>8, <1>10, <1>11, TallyNow

LEMMA WonSlot ==
  ASSUME ThreadInv, ResultInv, NEW w \in Worker, NEW rtt \in Rtts, Connected(w, rtt)
  PROVE  /\ OneSlot(res, res', w) /\ SlotSound(w)'
         /\ InSlots' = Experiment!Won(InSlots, rtt)
<1>1. res \in [Worker -> Result] /\ res[w] \in Result /\ SlotSound(w) /\ wpc[w] = "connecting"
  BY DEF ResultInv, Connected
<1>2. rtt \in Nat /\ rtt > 0 /\ rtt < DblMax /\ DblMax \in Nat
  BY LoadTestAssumption
<1>3. PICK old : old = res[w]
  OBVIOUS
<1>4. PICK m \in Nat : m = IF rtt < old.minRtt THEN rtt ELSE old.minRtt
  BY <1>1, <1>2, <1>3 DEF Result
<1>5. PICK k \in Nat : k = IF rtt > old.maxRtt THEN rtt ELSE old.maxRtt
  BY <1>1, <1>2, <1>3 DEF Result
<1>6. PICK p : p = [attempts |-> old.attempts + 1, success |-> old.success + 1,
                    failed |-> old.failed, total |-> old.total + rtt,
                    minRtt |-> m, maxRtt |-> k]
  OBVIOUS
<1>7. /\ p \in Result /\ p.attempts = old.attempts + 1 /\ p.failed = old.failed
      /\ p.success = old.success + 1 /\ p.total = old.total + rtt
      /\ p.minRtt = m /\ p.maxRtt = k
  BY <1>1, <1>2, <1>3, <1>6 DEF Result
<1>8. res' = [res EXCEPT ![w] = p]
  <2> DEFINE made(a, b, t, lo, hi) == [attempts |-> a, success |-> b, failed |-> old.failed,
                                       total |-> t, minRtt |-> lo, maxRtt |-> hi]
  <2>1. PICK a : a = made(old.attempts + 1, old.success, old.total, old.minRtt, old.maxRtt)
    OBVIOUS
  <2>2. PICK b : b = made(old.attempts + 1, old.success + 1, old.total, old.minRtt, old.maxRtt)
    OBVIOUS
  <2>3. PICK c : c = made(old.attempts + 1, old.success + 1, old.total + rtt, old.minRtt,
                          old.maxRtt)
    OBVIOUS
  <2>4. PICK d : d = made(old.attempts + 1, old.success + 1, old.total + rtt, m, old.maxRtt)
    OBVIOUS
  <2>5. [res EXCEPT ![w].attempts = old.attempts + 1] = [res EXCEPT ![w] = a]
    <3>1. [old EXCEPT !.attempts = old.attempts + 1] = a
      BY <1>1, <1>3, <2>1 DEF Result
    <3> HIDE DEF made
    <3>2. QED BY <1>1, <1>3, <3>1
  <2>6. [[res EXCEPT ![w] = a] EXCEPT ![w].success = old.success + 1] = [res EXCEPT ![w] = b]
    <3>1. [a EXCEPT !.success = old.success + 1] = b
      BY <2>1, <2>2
    <3> HIDE DEF made
    <3>2. QED BY <1>1, <3>1
  <2>7. [[res EXCEPT ![w] = b] EXCEPT ![w].total = old.total + rtt] = [res EXCEPT ![w] = c]
    <3>1. [b EXCEPT !.total = old.total + rtt] = c
      BY <2>2, <2>3
    <3> HIDE DEF made
    <3>2. QED BY <1>1, <3>1
  <2>8. [[res EXCEPT ![w] = c] EXCEPT ![w].minRtt = m] = [res EXCEPT ![w] = d]
    <3>1. [c EXCEPT !.minRtt = m] = d
      BY <2>3, <2>4
    <3> HIDE DEF made
    <3>2. QED BY <1>1, <3>1
  <2>9. [[res EXCEPT ![w] = d] EXCEPT ![w].maxRtt = k] = [res EXCEPT ![w] = p]
    <3>1. [d EXCEPT !.maxRtt = k] = p
      BY <1>6, <2>4
    <3> HIDE DEF made
    <3>2. QED BY <1>1, <3>1
  <2> HIDE DEF made
  <2>10. PICK f : f = [res EXCEPT ![w].attempts = old.attempts + 1]
    OBVIOUS
  <2>11. PICK g : g = [f EXCEPT ![w].success = old.success + 1]
    OBVIOUS
  <2>12. PICK h : h = [g EXCEPT ![w].total = old.total + rtt]
    OBVIOUS
  <2>13. PICK j : j = [h EXCEPT ![w].minRtt = m]
    OBVIOUS
  <2>14. res' = [j EXCEPT ![w].maxRtt = k]
    <3>1. res' = [res EXCEPT ![w].attempts = old.attempts + 1,
                             ![w].success = old.success + 1,
                             ![w].total = old.total + rtt, ![w].minRtt = m, ![w].maxRtt = k]
      BY <1>3, <1>4, <1>5 DEF Connected
    <3>2. QED BY <3>1, <2>10, <2>11, <2>12, <2>13
  <2>15. f = [res EXCEPT ![w] = a]
    BY <2>5, <2>10
  <2>16. g = [res EXCEPT ![w] = b]
    BY <2>6, <2>11, <2>15
  <2>17. h = [res EXCEPT ![w] = c]
    BY <2>7, <2>12, <2>16
  <2>18. j = [res EXCEPT ![w] = d]
    BY <2>8, <2>13, <2>17
  <2>19. QED
    BY <2>9, <2>14, <2>18
<1>9. OneSlot(res, res', w) /\ res'[w] = p
  BY <1>1, <1>7, <1>8 DEF OneSlot
<1>10. wpc'[w] \in {"dialling", "exited"}
  BY DEF Connected, Test, ThreadInv
<1>11. /\ old.success \in Nat /\ old.total \in Nat /\ old.minRtt \in Nat /\ old.maxRtt \in Nat
       /\ old.success = 0 => old.total = 0 /\ old.maxRtt = 0 /\ old.minRtt = DblMax
       /\ old.success # 0 => /\ old.minRtt \in Rtts /\ old.maxRtt \in Rtts
                             /\ old.minRtt * old.success <= old.total
                             /\ old.total <= old.maxRtt * old.success
  BY <1>1, <1>3 DEF SlotSound, Result
<1>12. /\ m \in Rtts /\ k \in Rtts
       /\ m * (old.success + 1) <= old.total + rtt
       /\ old.total + rtt <= k * (old.success + 1)
  <2>1. CASE old.success = 0
    BY <1>2, <1>4, <1>5, <1>11, <2>1
  <2>2. CASE old.success # 0
    BY <1>2, <1>4, <1>5, <1>11, <2>2, AverageBounds
  <2>3. QED BY <2>1, <2>2
<1>13. SlotSound(w)'
  <2>1. p.success # 0
    BY <1>7, <1>11
  <2>2. QED
    BY <1>7, <1>9, <1>10, <1>12, <2>1 DEF SlotSound
<1>14. InSlots' = Experiment!Won(InSlots, rtt)
  <2>1. TallyOf(res', Worker) = Experiment!Won(TallyOf(res, Worker), rtt)
    <3>1. /\ res'[w].attempts = res[w].attempts + 1 /\ res'[w].failed = res[w].failed
          /\ res'[w].success = res[w].success + 1 /\ res'[w].total = res[w].total + rtt
      BY <1>3, <1>7, <1>9
    <3>2. /\ res'[w].minRtt = IF rtt < res[w].minRtt THEN rtt ELSE res[w].minRtt
          /\ res'[w].maxRtt = IF rtt > res[w].maxRtt THEN rtt ELSE res[w].maxRtt
      BY <1>3, <1>4, <1>5, <1>7, <1>9
    <3>3. res[w].success = 0 => res[w].minRtt = DblMax
      BY <1>3, <1>11
    <3>4. QED
      BY <1>9, <3>1, <3>2, <3>3, TallyWon
  <2>2. QED
    BY <2>1, TallyNow
<1>15. QED
  BY <1>9, <1>13, <1>14

-----------------------------------------------------------------------------
(* The result.                                                             *)

LEMMA TallyOfZero ==
  ASSUME NEW r \in [Worker -> Result], \A w \in Worker : r[w] = Zero
  PROVE  TallyOf(r, Worker) = Zero
<1>1. IsFiniteSet(Worker)
  BY WorkerFinite
<1>2. \A w \in Worker : /\ r[w].attempts = 0 /\ r[w].success = 0 /\ r[w].failed = 0
                        /\ r[w].total = 0 /\ r[w].maxRtt = 0
  BY DEF Zero
<1>3. SumOf(r, "attempts", Worker) = 0
  <2>1. NatField(r, "attempts", Worker) /\ \A w \in Worker : r[w]["attempts"] = 0
    BY <1>2, CountsOf
  <2>2. QED BY <1>1, <2>1, SumZero
<1>4. SumOf(r, "success", Worker) = 0
  <2>1. NatField(r, "success", Worker) /\ \A w \in Worker : r[w]["success"] = 0
    BY <1>2, CountsOf
  <2>2. QED BY <1>1, <2>1, SumZero
<1>5. SumOf(r, "failed", Worker) = 0
  <2>1. NatField(r, "failed", Worker) /\ \A w \in Worker : r[w]["failed"] = 0
    BY <1>2, CountsOf
  <2>2. QED BY <1>1, <2>1, SumZero
<1>6. SumOf(r, "total", Worker) = 0
  <2>1. NatField(r, "total", Worker) /\ \A w \in Worker : r[w]["total"] = 0
    BY <1>2, CountsOf
  <2>2. QED BY <1>1, <2>1, SumZero
<1>7. IsMin(0, r, Worker)
  BY <1>2 DEF IsMin
<1>8. IsMax(0, r, Worker)
  BY <1>2 DEF IsMax
<1>9. TallyOf(r, Worker) = [attempts |-> 0, success |-> 0, failed |-> 0, total |-> 0,
                            minRtt |-> 0, maxRtt |-> 0]
  BY <1>3, <1>4, <1>5, <1>6, <1>7, <1>8, TallyIsThat
<1>10. QED
  BY <1>9 DEF Zero

LEMMA InitResult == Init => ResultInv /\ InSlots = Zero
<1> SUFFICES ASSUME Init PROVE ResultInv /\ InSlots = Zero
  OBVIOUS
<1>1. res \in [Worker -> Result] /\ \A w \in Worker : res[w] = Zero
  BY DEF Init, Zero, Result
<1>2. InSlots = Zero
  BY <1>1, TallyOfZero, TallyNow
<1>3. \A w \in Worker : SlotSound(w)
  BY <1>1 DEF SlotSound, Zero, Init
<1>4. Exited = {}
  BY DEF Init, Exited
<1>5. InSlots.attempts = InSlots.success + InSlots.failed + cut
  BY <1>2 DEF Zero, Init
<1>6. cut = 0 /\ cut <= Cardinality(Exited)
  <2>1. Cardinality(Exited) = 0
    BY <1>4, FS_EmptySet
  <2>2. QED
    BY <2>1 DEF Init
<1>7. QED
  <2>1. /\ expired \in BOOLEAN /\ interrupted \in BOOLEAN
        /\ pc # "returned" /\ ret = 1 /\ cut \in Nat
    BY DEF Init
  <2>2. QED
    BY <1>1, <1>2, <1>3, <1>4, <1>5, <1>6, <2>1 DEF ResultInv

LEMMA ExitedFinite ==
  ASSUME NEW E \in SUBSET Worker, NEW w \in Worker, w \notin E
  PROVE  /\ Cardinality(E) \in Nat
         /\ Cardinality(E \cup {w}) = Cardinality(E) + 1
<1>1. IsFiniteSet(E)
  BY WorkerFinite, FS_Subset
<1>2. QED
  BY <1>1, FS_CardinalityType, FS_AddElement

(* A step of a worker: what it counts is what the tally gains. *)
LEMMA WorkerResult ==
  ASSUME ThreadInv, ResultInv, NEW w \in Worker, WorkerStep(w)
  PROVE  ResultInv'
<1>1. /\ wpc \in [Worker -> {"unborn", "born", "dialling", "connecting", "exited"}]
      /\ wpc[w] \in {"born", "dialling", "connecting"}
      /\ \E s \in {"dialling", "connecting", "exited"} : wpc' = [wpc EXCEPT ![w] = s]
      /\ UNCHANGED <<pc, n, started, out, ret, expired, interrupted>>
  BY DEF WorkerStep, Start, Dial, Refused, Cut, Connected, Test, ThreadInv
<1>2. wpc'[w] = "exited" => expired \/ interrupted
  BY <1>1 DEF WorkerStep, Start, Dial, Refused, Cut, Connected, Test
<1>3. pc # "returned"
  BY <1>1 DEF ThreadInv, SlotsOwned
<1>4. /\ res \in [Worker -> Result] /\ cut \in Nat /\ TallyOf(res, Worker) \in Result
      /\ InSlots = TallyOf(res, Worker)
      /\ InSlots.attempts = InSlots.success + InSlots.failed + cut
      /\ cut <= Cardinality(Exited) /\ (~interrupted => cut = 0)
  BY TallyType, TallyNow DEF ResultInv
<1>5. InSlots \in Result
  BY <1>4
<1>6. /\ OneSlot(res, res', w) /\ SlotSound(w)'
      /\ cut' \in {cut, cut + 1}
      /\ cut' # cut => interrupted /\ wpc'[w] = "exited"
      /\ InSlots'.attempts = InSlots'.success + InSlots'.failed + cut'
  <2>1. CASE Start(w)
    BY <1>4, <2>1, StartSlot DEF Start
  <2>2. CASE Dial(w)
    <3>1. OneSlot(res, res', w) /\ InSlots' = InSlots
      BY <1>4, <2>2, TallyNow DEF Dial, OneSlot
    <3>2. SlotSound(w)'
      BY <1>1, <2>2 DEF Dial, ResultInv, SlotSound
    <3>3. QED
      BY <1>4, <2>2, <3>1, <3>2 DEF Dial
  <2>3. CASE Refused(w)
    <3>1. OneSlot(res, res', w) /\ SlotSound(w)' /\ InSlots' = Experiment!Lost(InSlots)
      BY <2>3, LostSlot
    <3>2. Experiment!Lost(InSlots) =
           [attempts |-> InSlots.attempts + 1, success |-> InSlots.success,
            failed |-> InSlots.failed + 1,
            total |-> InSlots.total, minRtt |-> InSlots.minRtt, maxRtt |-> InSlots.maxRtt]
      BY <1>5, LostIs
    <3>3. /\ InSlots'.attempts = InSlots.attempts + 1 /\ InSlots'.success = InSlots.success
          /\ InSlots'.failed = InSlots.failed + 1
      BY <3>1, <3>2
    <3>4. /\ InSlots.attempts \in Nat /\ InSlots.success \in Nat /\ InSlots.failed \in Nat
      BY <1>5 DEF Result
    <3>5. QED
      BY <1>4, <2>3, <3>1, <3>3, <3>4 DEF Refused
  <2>4. CASE Cut(w)
    <3>1. OneSlot(res, res', w) /\ SlotSound(w)' /\ InSlots' = Experiment!Cut(InSlots)
      BY <2>4, LostSlot
    <3>2. /\ InSlots'.attempts = InSlots.attempts + 1 /\ InSlots'.success = InSlots.success
          /\ InSlots'.failed = InSlots.failed
      BY <1>5, <3>1 DEF Experiment!Cut, Result
    <3>3. /\ InSlots.attempts \in Nat /\ InSlots.success \in Nat /\ InSlots.failed \in Nat
      BY <1>5 DEF Result
    <3>4. wpc'[w] = "exited" /\ interrupted /\ cut' = cut + 1
      BY <1>1, <2>4 DEF Cut
    <3>5. QED
      BY <1>4, <3>1, <3>2, <3>3, <3>4
  <2>5. CASE \E rtt \in Rtts : Connected(w, rtt)
    <3>0. PICK rtt \in Rtts : Connected(w, rtt)
      BY <2>5
    <3>1. OneSlot(res, res', w) /\ SlotSound(w)' /\ InSlots' = Experiment!Won(InSlots, rtt)
      BY <3>0, WonSlot
    <3>2. /\ InSlots'.attempts = InSlots.attempts + 1 /\ InSlots'.success = InSlots.success + 1
          /\ InSlots'.failed = InSlots.failed
      BY <3>1 DEF Experiment!Won
    <3>3. /\ InSlots.attempts \in Nat /\ InSlots.success \in Nat /\ InSlots.failed \in Nat
      BY <1>5 DEF Result
    <3>4. QED
      BY <1>4, <3>0, <3>1, <3>2, <3>3 DEF Connected
  <2>6. QED BY <2>1, <2>2, <2>3, <2>4, <2>5 DEF WorkerStep
<1>7. res' \in [Worker -> Result] /\ \A v \in Worker : SlotSound(v)'
  <2>1. res' \in [Worker -> Result]
    BY <1>6 DEF OneSlot
  <2>2. \A v \in Worker : v # w => res'[v] = res[v] /\ wpc'[v] = wpc[v]
    BY <1>1, <1>6 DEF OneSlot
  <2>3. ASSUME NEW v \in Worker PROVE SlotSound(v)'
    <3>1. CASE v = w
      BY <1>6, <3>1
    <3>2. CASE v # w
      BY <2>2, <3>2 DEF ResultInv, SlotSound
    <3>3. QED BY <3>1, <3>2
  <2>4. QED BY <2>1, <2>3
<1>8. /\ Exited \in SUBSET Worker /\ w \notin Exited
      /\ Exited' = IF wpc'[w] = "exited" THEN Exited \cup {w} ELSE Exited
  BY <1>1 DEF Exited
<1>9. Cardinality(Exited) \in Nat /\ Cardinality(Exited \cup {w}) = Cardinality(Exited) + 1
  BY <1>8, ExitedFinite
<1>10. cut' \in Nat /\ cut' <= Cardinality(Exited') /\ (~interrupted' => cut' = 0)
  <2>1. cut' \in Nat /\ (~interrupted' => cut' = 0)
    BY <1>1, <1>4, <1>6
  <2>2. CASE wpc'[w] = "exited"
    <3>1. Exited' = Exited \cup {w}
      BY <1>8, <2>2
    <3>2. Cardinality(Exited') = Cardinality(Exited) + 1
      BY <1>9, <3>1
    <3>3. cut' <= Cardinality(Exited) + 1
      BY <1>4, <1>6, <1>9
    <3>4. QED
      BY <2>1, <3>2, <3>3
  <2>3. CASE wpc'[w] # "exited"
    <3>1. Exited' = Exited /\ cut' = cut
      BY <1>6, <1>8, <2>3
    <3>2. Cardinality(Exited') = Cardinality(Exited)
      BY <3>1
    <3>3. QED
      BY <1>4, <2>1, <3>1, <3>2
  <2>4. QED BY <2>1, <2>2, <2>3
<1>11. Exited' # {} => expired' \/ interrupted'
  BY <1>1, <1>2, <1>8 DEF ResultInv
<1>12. /\ expired' \in BOOLEAN /\ interrupted' \in BOOLEAN
       /\ pc' # "returned" /\ ret' = 1
  BY <1>1, <1>3 DEF ResultInv
<1>13. QED
  BY <1>6, <1>7, <1>10, <1>11, <1>12 DEF ResultInv

(* A step that leaves the slots alone, and does not wake a worker. *)
LEMMA QuietResult ==
  ASSUME ResultInv, UNCHANGED <<res, cut>>, Exited' = Exited,
         \A w \in Worker : wpc'[w] = wpc[w] \/ (wpc[w] = "unborn" /\ wpc'[w] = "born"),
         expired' \in BOOLEAN, interrupted' \in BOOLEAN,
         expired => expired', interrupted => interrupted',
         IF pc' = "returned" THEN ret' \in {0, -1} /\ (ret' = 0 => out' = InSlots)
                             ELSE ret' = 1
  PROVE  ResultInv' /\ InSlots' = InSlots
<1>1. InSlots' = InSlots
  BY TallyNow
<1>2. \A w \in Worker : SlotSound(w)'
  BY DEF ResultInv, SlotSound
<1>3. QED
  BY <1>1, <1>2 DEF ResultInv

LEMMA OtherResult ==
  ASSUME ThreadInv, ResultInv, Main \/ Tick \/ Interrupt \/ Returned \/ UNCHANGED vars
  PROVE  ResultInv' /\ InSlots' = InSlots
<1>1. CASE Alloc
  BY <1>1, QuietResult DEF Alloc, ResultInv, Exited
<1>2. CASE Spawn
  <2>1. n \in Worker /\ wpc[n] = "unborn" /\ pc # "returned"
    BY <1>2, ConcType DEF Spawn, ThreadInv, Worker
  <2>2. wpc' = wpc \/ wpc' = [wpc EXCEPT ![n] = "born"]
    BY <1>2 DEF Spawn
  <2>3. /\ Exited' = Exited
        /\ \A w \in Worker : wpc'[w] = wpc[w] \/ (wpc[w] = "unborn" /\ wpc'[w] = "born")
    BY <2>1, <2>2 DEF ThreadInv, Exited
  <2>4. pc' # "returned" /\ UNCHANGED <<res, cut, expired, interrupted, ret>>
    BY <1>2, <2>1 DEF Spawn, AfterSpawn
  <2>5. QED
    BY <2>1, <2>3, <2>4, QuietResult DEF ResultInv
<1>3. CASE Progress
  BY <1>3, QuietResult DEF Progress, ResultInv, Exited
<1>4. CASE Join
  BY <1>4, QuietResult DEF Join, ResultInv, Exited
<1>5. CASE Merge
  <2>1. out' = InSlots
    BY <1>5, TallySlots DEF Merge
  <2>2. QED
    BY <1>5, <2>1, QuietResult DEF Merge, ResultInv, Exited
<1>6. CASE Tick \/ Interrupt
  BY <1>6, QuietResult DEF Tick, Interrupt, ResultInv, Exited
<1>7. CASE Returned \/ UNCHANGED vars
  BY <1>7, QuietResult DEF Returned, vars, ResultInv, Exited
<1>8. QED
  BY <1>1, <1>2, <1>3, <1>4, <1>5, <1>6, <1>7 DEF Main

LEMMA NextResult == ThreadInv /\ ResultInv /\ [Next]_vars => ResultInv'
BY WorkerResult, OtherResult DEF Next

LEMMA ResultIsSound == ThreadInv /\ ResultInv => ResultSound
<1> SUFFICES ASSUME ThreadInv, ResultInv, pc = "returned", ret = 0 PROVE ResultSound
  BY DEF ResultSound
<1> DEFINE t == TallyOf(res, Worker)
<1>1. /\ res \in [Worker -> Result] /\ cut \in Nat
      /\ out = t /\ t \in Result
      /\ t.attempts = t.success + t.failed + cut
      /\ cut <= Cardinality(Exited) /\ (~interrupted => cut = 0)
  BY TallyNow, TallyType DEF ResultInv
<1>2. cut <= started
  <2> DEFINE S == 0 .. started - 1
  <2>1. started \in Nat /\ Exited \in SUBSET S
    BY ConcType DEF ThreadInv, Exited, Worker
  <2>2. IsFiniteSet(S) /\ Cardinality(S) = started
    BY <2>1, FS_Interval
  <2>3. IsFiniteSet(Exited) /\ Cardinality(Exited) <= started /\ Cardinality(Exited) \in Nat
    BY <2>1, <2>2, FS_Subset, FS_CardinalityType
  <2>4. QED
    BY <1>1, <2>1, <2>3
<1>3. t.success = SumOf(res, "success", Worker) /\ t.total = SumOf(res, "total", Worker)
  BY DEF TallyOf
<1>4. SumOf(res, "success", Worker) = MapThenSumSet(LAMBDA w : res[w].success, Worker)
  BY DEF SumOf, MapThenSumSet, MapThenFoldSet
<1>5. IsMin(t.minRtt, res, Worker) /\ IsMax(t.maxRtt, res, Worker)
  BY <1>1, TallyMinMax
<1>6. IsFiniteSet(Worker) /\ NatField(res, "success", Worker) /\ NatField(res, "total", Worker)
  BY <1>1, CountsOf
<1>7. \A w \in Worker :
        /\ res[w].success \in Nat /\ res[w].total \in Nat
        /\ res[w].minRtt \in Nat /\ res[w].maxRtt \in Nat
        /\ res[w].success = 0 => res[w].total = 0 /\ res[w].maxRtt = 0
        /\ res[w].success # 0 => /\ res[w].minRtt \in Rtts /\ res[w].maxRtt \in Rtts
                                 /\ res[w].minRtt * res[w].success <= res[w].total
                                 /\ res[w].total <= res[w].maxRtt * res[w].success
  <2> HIDE DEF t
  <2> QED BY <1>1 DEF ResultInv, SlotSound, Result
<1>8. t.minRtt \in Nat /\ t.maxRtt \in Nat /\ t.success \in Nat /\ t.total \in Nat
  BY <1>1 DEF Result
<1> HIDE DEF t
<1>9. CASE t.success = 0
  <2>1. \A w \in Worker : res[w].success = 0
    BY <1>3, <1>6, <1>9, SumZero
  <2>2. t.minRtt = 0
    BY <1>5, <2>1 DEF IsMin
  <2>3. t.maxRtt = 0
    BY <1>5, <1>7, <2>1 DEF IsMax
  <2>4. t.total = 0
    <3>1. \A w \in Worker : res[w]["total"] = 0
      BY <1>7, <2>1
    <3>2. QED
      BY <1>3, <1>6, <3>1, SumZero
  <2>5. QED
    BY <1>1, <1>2, <1>3, <1>4, <1>9, <2>2, <2>3, <2>4 DEF ResultSound
<1>10. CASE t.success # 0
  <2>1. PICK v \in Worker : res[v].success # 0
    BY <1>3, <1>6, <1>10, SumZero
  <2>2. PICK u \in Worker : res[u].success > 0 /\ t.minRtt = res[u].minRtt
    BY <1>5, <1>7, <2>1 DEF IsMin
  <2>3. \A w \in Worker : res[w].success > 0 => t.minRtt <= res[w].minRtt
    BY <1>5, <2>2 DEF IsMin
  <2>4. \A w \in Worker : res[w].maxRtt <= t.maxRtt
    BY <1>5 DEF IsMax
  <2>5. t.minRtt \in Rtts
    BY <1>7, <2>2
  <2>6. t.maxRtt \in Rtts
    <3>1. res[v].maxRtt > 0 /\ t.maxRtt # 0
      BY <1>7, <1>8, <2>1, <2>4, LoadTestAssumption
    <3>2. PICK x \in Worker : t.maxRtt = res[x].maxRtt
      BY <1>5, <3>1 DEF IsMax
    <3>3. QED
      BY <1>7, <3>1, <3>2
  <2>7. \A w \in Worker : t.minRtt * res[w].success <= res[w].total
    <3> SUFFICES ASSUME NEW w \in Worker PROVE t.minRtt * res[w].success <= res[w].total
      OBVIOUS
    <3>1. CASE res[w].success = 0
      BY <1>7, <1>8, <3>1
    <3>2. CASE res[w].success # 0
      <4>1. t.minRtt <= res[w].minRtt
        BY <1>7, <2>3, <3>2
      <4>2. t.minRtt * res[w].success <= res[w].minRtt * res[w].success
        BY <1>7, <1>8, <4>1, Products
      <4>3. /\ res[w].minRtt * res[w].success <= res[w].total
            /\ t.minRtt * res[w].success \in Nat /\ res[w].minRtt * res[w].success \in Nat
            /\ res[w].total \in Nat
        BY <1>7, <1>8, <3>2, Products
      <4>4. QED
        BY <4>2, <4>3
    <3>3. QED BY <3>1, <3>2
  <2>8. \A w \in Worker : res[w].total <= t.maxRtt * res[w].success
    <3> SUFFICES ASSUME NEW w \in Worker PROVE res[w].total <= t.maxRtt * res[w].success
      OBVIOUS
    <3>1. CASE res[w].success = 0
      BY <1>7, <1>8, <3>1
    <3>2. CASE res[w].success # 0
      <4>1. res[w].maxRtt * res[w].success <= t.maxRtt * res[w].success
        BY <1>7, <1>8, <2>4, Products
      <4>2. /\ res[w].total <= res[w].maxRtt * res[w].success
            /\ t.maxRtt * res[w].success \in Nat /\ res[w].maxRtt * res[w].success \in Nat
            /\ res[w].total \in Nat
        BY <1>7, <1>8, <3>2, Products
      <4>3. QED
        BY <4>1, <4>2
    <3>3. QED BY <3>1, <3>2
  <2>9. t.minRtt * t.success <= t.total
    <3>1. \A w \in Worker : t.minRtt * res[w]["success"] <= res[w]["total"]
      BY <2>7
    <3>2. t.minRtt * SumOf(res, "success", Worker) <= SumOf(res, "total", Worker)
      BY <1>6, <1>8, <3>1, SumScaled
    <3>3. QED BY <1>3, <3>2
  <2>10. t.total <= t.maxRtt * t.success
    <3>1. \A w \in Worker : res[w]["total"] <= t.maxRtt * res[w]["success"]
      BY <2>8
    <3>2. SumOf(res, "total", Worker) <= t.maxRtt * SumOf(res, "success", Worker)
      BY <1>6, <1>8, <3>1, SumScaled
    <3>3. QED BY <1>3, <3>2
  <2>11. QED
    BY <1>1, <1>2, <1>3, <1>4, <1>10, <2>5, <2>6, <2>9, <2>10 DEF ResultSound
<1>11. QED
  BY <1>9, <1>10

THEOREM ResultIsOfTheRun == Spec => []ResultSound
<1>1. Init => ThreadInv /\ ResultInv
  BY InitThread, InitResult
<1>2. ThreadInv /\ ResultInv /\ [Next]_vars => (ThreadInv /\ ResultInv)'
  BY NextThread, NextResult
<1>3. ThreadInv /\ ResultInv => ResultSound
  BY ResultIsSound
<1>4. QED
  BY <1>1, <1>2, <1>3, PTL DEF Spec

-----------------------------------------------------------------------------
(* One experiment.                                                         *)

(* The connections that are open. *)
Open == {w \in Worker : wpc[w] \in {"dialling", "connecting"}}

LEMMA OpenCount ==
  ASSUME NEW E \in SUBSET Worker, NEW w \in Worker
  PROVE  /\ Cardinality(E) \in Nat
         /\ w \notin E => /\ Cardinality(E) < Conc
                          /\ Cardinality(E \cup {w}) = Cardinality(E) + 1
         /\ w \in E => /\ Cardinality(E) > 0
                       /\ Cardinality(E \ {w}) = Cardinality(E) - 1
<1>1. IsFiniteSet(E) /\ Cardinality(E) \in Nat
  BY WorkerFinite, FS_Subset, FS_CardinalityType
<1>2. IsFiniteSet(Worker) /\ Cardinality(Worker) = Conc
  BY ConcType, FS_Interval DEF Worker
<1>3. ASSUME w \notin E
      PROVE  Cardinality(E) < Conc /\ Cardinality(E \cup {w}) = Cardinality(E) + 1
  <2>1. Cardinality(E \cup {w}) = Cardinality(E) + 1
    BY <1>1, <1>3, FS_AddElement
  <2>2. Cardinality(E \cup {w}) <= Cardinality(Worker)
    BY <1>2, FS_Subset
  <2>3. QED
    BY <1>1, <1>2, <2>1, <2>2, ConcType
<1>4. ASSUME w \in E
      PROVE  Cardinality(E) > 0 /\ Cardinality(E \ {w}) = Cardinality(E) - 1
  <2>1. Cardinality(E \ {w}) = Cardinality(E) - 1
    BY <1>1, <1>4, FS_RemoveElement
  <2>2. Cardinality(E \ {w}) \in Nat
    BY <1>1, FS_RemoveElement, FS_CardinalityType
  <2>3. QED
    BY <1>1, <2>1, <2>2
<1>5. QED
  BY <1>1, <1>3, <1>4

(* The variables of the experiment in terms of the run. *)
LEMMA Mapped ==
  /\ Experiment!Next <=>
       (Experiment!Stop \/ Experiment!Begin \/ Experiment!End \/ Experiment!Return \/ Experiment!Fail)
BY DEF Experiment!Next

(* The experiment begins empty, with nothing open. *)
LEMMA NothingOpen ==
  ASSUME ThreadInv, \A w \in Worker : wpc[w] \in {"unborn", "exited"}
  PROVE  Cardinality(Open) = 0
<1>1. Open = {}
  BY DEF Open
<1>2. QED
  BY <1>1, FS_EmptySet

LEMMA NothingCounted ==
  ASSUME ResultInv, \A w \in Worker : wpc[w] = "unborn"
  PROVE  InSlots = Zero
<1>1. res \in [Worker -> Result] /\ \A w \in Worker : res[w] = Zero
  BY DEF ResultInv, SlotSound
<1>2. QED
  BY <1>1, TallyOfZero, TallyNow

LEMMA ExperimentInit == Init => Experiment!Init
<1> SUFFICES ASSUME Init PROVE Experiment!Init
  OBVIOUS
<1>1. ThreadInv /\ InSlots = Zero
  BY InitThread, InitResult
<1>2. Cardinality(Open) = 0
  BY <1>1, NothingOpen DEF Init
<1>3. QED
  BY <1>1, <1>2 DEF Init, Experiment!Init, Experiment!Zero, Zero, Open

(* A connection that ends closes, or its worker begins the next. *)
LEMMA ExperimentEnd ==
  ASSUME ThreadInv, ResultInv, NEW w \in Worker, wpc[w] = "connecting",
         UNCHANGED <<pc, out, ret, expired, interrupted>>,
         \/ wpc' = [wpc EXCEPT ![w] = "exited"]
         \/ ~(expired \/ interrupted) /\ wpc' = [wpc EXCEPT ![w] = "dialling"],
         \/ \E rtt \in Rtts : InSlots' = Experiment!Won(InSlots, rtt)
         \/ InSlots' = Experiment!Lost(InSlots)
         \/ interrupted /\ InSlots' = Experiment!Cut(InSlots)
  PROVE  Experiment!End
<1>1. wpc \in [Worker -> {"unborn", "born", "dialling", "connecting", "exited"}]
  BY DEF ThreadInv
<1>2. Open \in SUBSET Worker /\ w \in Open
  BY DEF Open
<1>3. Cardinality(Open) > 0 /\ Cardinality(Open \ {w}) = Cardinality(Open) - 1
  BY <1>2, OpenCount
<1>4. \/ Cardinality(Open') = Cardinality(Open) - 1
      \/ ~(expired \/ interrupted) /\ Cardinality(Open') = Cardinality(Open)
  <2>1. CASE wpc' = [wpc EXCEPT ![w] = "exited"]
    <3>1. Open' = Open \ {w}
      BY <1>1, <2>1 DEF Open
    <3>2. QED BY <1>3, <3>1
  <2>2. CASE ~(expired \/ interrupted) /\ wpc' = [wpc EXCEPT ![w] = "dialling"]
    <3>1. Open' = Open
      BY <1>1, <2>2 DEF Open
    <3>2. QED BY <2>2, <3>1
  <2>3. QED BY <2>1, <2>2
<1>5. QED
  BY <1>3, <1>4 DEF Experiment!End, Open

LEMMA ExperimentWorker ==
  ASSUME ThreadInv, ResultInv, NEW w \in Worker, WorkerStep(w)
  PROVE  [Experiment!Next]_(Experiment!loadVars)
<1>1. /\ wpc \in [Worker -> {"unborn", "born", "dialling", "connecting", "exited"}]
      /\ Open \in SUBSET Worker
  BY DEF ThreadInv, Open
<1>2. pc # "returned" /\ UNCHANGED <<pc, out, ret, expired, interrupted>>
  BY DEF WorkerStep, Start, Dial, Refused, Cut, Connected, ThreadInv, SlotsOwned
<1>3. CASE Start(w)
  <2>1. InSlots' = InSlots /\ w \notin Open
    BY <1>3, StartSlot DEF Start, Open
  <2>2. CASE wpc' = [wpc EXCEPT ![w] = "exited"]
    <3>1. Open' = Open
      BY <1>1, <1>3, <2>2 DEF Open, Start
    <3>2. QED
      BY <1>2, <2>1, <3>1 DEF Experiment!loadVars, Open
  <2>3. CASE ~(expired \/ interrupted) /\ wpc' = [wpc EXCEPT ![w] = "dialling"]
    <3>1. Open' = Open \cup {w}
      BY <1>1, <2>3 DEF Open
    <3>2. Cardinality(Open) < Conc /\ Cardinality(Open') = Cardinality(Open) + 1
      BY <1>1, <2>1, <3>1, OpenCount
    <3>3. Experiment!Begin
      BY <1>2, <2>1, <2>3, <3>2 DEF Experiment!Begin, Open
    <3>4. QED
      BY <3>3, Mapped
  <2>4. QED
    BY <1>3, <2>2, <2>3 DEF Start, Test
<1>4. CASE Dial(w)
  <2>1. InSlots' = InSlots
    BY <1>4, TallyNow DEF Dial
  <2>2. Open' = Open
    BY <1>1, <1>4 DEF Dial, Open
  <2>3. QED
    BY <1>2, <2>1, <2>2 DEF Experiment!loadVars, Open
<1>5. CASE Refused(w)
  <2>1. InSlots' = Experiment!Lost(InSlots)
    BY <1>5, LostSlot
  <2>2. Experiment!End
    BY <1>2, <1>5, <2>1, ExperimentEnd DEF Refused, Test
  <2>3. QED BY <2>2, Mapped
<1>6. CASE Cut(w)
  <2>1. InSlots' = Experiment!Cut(InSlots)
    BY <1>6, LostSlot
  <2>2. Experiment!End
    BY <1>2, <1>6, <2>1, ExperimentEnd DEF Cut
  <2>3. QED BY <2>2, Mapped
<1>7. CASE \E rtt \in Rtts : Connected(w, rtt)
  <2>1. PICK rtt \in Rtts : Connected(w, rtt)
    BY <1>7
  <2>2. InSlots' = Experiment!Won(InSlots, rtt)
    BY <2>1, WonSlot
  <2>3. Experiment!End
    BY <1>2, <2>1, <2>2, ExperimentEnd DEF Connected, Test
  <2>4. QED BY <2>3, Mapped
<1>8. QED
  BY <1>3, <1>4, <1>5, <1>6, <1>7 DEF WorkerStep

(* The main thread: it fails before anything began, or returns the tally when
   nothing is open. *)
LEMMA ExperimentMain ==
  ASSUME ThreadInv, ResultInv, Main
  PROVE  [Experiment!Next]_(Experiment!loadVars)
<1>1. InSlots' = InSlots
  BY OtherResult
<1>2. CASE Alloc
  <2>1. CASE pc' = "returned" /\ ret' = -1
    <3>1. \A w \in Worker : wpc[w] = "unborn"
      BY <1>2, ConcType DEF Alloc, ThreadInv, Worker
    <3>2. Cardinality(Open) = 0 /\ InSlots = Zero
      BY <3>1, NothingOpen, NothingCounted
    <3>3. Open' = Open
      BY <1>2 DEF Alloc, Open
    <3>4. Experiment!Fail
      BY <1>1, <1>2, <2>1, <3>2, <3>3 DEF Alloc, Experiment!Fail, Experiment!Zero, Zero, Open
    <3>5. QED BY <3>4, Mapped
  <2>2. CASE pc' = "spawn" /\ UNCHANGED ret
    BY <1>1, <1>2, <2>2 DEF Alloc, Experiment!loadVars
  <2>3. QED BY <1>2, <2>1, <2>2 DEF Alloc
<1>3. CASE Spawn
  <2>1. n \in Worker /\ wpc[n] = "unborn"
    BY <1>3, ConcType DEF Spawn, ThreadInv, Worker
  <2>2. wpc' = wpc \/ wpc' = [wpc EXCEPT ![n] = "born"]
    BY <1>3 DEF Spawn
  <2>3. Open' = Open
    BY <2>1, <2>2 DEF ThreadInv, Open
  <2>4. pc # "returned" /\ pc' # "returned" /\ UNCHANGED <<out, ret, expired, interrupted>>
    BY <1>3 DEF Spawn, AfterSpawn
  <2>5. QED
    BY <1>1, <2>3, <2>4 DEF Experiment!loadVars, Open
<1>4. CASE Progress \/ Join
  BY <1>1, <1>4 DEF Progress, Join, Experiment!loadVars
<1>5. CASE Merge
  <2>1. \A w \in Worker : wpc[w] \in {"unborn", "exited"}
    BY <1>5 DEF Merge, ThreadInv, SlotsOwned
  <2>2. Cardinality(Open) = 0
    BY <2>1, NothingOpen
  <2>3. expired \/ interrupted \/ InSlots = Zero
    <3>1. CASE Exited # {}
      BY <3>1 DEF ResultInv
    <3>2. CASE Exited = {}
      <4>1. \A w \in Worker : wpc[w] = "unborn"
        BY <2>1, <3>2 DEF Exited
      <4>2. QED BY <4>1, NothingCounted
    <3>3. QED BY <3>1, <3>2
  <2>4. out' = InSlots
    BY <1>5, TallySlots DEF Merge
  <2>5. Open' = Open
    BY <1>5 DEF Merge, Open
  <2>6. Experiment!Return
    BY <1>1, <1>5, <2>2, <2>3, <2>4, <2>5
    DEF Merge, Experiment!Return, Experiment!Zero, Zero, Open
  <2>7. QED BY <2>6, Mapped
<1>6. QED
  BY <1>2, <1>3, <1>4, <1>5 DEF Main

LEMMA ExperimentNext ==
  ThreadInv /\ ResultInv /\ [Next]_vars => [Experiment!Next]_(Experiment!loadVars)
<1> SUFFICES ASSUME ThreadInv, ResultInv, [Next]_vars
             PROVE  [Experiment!Next]_(Experiment!loadVars)
  OBVIOUS
<1>1. CASE Main
  BY <1>1, ExperimentMain
<1>2. CASE \E w \in Worker : WorkerStep(w)
  BY <1>2, ExperimentWorker
<1>3. CASE Tick \/ Interrupt
  <2>1. InSlots' = InSlots
    BY <1>3, OtherResult
  <2>2. CASE expired \/ interrupted
    BY <1>3, <2>1, <2>2 DEF Tick, Interrupt, Experiment!loadVars
  <2>3. CASE ~(expired \/ interrupted)
    <3>1. Experiment!Stop
      BY <1>3, <2>1, <2>3 DEF Tick, Interrupt, Experiment!Stop
    <3>2. QED BY <3>1, Mapped
  <2>4. QED BY <2>2, <2>3
<1>4. CASE Returned \/ UNCHANGED vars
  <2>1. InSlots' = InSlots
    BY <1>4, OtherResult
  <2>2. QED
    BY <1>4, <2>1 DEF Returned, vars, Experiment!loadVars
<1>5. QED
  BY <1>1, <1>2, <1>3, <1>4 DEF Next

THEOREM LoadTestIsAnExperiment == Spec => Experiment!SafeSpec
<1>1. Init => ThreadInv /\ ResultInv
  BY InitThread, InitResult
<1>2. ThreadInv /\ ResultInv /\ [Next]_vars => (ThreadInv /\ ResultInv)'
  BY NextThread, NextResult
<1>3. QED
  BY <1>1, <1>2, ExperimentInit, ExperimentNext, PTL DEF Spec, Experiment!SafeSpec
=============================================================================
