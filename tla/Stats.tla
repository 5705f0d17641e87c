------------------------------- MODULE Stats -------------------------------
(***************************************************************************)
(* The per-target statistics of stats.c, as operators on a stats_t record. *)
(* Round-trip times are integers (milliseconds); sums and sums of squares  *)
(* are exact, so the rounding of C doubles is not modelled.                *)
(***************************************************************************)
EXTENDS Naturals, Sequences, FiniteSets

CONSTANTS
  DblMax,         \* DBL_MAX, above every round-trip time
  MaxRetained,    \* MAX_RETAINED_SAMPLES
  FirstCap        \* capacity of the first allocation (64)

StatsType ==
  [attempts : Nat, connects : Nat, failures : Nat, total : Nat, totalSq : Nat,
   minimum : Nat, maximum : Nat, samples : Seq(Nat), sampleCap : Nat]

StatsInit ==
  [attempts |-> 0, connects |-> 0, failures |-> 0,
   total |-> 0, totalSq |-> 0, minimum |-> DblMax, maximum |-> 0,
   samples |-> << >>, sampleCap |-> 0]

(* The sample array is full: AddSample has to grow it. *)
Full(s) == Len(s.samples) = s.sampleCap

Grown(cap) == IF cap = 0 THEN FirstCap ELSE 2 * cap

(* Stats_AddSample; "grows" says whether realloc succeeds if it is called.
   Over the cap, or out of memory, the aggregates are kept all the same. *)
AddSample(s, v, grows) ==
  LET agg == [s EXCEPT
                !.minimum = IF v < @ THEN v ELSE @,
                !.maximum = IF v > @ THEN v ELSE @,
                !.total = @ + v,
                !.totalSq = @ + v * v]
  IN IF Len(s.samples) >= MaxRetained \/ (Full(s) /\ ~grows)
     THEN agg
     ELSE [agg EXCEPT !.samples = Append(@, v),
                      !.sampleCap = IF Full(s) THEN Grown(@) ELSE @]

(* Mutant of RankIndex: rounded down instead of up. *)
RankIndexFloor(p, n) ==
  IF p <= 0 THEN 0 ELSE IF p >= 100 THEN n - 1 ELSE (p * n) \div 100

(* 0-based nearest-rank index of percentile p among n samples. *)
RankIndex(p, n) ==
  IF p <= 0 THEN 0
  ELSE IF p >= 100 THEN n - 1
  ELSE (p * n + 99) \div 100 - 1

(* The element at 0-based index idx of the samples once sorted. *)
SortedAt(samples, idx) ==
  LET below(v) == {i \in DOMAIN samples : samples[i] < v}
      upTo(v)  == {i \in DOMAIN samples : samples[i] <= v}
      Value    == {samples[i] : i \in DOMAIN samples}
  IN CHOOSE v \in Value : Cardinality(below(v)) <= idx /\ idx < Cardinality(upTo(v))

(* Stats_Percentile, when its copy of the samples can be allocated. *)
Percentile(s, p) ==
  IF s.samples = << >> THEN 0
  ELSE SortedAt(s.samples, RankIndex(p, Len(s.samples)))

(* Stats_Average and Stats_StdDev, as comparisons with a bound in ms. *)
AverageAbove(s, ms) == s.connects > 0 /\ s.total > ms * s.connects

StdDevAbove(s, ms) ==
  s.connects > 0 /\
    s.connects * s.totalSq > s.total * s.total + ms * ms * s.connects * s.connects
=============================================================================
