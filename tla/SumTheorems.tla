---------------------------- MODULE SumTheorems ----------------------------
(***************************************************************************)
(* Sums over a finite set.  The merged result of a load test and the       *)
(* combined verdict of a run add up one field of the records of a set of   *)
(* workers or targets, and the library defines such a sum by a recursive   *)
(* choice.  From that definition, and by induction over the subsets of a   *)
(* finite set, this module proves what a sum is, how it follows one of its *)
(* terms, and how sums compare.                                            *)
(***************************************************************************)
EXTENDS Integers, FiniteSetsExt, FiniteSetTheorems, WellFoundedInduction, TLAPS

(* Induction over the subsets of a finite set, for a set of subsets instead
   of a predicate: strict inclusion is well founded. *)
LEMMA SubsetInduction ==
  ASSUME NEW S, IsFiniteSet(S), NEW F,
         \A T \in SUBSET S : (\A U \in SUBSET T : U # T => U \in F) => T \in F
  PROVE  SUBSET S \subseteq F
<1> DEFINE Bad == {T \in SUBSET S : T \notin F}
           R == StrictSubsetOrdering(S)
<1> SUFFICES ASSUME Bad # {} PROVE FALSE
  OBVIOUS
<1>1. IsWellFoundedOn(R, SUBSET S)
  <2>1. FiniteSubsetsOf(S) = SUBSET S
    BY FS_FiniteSubsetsOfFinite
  <2>2. IsWellFoundedOn(R, FiniteSubsetsOf(S))
    BY FS_StrictSubsetOrderingWellFounded
  <2>3. QED
    BY <2>1, <2>2, Zenon
<1>2. \E T \in Bad : \A U \in Bad : ~(<<U, T>> \in R)
  <2>1. Bad \subseteq SUBSET S
    OBVIOUS
  <2> HIDE DEF Bad, R
  <2>2. QED
    BY <1>1, <2>1, WFMin
<1>3. PICK T \in Bad : \A U \in Bad : ~(<<U, T>> \in R)
  BY <1>2
<1>4. ASSUME NEW U \in SUBSET T, U # T PROVE U \in F
  <2>1. U \in SUBSET S /\ T \in SUBSET S
    OBVIOUS
  <2>2. <<U, T>> \in R
    BY <1>4, <2>1 DEF StrictSubsetOrdering
  <2>3. QED
    BY <1>3, <2>1, <2>2
<1>5. QED
  BY <1>4

(* The sums of the model: one field of the records of a set of workers.  The
   library computes them by a recursive function over the subsets. *)
SumOf(r, field, S) == MapThenSumSet(LAMBDA w : r[w][field], S)
OneOf(S) == CHOOSE x \in S : TRUE
Iterated(g, r, field, S) ==
  [s \in SUBSET S |-> IF s = {} THEN 0 ELSE r[OneOf(s)][field] + g[s \ {OneOf(s)}]]

LEMMA SumIsIterated ==
  ASSUME NEW r, NEW field, NEW S
  PROVE  SumOf(r, field, S) = (CHOOSE g : g = Iterated(g, r, field, S))[S]
BY DEF SumOf, MapThenSumSet, MapThenFoldSet, Iterated, OneOf

LEMMA OneOfIn == \A S : S # {} => OneOf(S) \in S
BY DEF OneOf

LEMMA IteratedUnique ==
  ASSUME NEW r, NEW field, NEW S, IsFiniteSet(S),
         NEW g, g = Iterated(g, r, field, S), NEW h, h = Iterated(h, r, field, S)
  PROVE  \A s \in SUBSET S : g[s] = h[s]
<1> DEFINE F == {s \in SUBSET S : g[s] = h[s]}
<1>1. ASSUME NEW T \in SUBSET S, \A U \in SUBSET T : U # T => U \in F PROVE T \in F
  <2>1. g[T] = (IF T = {} THEN 0 ELSE r[OneOf(T)][field] + g[T \ {OneOf(T)}])
    BY DEF Iterated
  <2>2. h[T] = (IF T = {} THEN 0 ELSE r[OneOf(T)][field] + h[T \ {OneOf(T)}])
    BY DEF Iterated
  <2>3. CASE T = {}
    BY <2>1, <2>2, <2>3
  <2>4. CASE T # {}
    <3>1. T \ {OneOf(T)} \in SUBSET T /\ T \ {OneOf(T)} # T
      BY <2>4, OneOfIn
    <3>2. g[T \ {OneOf(T)}] = h[T \ {OneOf(T)}]
      BY <1>1, <3>1
    <3>3. QED
      BY <2>1, <2>2, <2>4, <3>2
  <2>5. QED BY <2>3, <2>4
<1>2. SUBSET S \subseteq F
  <2> HIDE DEF F
  <2> QED BY <1>1, SubsetInduction
<1>3. QED
  BY <1>2

SumStep(r, field, S) ==
  SumOf(r, field, S) = IF S = {} THEN 0 ELSE r[OneOf(S)][field] + SumOf(r, field, S \ {OneOf(S)})

(* The recursive function exists, so a sum is what its definition says. *)
LEMMA SumRecursion ==
  ASSUME NEW r, NEW field, NEW S, IsFiniteSet(S)
  PROVE  SumStep(r, field, S)
<1> DEFINE F == {s \in SUBSET S : SumStep(r, field, s)}
<1>1. ASSUME NEW T \in SUBSET S, \A U \in SUBSET T : U # T => U \in F PROVE T \in F
  <2> DEFINE value == IF T = {} THEN 0 ELSE r[OneOf(T)][field] + SumOf(r, field, T \ {OneOf(T)})
             c == [s \in SUBSET T |-> IF s = T THEN value ELSE SumOf(r, field, s)]
             g == CHOOSE f : f = Iterated(f, r, field, T)
  <2>1. \A U \in SUBSET T : U # T => SumStep(r, field, U)
    BY <1>1
  <2>2. ASSUME NEW s \in SUBSET T
        PROVE  c[s] = IF s = {} THEN 0 ELSE r[OneOf(s)][field] + c[s \ {OneOf(s)}]
    <3>1. CASE s = {}
      <4>1. T # {} => SumOf(r, field, {}) = 0
        BY <2>1 DEF SumStep
      <4>2. QED
        BY <3>1, <4>1
    <3>2. CASE s # {}
      <4>1. s \ {OneOf(s)} \in SUBSET T /\ s \ {OneOf(s)} # T
        BY <3>2, OneOfIn
      <4>2. c[s \ {OneOf(s)}] = SumOf(r, field, s \ {OneOf(s)})
        BY <4>1
      <4>3. CASE s = T
        BY <3>2, <4>2, <4>3
      <4>4. CASE s # T
        <5>1. SumOf(r, field, s) = r[OneOf(s)][field] + SumOf(r, field, s \ {OneOf(s)})
          BY <2>1, <3>2, <4>4 DEF SumStep
        <5>2. c[s] = SumOf(r, field, s)
          BY <4>4
        <5>3. QED
          BY <3>2, <4>2, <5>1, <5>2
      <4>5. QED BY <4>3, <4>4
    <3>3. QED BY <3>1, <3>2
  <2>3. c = Iterated(c, r, field, T)
    <3>1. c = [s \in SUBSET T |-> c[s]]
      OBVIOUS
    <3> HIDE DEF c
    <3>2. QED
      BY <2>2, <3>1 DEF Iterated
  <2>4. g = Iterated(g, r, field, T)
    <3> HIDE DEF c
    <3> QED BY <2>3
  <2>5. IsFiniteSet(T)
    BY FS_Subset
  <2>6. g[T] = c[T]
    <3> HIDE DEF c, g
    <3> QED BY <2>3, <2>4, <2>5, IteratedUnique
  <2>7. SumOf(r, field, T) = g[T]
    BY SumIsIterated
  <2>8. c[T] = value
    OBVIOUS
  <2>9. SumOf(r, field, T) = value
    <3> HIDE DEF c, g, value
    <3> QED BY <2>6, <2>7, <2>8
  <2>10. QED
    BY <2>9 DEF SumStep
<1>2. SUBSET S \subseteq F
  <2> HIDE DEF F
  <2> QED BY <1>1, SubsetInduction
<1>3. QED
  BY <1>2

NatField(r, field, S) == \A w \in S : r[w][field] \in Nat

LEMMA SumType ==
  ASSUME NEW r, NEW field, NEW S, IsFiniteSet(S), NatField(r, field, S)
  PROVE  \A T \in SUBSET S : SumOf(r, field, T) \in Nat
<1> DEFINE F == {T \in SUBSET S : SumOf(r, field, T) \in Nat}
<1>1. ASSUME NEW T \in SUBSET S, \A U \in SUBSET T : U # T => U \in F PROVE T \in F
  <2>1. SumStep(r, field, T)
    BY FS_Subset, SumRecursion
  <2>2. CASE T = {}
    BY <2>1, <2>2 DEF SumStep
  <2>3. CASE T # {}
    <3>1. OneOf(T) \in T /\ T \ {OneOf(T)} \in SUBSET T /\ T \ {OneOf(T)} # T
      BY <2>3, OneOfIn
    <3>2. SumOf(r, field, T \ {OneOf(T)}) \in Nat
      BY <1>1, <3>1
    <3>3. r[OneOf(T)][field] \in Nat
      BY <3>1 DEF NatField
    <3>4. QED
      BY <2>1, <2>3, <3>2, <3>3 DEF SumStep
  <2>4. QED BY <2>2, <2>3
<1>2. SUBSET S \subseteq F
  <2> HIDE DEF F
  <2> QED BY <1>1, SubsetInduction
<1>3. QED
  BY <1>2

(* A sum does not depend on the element its recursion happens to take first. *)
LEMMA SumRemove ==
  ASSUME NEW r, NEW field, NEW S, IsFiniteSet(S), NatField(r, field, S)
  PROVE  \A T \in SUBSET S : \A w \in T :
           SumOf(r, field, T) = r[w][field] + SumOf(r, field, T \ {w})
<1> DEFINE Splits(T) == \A w \in T : SumOf(r, field, T) = r[w][field] + SumOf(r, field, T \ {w})
           F == {T \in SUBSET S : Splits(T)}
<1>1. ASSUME NEW T \in SUBSET S, \A U \in SUBSET T : U # T => U \in F,
             NEW w \in T
      PROVE  SumOf(r, field, T) = r[w][field] + SumOf(r, field, T \ {w})
  <2> DEFINE x == OneOf(T)
             X == T \ {x}
             W == T \ {w}
             Z == (T \ {x}) \ {w}
  <2>1. x \in T
    BY OneOfIn
  <2>2. IsFiniteSet(T)
    BY FS_Subset
  <2>3. SumOf(r, field, T) = r[x][field] + SumOf(r, field, X)
    BY <2>1, <2>2, SumRecursion DEF SumStep
  <2>4. CASE w = x
    BY <2>3, <2>4
  <2>5. CASE w # x
    <3>1. /\ X \in SUBSET T /\ X # T /\ w \in X
          /\ W \in SUBSET T /\ W # T /\ x \in W
          /\ X \ {w} = Z /\ W \ {x} = Z /\ Z \in SUBSET S
      BY <2>1, <2>5
    <3>2. Splits(X) /\ Splits(W)
      BY <1>1, <3>1
    <3>3. SumOf(r, field, X) = r[w][field] + SumOf(r, field, X \ {w})
      BY <3>1, <3>2
    <3>4. SumOf(r, field, W) = r[x][field] + SumOf(r, field, W \ {x})
      BY <3>1, <3>2
    <3>5. r[w][field] \in Nat /\ r[x][field] \in Nat /\ SumOf(r, field, Z) \in Nat
      BY <2>1, <3>1, SumType DEF NatField
    <3> HIDE DEF X, W, Z, x
    <3>6. /\ SumOf(r, field, X) = r[w][field] + SumOf(r, field, Z)
          /\ SumOf(r, field, W) = r[x][field] + SumOf(r, field, Z)
      BY <3>1, <3>3, <3>4, Zenon
    <3>7. QED
      BY <2>3, <3>5, <3>6 DEF W
  <2>6. QED BY <2>4, <2>5
<1>2. SUBSET S \subseteq F
  <2>1. \A T \in SUBSET S : (\A U \in SUBSET T : U # T => U \in F) => T \in F
    BY <1>1
  <2> HIDE DEF F
  <2>2. QED
    BY <2>1, SubsetInduction
<1>3. QED
  BY <1>2

(* Sums of equal fields are equal, and so a change of one record changes a sum
   by the change of its field. *)
LEMMA SumSame ==
  ASSUME NEW r, NEW q, NEW field, NEW S, IsFiniteSet(S),
         \A w \in S : q[w][field] = r[w][field]
  PROVE  \A T \in SUBSET S : SumOf(q, field, T) = SumOf(r, field, T)
<1> DEFINE F == {T \in SUBSET S : SumOf(q, field, T) = SumOf(r, field, T)}
<1>1. ASSUME NEW T \in SUBSET S, \A U \in SUBSET T : U # T => U \in F PROVE T \in F
  <2>1. SumStep(r, field, T) /\ SumStep(q, field, T)
    BY FS_Subset, SumRecursion
  <2>2. CASE T = {}
    BY <2>1, <2>2 DEF SumStep
  <2>3. CASE T # {}
    <3>1. OneOf(T) \in T /\ T \ {OneOf(T)} \in SUBSET T /\ T \ {OneOf(T)} # T
      BY <2>3, OneOfIn
    <3>2. SumOf(q, field, T \ {OneOf(T)}) = SumOf(r, field, T \ {OneOf(T)})
      BY <1>1, <3>1
    <3>3. q[OneOf(T)][field] = r[OneOf(T)][field]
      BY <3>1
    <3>4. QED
      BY <2>1, <2>3, <3>2, <3>3 DEF SumStep
  <2>4. QED BY <2>2, <2>3
<1>2. SUBSET S \subseteq F
  <2> HIDE DEF F
  <2> QED BY <1>1, SubsetInduction
<1>3. QED
  BY <1>2

LEMMA SumUpdate ==
  ASSUME NEW r, NEW q, NEW field, NEW S, IsFiniteSet(S), NEW w \in S,
         NatField(r, field, S), q[w][field] \in Nat,
         \A v \in S : v # w => q[v][field] = r[v][field]
  PROVE  /\ SumOf(r, field, S) \in Nat
         /\ SumOf(q, field, S) = SumOf(r, field, S) - r[w][field] + q[w][field]
<1> DEFINE R == S \ {w}
<1>1. R \in SUBSET S /\ S \in SUBSET S /\ IsFiniteSet(R) /\ R \in SUBSET R
  BY FS_Subset
<1>2. \A v \in R : q[v][field] = r[v][field]
  OBVIOUS
<1>3. SumOf(q, field, R) = SumOf(r, field, R)
  <2> HIDE DEF R
  <2> QED BY <1>1, <1>2, SumSame
<1>4. NatField(q, field, S)
  BY DEF NatField
<1>5. SumOf(r, field, S) = r[w][field] + SumOf(r, field, R)
  BY <1>1, SumRemove
<1>6. SumOf(q, field, S) = q[w][field] + SumOf(q, field, R)
  BY <1>1, <1>4, SumRemove
<1>7. SumOf(r, field, S) \in Nat /\ SumOf(r, field, R) \in Nat /\ r[w][field] \in Nat
  BY <1>1, SumType DEF NatField
<1> HIDE DEF R
<1>8. QED
  BY <1>3, <1>5, <1>6, <1>7

(* Records that are zero do not matter to a sum, and a sum of zeros is zero. *)
LEMMA SumOnly ==
  ASSUME NEW r, NEW field, NEW S, IsFiniteSet(S), NatField(r, field, S), NEW A,
         \A w \in S : w \notin A => r[w][field] = 0
  PROVE  \A T \in SUBSET S : SumOf(r, field, T) = SumOf(r, field, T \cap A)
<1> DEFINE F == {T \in SUBSET S : SumOf(r, field, T) = SumOf(r, field, T \cap A)}
<1>1. ASSUME NEW T \in SUBSET S, \A U \in SUBSET T : U # T => U \in F PROVE T \in F
  <2>1. CASE T \cap A = T
    BY <2>1
  <2>2. CASE T \cap A # T
    <3>1. PICK w \in T : w \notin A
      BY <2>2
    <3>2. T \ {w} \in SUBSET T /\ T \ {w} # T /\ (T \ {w}) \cap A = T \cap A
      BY <3>1
    <3>3. SumOf(r, field, T \ {w}) = SumOf(r, field, (T \ {w}) \cap A)
      BY <1>1, <3>2
    <3>4. SumOf(r, field, T) = r[w][field] + SumOf(r, field, T \ {w})
      BY <3>1, SumRemove
    <3>5. r[w][field] = 0 /\ SumOf(r, field, T \ {w}) \in Nat
      BY <3>1, <3>2, SumType
    <3>6. SumOf(r, field, T) = SumOf(r, field, T \ {w})
      BY <3>4, <3>5
    <3>7. SumOf(r, field, (T \ {w}) \cap A) = SumOf(r, field, T \cap A)
      BY <3>2, Zenon
    <3>8. QED
      BY <3>3, <3>6, <3>7
  <2>3. QED BY <2>1, <2>2
<1>2. SUBSET S \subseteq F
  <2> HIDE DEF F
  <2> QED BY <1>1, SubsetInduction
<1>3. QED
  BY <1>2

LEMMA SumZero ==
  ASSUME NEW r, NEW field, NEW S, IsFiniteSet(S), NatField(r, field, S)
  PROVE  SumOf(r, field, S) = 0 <=> \A w \in S : r[w][field] = 0
<1>1. ASSUME SumOf(r, field, S) = 0, NEW w \in S PROVE r[w][field] = 0
  <2>1. SumOf(r, field, S) = r[w][field] + SumOf(r, field, S \ {w})
    BY SumRemove
  <2>2. r[w][field] \in Nat /\ SumOf(r, field, S \ {w}) \in Nat
    BY SumType DEF NatField
  <2>3. QED
    BY <1>1, <2>1, <2>2
<1>2. ASSUME \A w \in S : r[w][field] = 0 PROVE SumOf(r, field, S) = 0
  <2>1. PICK A : A = {}
    OBVIOUS
  <2>2. SumOf(r, field, S) = SumOf(r, field, S \cap A)
    <3>1. \A w \in S : w \notin A => r[w][field] = 0
      BY <1>2
    <3>2. \A T \in SUBSET S : SumOf(r, field, T) = SumOf(r, field, T \cap A)
      BY <3>1, SumOnly
    <3>3. QED
      BY <3>2
  <2>3. IsFiniteSet(A) /\ S \cap A = A
    BY <2>1, FS_EmptySet
  <2>4. SumOf(r, field, A) = 0
    BY <2>1, <2>3, SumRecursion DEF SumStep
  <2>5. QED
    BY <2>2, <2>3, <2>4, Zenon
<1>3. QED
  BY <1>1, <1>2

(* The sum of a field that is the sum of two others is the sum of theirs. *)
LEMMA SumAdds ==
  ASSUME NEW r, NEW a, NEW b, NEW c, NEW S, IsFiniteSet(S),
         NatField(r, a, S), NatField(r, b, S), NatField(r, c, S),
         \A w \in S : r[w][a] = r[w][b] + r[w][c]
  PROVE  SumOf(r, a, S) = SumOf(r, b, S) + SumOf(r, c, S)
<1> DEFINE Adds(T) == SumOf(r, a, T) = SumOf(r, b, T) + SumOf(r, c, T)
           F == {T \in SUBSET S : Adds(T)}
<1>1. ASSUME NEW T \in SUBSET S, \A U \in SUBSET T : U # T => U \in F
      PROVE  Adds(T)
  <2>1. SumStep(r, a, T) /\ SumStep(r, b, T) /\ SumStep(r, c, T)
    BY FS_Subset, SumRecursion
  <2>2. CASE T = {}
    BY <2>1, <2>2 DEF SumStep
  <2>3. CASE T # {}
    <3> DEFINE x == OneOf(T)
               U == T \ {x}
    <3>1. x \in T /\ U \in SUBSET T /\ U # T
      BY <2>3, OneOfIn
    <3>2. SumOf(r, a, U) = SumOf(r, b, U) + SumOf(r, c, U)
      BY <1>1, <3>1
    <3>3. r[x][a] = r[x][b] + r[x][c] /\ r[x][b] \in Nat /\ r[x][c] \in Nat
      BY <3>1 DEF NatField
    <3>4. SumOf(r, b, U) \in Nat /\ SumOf(r, c, U) \in Nat
      BY <3>1, SumType
    <3>5. /\ SumOf(r, a, T) = r[x][a] + SumOf(r, a, U)
          /\ SumOf(r, b, T) = r[x][b] + SumOf(r, b, U)
          /\ SumOf(r, c, T) = r[x][c] + SumOf(r, c, U)
      BY <2>1, <2>3 DEF SumStep
    <3> HIDE DEF x, U
    <3>6. QED
      BY <3>2, <3>3, <3>4, <3>5
  <2>4. QED BY <2>2, <2>3
<1>2. SUBSET S \subseteq F
  <2>1. \A T \in SUBSET S : (\A U \in SUBSET T : U # T => U \in F) => T \in F
    BY <1>1
  <2> HIDE DEF F
  <2>2. QED
    BY <2>1, SubsetInduction
<1>3. Adds(S)
  BY <1>2
<1>4. QED
  BY <1>3

(* A bound of every ratio of two fields is one of the ratio of their sums. *)
LEMMA SumScaled ==
  ASSUME NEW r, NEW a, NEW b, NEW S, IsFiniteSet(S), NEW k \in Nat,
         NatField(r, a, S), NatField(r, b, S)
  PROVE  /\ (\A w \in S : k * r[w][a] <= r[w][b]) =>
              k * SumOf(r, a, S) <= SumOf(r, b, S)
         /\ (\A w \in S : r[w][b] <= k * r[w][a]) =>
              SumOf(r, b, S) <= k * SumOf(r, a, S)
<1> DEFINE Low(T) == (\A w \in T : k * r[w][a] <= r[w][b]) =>
                       k * SumOf(r, a, T) <= SumOf(r, b, T)
           High(T) == (\A w \in T : r[w][b] <= k * r[w][a]) =>
                        SumOf(r, b, T) <= k * SumOf(r, a, T)
           F == {T \in SUBSET S : Low(T) /\ High(T)}
<1>1. ASSUME NEW T \in SUBSET S, \A U \in SUBSET T : U # T => U \in F
      PROVE  Low(T) /\ High(T)
  <2>1. SumStep(r, a, T) /\ SumStep(r, b, T)
    BY FS_Subset, SumRecursion
  <2>2. CASE T = {}
    BY <2>1, <2>2 DEF SumStep
  <2>3. CASE T # {}
    <3> DEFINE x == OneOf(T)
               U == T \ {x}
               p == r[x][a]
               q == r[x][b]
               m == SumOf(r, a, U)
               n == SumOf(r, b, U)
    <3>1. x \in T /\ U \in SUBSET T /\ U # T
      BY <2>3, OneOfIn
    <3>2. Low(U) /\ High(U)
      BY <1>1, <3>1
    <3>3. p \in Nat /\ q \in Nat /\ m \in Nat /\ n \in Nat
      BY <3>1, SumType DEF NatField
    <3>4. SumOf(r, a, T) = p + m /\ SumOf(r, b, T) = q + n
      BY <2>1, <2>3 DEF SumStep
    <3>5. k * p \in Nat /\ k * m \in Nat /\ k * (p + m) = k * p + k * m
      <4> HIDE DEF p, m
      <4> QED BY <3>3
    <3>6. Low(T)
      <4> SUFFICES ASSUME \A w \in T : k * r[w][a] <= r[w][b]
          PROVE  k * SumOf(r, a, T) <= SumOf(r, b, T)
        OBVIOUS
      <4>1. k * p <= q /\ k * m <= n
        BY <3>1, <3>2
      <4> HIDE DEF p, q, m, n
      <4>2. QED
        BY <3>3, <3>4, <3>5, <4>1
    <3>7. High(T)
      <4> SUFFICES ASSUME \A w \in T : r[w][b] <= k * r[w][a]
          PROVE  SumOf(r, b, T) <= k * SumOf(r, a, T)
        OBVIOUS
      <4>1. q <= k * p /\ n <= k * m
        BY <3>1, <3>2
      <4> HIDE DEF p, q, m, n
      <4>2. QED
        BY <3>3, <3>4, <3>5, <4>1
    <3>8. QED BY <3>6, <3>7
  <2>4. QED BY <2>2, <2>3
<1>2. SUBSET S \subseteq F
  <2>1. \A T \in SUBSET S : (\A U \in SUBSET T : U # T => U \in F) => T \in F
    BY <1>1
  <2> HIDE DEF F
  <2>2. QED
    BY <2>1, SubsetInduction
<1>3. Low(S) /\ High(S)
  BY <1>2
<1>4. QED
  BY <1>3

(* A finite set of numbers has a least and a greatest one. *)
LEMMA Extremes ==
  ASSUME NEW S \in SUBSET Nat, IsFiniteSet(S)
  PROVE  \A T \in SUBSET S : T # {} =>
           /\ \E x \in T : \A y \in T : x <= y
           /\ \E x \in T : \A y \in T : y <= x
<1> DEFINE Has(T) == /\ \E x \in T : \A y \in T : x <= y
                     /\ \E x \in T : \A y \in T : y <= x
           F == {T \in SUBSET S : T # {} => Has(T)}
<1>1. ASSUME NEW T \in SUBSET S, \A U \in SUBSET T : U # T => U \in F, T # {}
      PROVE  Has(T)
  <2>1. PICK x \in T : TRUE
    BY <1>1
  <2> DEFINE U == T \ {x}
  <2>2. CASE U = {}
    <3>1. \A y \in T : y = x
      BY <2>2
    <3>2. x \in Nat
      OBVIOUS
    <3>3. QED
      BY <3>1, <3>2
  <2>3. CASE U # {}
    <3>1. Has(U)
      BY <1>1, <2>3
    <3>2. PICK lo \in U : \A y \in U : lo <= y
      BY <3>1
    <3>3. PICK hi \in U : \A y \in U : y <= hi
      BY <3>1
    <3>4. \A y \in T : y = x \/ y \in U
      OBVIOUS
    <3>5. x \in Nat /\ lo \in Nat /\ hi \in Nat /\ U \subseteq Nat /\ lo \in T /\ hi \in T
      OBVIOUS
    <3> HIDE DEF U
    <3>6. \E z \in T : \A y \in T : z <= y
      <4>1. CASE x <= lo
        BY <3>2, <3>4, <3>5, <4>1
      <4>2. CASE ~(x <= lo)
        BY <3>2, <3>4, <3>5, <4>2
      <4>3. QED BY <4>1, <4>2
    <3>7. \E z \in T : \A y \in T : y <= z
      <4>1. CASE hi <= x
        BY <3>3, <3>4, <3>5, <4>1
      <4>2. CASE ~(hi <= x)
        BY <3>3, <3>4, <3>5, <4>2
      <4>3. QED BY <4>1, <4>2
    <3>8. QED BY <3>6, <3>7
  <2>4. QED BY <2>2, <2>3
<1>2. SUBSET S \subseteq F
  <2>1. \A T \in SUBSET S : (\A U \in SUBSET T : U # T => U \in F) => T \in F
    BY <1>1
  <2> HIDE DEF F
  <2>2. QED
    BY <2>1, SubsetInduction
<1>3. QED
  BY <1>2
=============================================================================
