-------------------------- MODULE AllocationProofs --------------------------
(***************************************************************************)
(* What the sums of module Allocation add up to, for any finite set of     *)
(* rows.  A sum is a fold, hence a recursive function; that its equation   *)
(* has a solution, and all it computes, follows by induction on the size   *)
(* of sets, in the form that a nonempty set of counterexamples has a       *)
(* smallest one.                                                           *)
(***************************************************************************)
EXTENDS Allocation, Sequences, FiniteSetTheorems, WellFoundedInduction, TLAPS

-----------------------------------------------------------------------------
(* Induction *)

(* A set that holds 0 and with each number the next one holds them all.    *)
LEMMA Counting ==
  ASSUME NEW T, 0 \in T, \A n \in Nat : n \in T => n + 1 \in T
  PROVE  Nat \subseteq T
<1> SUFFICES ASSUME Nat \ T # {} PROVE FALSE
  OBVIOUS
<1>1. PICK m \in Nat \ T : \A n \in Nat \ T : <<n, m>> \notin OpToRel(<, Nat)
  BY NatLessThanWellFounded, WFMin
<1>a. m \in Nat /\ m \notin T
  OBVIOUS
<1>2. m - 1 \in Nat /\ m - 1 < m
  BY <1>a
<1>3. m - 1 \in T
  BY <1>1, <1>2 DEF OpToRel
<1> QED BY <1>a, <1>2, <1>3

(* A set of numbers has a least one.                                       *)
LEMMA LeastIn ==
  ASSUME NEW S \in SUBSET Nat, S # {}
  PROVE  \E m \in S : \A n \in S : m <= n
<1>1. PICK m \in S : \A n \in S : <<n, m>> \notin OpToRel(<, Nat)
  BY NatLessThanWellFounded, WFMin
<1>2. \A n \in S : ~(n < m)
  BY <1>1 DEF OpToRel
<1> QED BY <1>2

(* A recursion over the numbers has a solution: start with a, and go from  *)
(* the value at n to the next one by step.                                 *)
Solves(g, a, step) == g[0] = a /\ \A n \in Nat : g[n + 1] = step[n][g[n]]

LEMMA Recursion ==
  ASSUME NEW S, NEW a \in S, NEW step \in [Nat -> [S -> S]]
  PROVE  \E g \in [Nat -> S] : Solves(g, a, step)
<1> DEFINE Good(g, n) == g[0] = a /\ \A k \in Nat : k < n => g[k + 1] = step[k][g[k]]
           T == {n \in Nat : \E g \in [Nat -> S] : Good(g, n)}
           U == {n \in Nat : \A g, h \in [Nat -> S] : Good(g, n) /\ Good(h, n) => g[n] = h[n]}
<1>1. Nat \subseteq T
  <2>1. 0 \in T
    <3>1. [k \in Nat |-> a] \in [Nat -> S] /\ Good([k \in Nat |-> a], 0)
      OBVIOUS
    <3> QED BY <3>1
  <2>2. ASSUME NEW n \in Nat, n \in T PROVE n + 1 \in T
    <3>1. PICK g \in [Nat -> S] : Good(g, n)
      BY <2>2
    <3> DEFINE v == step[n][g[n]]
               h == [k \in Nat |-> IF k = n + 1 THEN v ELSE g[k]]
    <3>2. v \in S /\ n + 1 \in Nat
      OBVIOUS
    <3>3. h \in [Nat -> S]
      BY <3>2
    <3>4. h[0] = a
      BY <3>1
    <3>5. ASSUME NEW k \in Nat, k < n + 1 PROVE h[k + 1] = step[k][h[k]]
      <4>1. h[k] = g[k]
        BY <3>5
      <4>2. CASE k = n
        BY <4>1, <4>2, <3>2
      <4>3. CASE k # n
        <5>1. k < n /\ k + 1 # n + 1 /\ k + 1 \in Nat
          BY <3>5, <4>3
        <5> QED BY <3>1, <4>1, <5>1
      <4> QED BY <4>2, <4>3
    <3> HIDE DEF h
    <3> QED BY <3>2, <3>3, <3>4, <3>5
  <2> HIDE DEF T
  <2> QED BY <2>1, <2>2, Counting
<1>2. Nat \subseteq U
  <2>1. 0 \in U
    OBVIOUS
  <2>2. ASSUME NEW n \in Nat, n \in U PROVE n + 1 \in U
    <3>1. ASSUME NEW g \in [Nat -> S], NEW h \in [Nat -> S], Good(g, n + 1), Good(h, n + 1)
          PROVE  g[n + 1] = h[n + 1]
      <4>1. \A k \in Nat : k < n => k < n + 1
        OBVIOUS
      <4>2. Good(g, n) /\ Good(h, n)
        BY <3>1, <4>1
      <4>3. g[n] = h[n]
        BY <2>2, <4>2
      <4>4. n < n + 1
        OBVIOUS
      <4> QED BY <3>1, <4>3, <4>4
    <3> HIDE DEF Good
    <3> QED BY <3>1
  <2> HIDE DEF U
  <2> QED BY <2>1, <2>2, Counting
<1> DEFINE G(n) == CHOOSE g \in [Nat -> S] : Good(g, n)
           w == [n \in Nat |-> G(n)[n]]
<1>3. \A n \in Nat : G(n) \in [Nat -> S] /\ Good(G(n), n)
  <2> HIDE DEF Good
  <2> QED BY <1>1
<1>4. w \in [Nat -> S]
  <2> HIDE DEF G
  <2> QED BY <1>3
<1>5. w[0] = a
  <2> HIDE DEF G
  <2> QED BY <1>3
<1>6. ASSUME NEW n \in Nat PROVE w[n + 1] = step[n][w[n]]
  <2>0. n + 1 \in Nat /\ n < n + 1 /\ \A k \in Nat : k < n => k < n + 1
    OBVIOUS
  <2>1. G(n) \in [Nat -> S] /\ Good(G(n), n) /\ G(n + 1) \in [Nat -> S] /\ Good(G(n + 1), n + 1)
    <3> HIDE DEF G, Good
    <3> QED BY <1>3, <2>0
  <2> HIDE DEF G
  <2>2. Good(G(n + 1), n)
    BY <2>0, <2>1
  <2>3. G(n + 1)[n] = G(n)[n]
    <3> HIDE DEF Good
    <3> QED BY <1>2, <2>1, <2>2
  <2>4. G(n + 1)[n + 1] = step[n][G(n + 1)[n]]
    BY <2>0, <2>1
  <2> QED BY <2>0, <2>3, <2>4
<1> HIDE DEF w
<1> QED BY <1>4, <1>5, <1>6 DEF Solves

(* Among the subsets of a finite set with a defect, one has none inside.   *)
LEMMA SmallestSubset ==
  ASSUME NEW S, IsFiniteSet(S), NEW Bad \in SUBSET SUBSET S, Bad # {}
  PROVE  \E U \in Bad : \A V \in SUBSET U : V # U => V \notin Bad
<1>1. IsWellFoundedOn(StrictSubsetOrdering(S), FiniteSubsetsOf(S))
  BY FS_StrictSubsetOrderingWellFounded
<1>2. Bad \subseteq FiniteSubsetsOf(S)
  BY FS_Subset DEF FiniteSubsetsOf
<1>3. PICK U \in Bad : \A V \in Bad : <<V, U>> \notin StrictSubsetOrdering(S)
  BY <1>1, <1>2, WFMin
<1>4. ASSUME NEW V \in SUBSET U, V # U PROVE V \notin Bad
  BY <1>3, <1>4 DEF StrictSubsetOrdering
<1> QED BY <1>4

-----------------------------------------------------------------------------
(* The fold behind a sum *)

Pick(s) == CHOOSE x \in s : TRUE

Step(g, f, s) == IF s = {} THEN 0 ELSE f[Pick(s)] + g[s \ {Pick(s)}]

Folds(g, f, S) == g = [s \in SUBSET S |-> Step(g, f, s)]

LEMMA PickIn == ASSUME NEW s, s # {} PROVE Pick(s) \in s
  BY DEF Pick

LEMMA SumIsFold ==
  ASSUME NEW f
  PROVE  SumOf(f) = (CHOOSE g : Folds(g, f, DOMAIN f))[DOMAIN f]
  BY Zenon DEF SumOf, MapThenFoldSet, Folds, Step, Pick

LEMMA FoldExists ==
  ASSUME NEW S, IsFiniteSet(S), NEW f \in [S -> Int]
  PROVE  \E g : Folds(g, f, S)
<1> DEFINE Upto(n) == \E g \in [SUBSET S -> Int] :
             \A s \in SUBSET S : Cardinality(s) <= n => g[s] = Step(g, f, s)
           T == {n \in Nat : Upto(n)}
<1>0. \A s \in SUBSET S : IsFiniteSet(s) /\ Cardinality(s) \in Nat
  BY FS_Subset, FS_CardinalityType
<1>1. 0 \in T
  <2>1. \A s \in SUBSET S : Cardinality(s) <= 0 => s = {}
    BY <1>0, FS_EmptySet
  <2>2. [s \in SUBSET S |-> 0] \in [SUBSET S -> Int]
    OBVIOUS
  <2> QED BY <2>1, <2>2 DEF Step
<1>2. ASSUME NEW n \in Nat, n \in T PROVE n + 1 \in T
  <2>1. PICK g \in [SUBSET S -> Int] :
          \A s \in SUBSET S : Cardinality(s) <= n => g[s] = Step(g, f, s)
    BY <1>2
  <2> DEFINE h == [s \in SUBSET S |-> Step(g, f, s)]
  <2>2. ASSUME NEW s \in SUBSET S, s # {}
        PROVE  /\ Pick(s) \in S /\ s \ {Pick(s)} \in SUBSET S
               /\ Cardinality(s \ {Pick(s)}) = Cardinality(s) - 1
    BY <1>0, <2>2, PickIn, FS_RemoveElement
  <2>3. h \in [SUBSET S -> Int]
    <3>1. ASSUME NEW s \in SUBSET S PROVE Step(g, f, s) \in Int
      <4>1. CASE s = {}
        BY <4>1 DEF Step
      <4>2. CASE s # {}
        <5>1. f[Pick(s)] \in Int /\ g[s \ {Pick(s)}] \in Int
          BY <2>2, <4>2
        <5> QED BY <4>2, <5>1 DEF Step
      <4> QED BY <4>1, <4>2
    <3> QED BY <3>1
  <2>4. ASSUME NEW s \in SUBSET S, Cardinality(s) <= n + 1
        PROVE  h[s] = Step(h, f, s)
    <3>1. CASE s = {}
      BY <3>1 DEF Step
    <3>2. CASE s # {}
      <4> DEFINE t == s \ {Pick(s)}
      <4>1. t \in SUBSET S /\ Cardinality(t) <= n
        BY <1>0, <2>2, <2>4, <3>2
      <4>2. g[t] = Step(g, f, t)
        BY <2>1, <4>1
      <4>3. h[t] = g[t]
        BY <4>1, <4>2
      <4> QED BY <3>2, <4>3 DEF Step
    <3> QED BY <3>1, <3>2
  <2> HIDE DEF h
  <2> QED BY <2>3, <2>4
<1>3. Cardinality(S) \in T
  <2> HIDE DEF T
  <2> QED BY <1>0, <1>1, <1>2, Counting
<1>4. PICK g \in [SUBSET S -> Int] :
        \A s \in SUBSET S : Cardinality(s) <= Cardinality(S) => g[s] = Step(g, f, s)
  BY <1>3
<1>5. \A s \in SUBSET S : Cardinality(s) <= Cardinality(S)
  BY FS_Subset
<1>6. g = [s \in SUBSET S |-> Step(g, f, s)]
  BY <1>4, <1>5
<1> QED BY <1>6 DEF Folds

(* Folds over a set they share, of functions that agree on it, agree.      *)
LEMMA FoldsAgree ==
  ASSUME NEW S, IsFiniteSet(S), NEW T, NEW f, NEW k, NEW g, NEW h,
         Folds(g, f, S), Folds(h, k, T),
         NEW U, U \subseteq S, U \subseteq T, \A x \in U : f[x] = k[x]
  PROVE  g[U] = h[U]
<1> DEFINE Bad == {V \in SUBSET U : g[V] # h[V]}
<1> SUFFICES ASSUME Bad # {} PROVE FALSE
  OBVIOUS
<1>1. IsFiniteSet(U)
  BY FS_Subset
<1>2. PICK V \in Bad : \A W \in SUBSET V : W # V => W \notin Bad
  <2>1. Bad \in SUBSET SUBSET U
    OBVIOUS
  <2> HIDE DEF Bad
  <2> QED BY <1>1, <2>1, SmallestSubset
<1>3. g[V] = Step(g, f, V) /\ h[V] = Step(h, k, V)
  BY DEF Folds
<1>4. CASE V = {}
  BY <1>2, <1>3, <1>4 DEF Step
<1>5. CASE V # {}
  <2> DEFINE W == V \ {Pick(V)}
  <2>1. Pick(V) \in V /\ W \in SUBSET V /\ W # V
    BY <1>5, PickIn
  <2>2. g[W] = h[W]
    BY <1>2, <2>1
  <2>3. f[Pick(V)] = k[Pick(V)]
    BY <2>1
  <2> QED BY <1>2, <1>3, <1>5, <2>2, <2>3 DEF Step
<1> QED BY <1>4, <1>5

LEMMA FoldType ==
  ASSUME NEW S, IsFiniteSet(S), NEW f \in [S -> Int], NEW g, Folds(g, f, S)
  PROVE  g[S] \in Int
<1> DEFINE Bad == {V \in SUBSET S : g[V] \notin Int}
<1> SUFFICES ASSUME Bad # {} PROVE FALSE
  OBVIOUS
<1>1. PICK V \in Bad : \A W \in SUBSET V : W # V => W \notin Bad
  <2>1. Bad \in SUBSET SUBSET S
    OBVIOUS
  <2> HIDE DEF Bad
  <2> QED BY <2>1, SmallestSubset
<1>2. g[V] = Step(g, f, V)
  BY DEF Folds
<1>3. CASE V = {}
  BY <1>1, <1>2, <1>3 DEF Step
<1>4. CASE V # {}
  <2>1. Pick(V) \in V /\ V \ {Pick(V)} \in SUBSET V /\ V \ {Pick(V)} # V
    BY <1>4, PickIn
  <2>2. g[V \ {Pick(V)}] \in Int /\ f[Pick(V)] \in Int
    BY <1>1, <2>1
  <2> QED BY <1>1, <1>2, <1>4, <2>2 DEF Step
<1> QED BY <1>3, <1>4

-----------------------------------------------------------------------------
(* Sums *)

LEMMA SumFolds ==
  ASSUME NEW S, IsFiniteSet(S), NEW f \in [S -> Int]
  PROVE  \E g : Folds(g, f, S) /\ SumOf(f) = g[S]
<1>1. \E g : Folds(g, f, S)
  BY FoldExists
<1>2. Folds(CHOOSE g : Folds(g, f, S), f, S)
  BY <1>1
<1>3. DOMAIN f = S
  OBVIOUS
<1> QED BY <1>2, <1>3, SumIsFold

LEMMA SumInt ==
  ASSUME NEW S, IsFiniteSet(S), NEW f \in [S -> Int]
  PROVE  SumOf(f) \in Int
  BY SumFolds, FoldType

LEMMA SumEmpty ==
  ASSUME NEW f \in [{} -> Int]
  PROVE  SumOf(f) = 0
<1>1. PICK g : Folds(g, f, {}) /\ SumOf(f) = g[{}]
  BY FS_EmptySet, SumFolds
<1> QED BY <1>1 DEF Folds, Step

Without(f, S, x) == [y \in S \ {x} |-> f[y]]

LEMMA WithoutType ==
  ASSUME NEW S, IsFiniteSet(S), NEW f \in [S -> Int], NEW x
  PROVE  IsFiniteSet(S \ {x}) /\ Without(f, S, x) \in [S \ {x} -> Int]
  BY FS_RemoveElement DEF Without

(* A sum is the element the fold takes first and the sum of the rest.      *)
LEMMA SumFirst ==
  ASSUME NEW S, IsFiniteSet(S), NEW f \in [S -> Int], S # {}
  PROVE  SumOf(f) = f[Pick(S)] + SumOf(Without(f, S, Pick(S)))
<1> DEFINE R == S \ {Pick(S)}
           k == Without(f, S, Pick(S))
<1>1. PICK g : Folds(g, f, S) /\ SumOf(f) = g[S]
  BY SumFolds
<1>2. IsFiniteSet(R) /\ k \in [R -> Int]
  BY WithoutType
<1>3. PICK h : Folds(h, k, R) /\ SumOf(k) = h[R]
  <2> HIDE DEF k, R
  <2> QED BY <1>2, SumFolds
<1>4. \A x \in R : f[x] = k[x]
  BY DEF Without
<1>5. g[R] = h[R]
  <2>1. R \subseteq S
    OBVIOUS
  <2> HIDE DEF k, R
  <2> QED BY <1>1, <1>3, <1>4, <2>1, FoldsAgree
<1>6. g[S] = f[Pick(S)] + g[R]
  BY <1>1 DEF Folds, Step
<1> QED BY <1>1, <1>3, <1>5, <1>6

(* It is any element and the sum of the rest.                              *)
LEMMA SumOut ==
  ASSUME NEW S, IsFiniteSet(S), NEW f \in [S -> Int], NEW x \in S
  PROVE  SumOf(f) = f[x] + SumOf(Without(f, S, x))
<1> DEFINE on(U) == [y \in U |-> f[y]]
           Bad == {U \in SUBSET S : \E y \in U :
                     SumOf(on(U)) # f[y] + SumOf(on(U \ {y}))}
<1>1. Bad = {}
  <2> SUFFICES ASSUME Bad # {} PROVE FALSE
    OBVIOUS
  <2>1. PICK U \in Bad : \A V \in SUBSET U : V # U => V \notin Bad
    <3>1. Bad \in SUBSET SUBSET S
      OBVIOUS
    <3> HIDE DEF Bad
    <3> QED BY <3>1, SmallestSubset
  <2>2. PICK y \in U : SumOf(on(U)) # f[y] + SumOf(on(U \ {y}))
    OBVIOUS
  <2> DEFINE p == Pick(U)
  <2>3. p \in U /\ U \subseteq S
    BY <2>2, PickIn
  <2>4. \A V \in SUBSET U : IsFiniteSet(V) /\ on(V) \in [V -> Int] /\ SumOf(on(V)) \in Int
    <3> SUFFICES ASSUME NEW V \in SUBSET U PROVE IsFiniteSet(V) /\ on(V) \in [V -> Int] /\ SumOf(on(V)) \in Int
      OBVIOUS
    <3>1. V \in SUBSET S
      BY <2>3
    <3>2. IsFiniteSet(V) /\ on(V) \in [V -> Int]
      BY <3>1, FS_Subset
    <3> HIDE DEF on
    <3> QED BY <3>2, SumInt
  <2>5. \A V \in SUBSET U : V # {} => SumOf(on(V)) = f[Pick(V)] + SumOf(on(V \ {Pick(V)}))
    <3> SUFFICES ASSUME NEW V \in SUBSET U, V # {}
                 PROVE  SumOf(on(V)) = f[Pick(V)] + SumOf(on(V \ {Pick(V)}))
      OBVIOUS
    <3>1. Pick(V) \in V
      BY PickIn
    <3>2. Without(on(V), V, Pick(V)) = on(V \ {Pick(V)})
      BY DEF Without
    <3>3. on(V)[Pick(V)] = f[Pick(V)]
      BY <3>1
    <3>4. SumOf(on(V)) = on(V)[Pick(V)] + SumOf(Without(on(V), V, Pick(V)))
      <4> HIDE DEF on
      <4> QED BY <2>4, SumFirst
    <3> QED BY <3>2, <3>3, <3>4
  <2>6. p # y
    BY <2>2, <2>5
  <2> DEFINE A == U \ {p}
             B == U \ {y}
             C == U \ {p, y}
  <2>7. SumOf(on(A)) = f[y] + SumOf(on(C))
    <3>1. A \in SUBSET U /\ A # U /\ y \in A /\ A \ {y} = C /\ A \in SUBSET S
      BY <2>2, <2>3, <2>6
    <3>2. A \notin Bad
      BY <2>1, <3>1
    <3> QED BY <3>1, <3>2
  <2>8. SumOf(on(B)) = f[p] + SumOf(on(C))
    <3>1. B \in SUBSET U /\ B # U /\ p \in B /\ B \ {p} = C /\ B \in SUBSET S
      BY <2>2, <2>3, <2>6
    <3>2. B \notin Bad
      BY <2>1, <3>1
    <3> QED BY <3>1, <3>2
  <2>9. SumOf(on(U)) = f[p] + SumOf(on(A))
    BY <2>2, <2>5
  <2>10. f[p] \in Int /\ f[y] \in Int /\ SumOf(on(C)) \in Int
    BY <2>2, <2>3, <2>4
  <2> HIDE DEF on, A, B, C, p
  <2>11. SumOf(on(U)) = f[y] + SumOf(on(B))
    BY <2>7, <2>8, <2>9, <2>10
  <2> QED BY <2>2, <2>11 DEF B
<1>2. on(S) = f /\ on(S \ {x}) = Without(f, S, x)
  BY DEF Without
<1>3. SumOf(on(S)) = f[x] + SumOf(on(S \ {x}))
  BY <1>1
<1> QED BY <1>2, <1>3

(* The sum over some of the rows.                                          *)
Over(f, U) == SumOf([x \in U |-> f[x]])

LEMMA OverAll == ASSUME NEW S, NEW f \in [S -> Int] PROVE Over(f, S) = SumOf(f)
<1>1. [x \in S |-> f[x]] = f
  OBVIOUS
<1> QED BY <1>1 DEF Over

LEMMA OverFacts ==
  ASSUME NEW S, IsFiniteSet(S), NEW f \in [S -> Int], NEW U \in SUBSET S
  PROVE  /\ Over(f, U) \in Int
         /\ U = {} => Over(f, U) = 0
         /\ \A x \in U : Over(f, U) = f[x] + Over(f, U \ {x})
<1> DEFINE k == [y \in U |-> f[y]]
<1>1. IsFiniteSet(U) /\ k \in [U -> Int]
  BY FS_Subset
<1>2. SumOf(k) \in Int
  <2> HIDE DEF k
  <2> QED BY <1>1, SumInt
<1>3. U = {} => SumOf(k) = 0
  <2> HIDE DEF k
  <2> QED BY <1>1, SumEmpty
<1>4. ASSUME NEW x \in U PROVE SumOf(k) = f[x] + Over(f, U \ {x})
  <2>1. Without(k, U, x) = [y \in U \ {x} |-> f[y]] /\ k[x] = f[x]
    BY DEF Without
  <2>2. SumOf(k) = k[x] + SumOf(Without(k, U, x))
    <3> HIDE DEF k
    <3> QED BY <1>1, SumOut
  <2> QED BY <2>1, <2>2 DEF Over
<1> QED BY <1>2, <1>3, <1>4 DEF Over

(* One row changes, and the sum by as much.                                *)
LEMMA SumUpdate ==
  ASSUME NEW S, IsFiniteSet(S), NEW f \in [S -> Int], NEW g \in [S -> Int],
         NEW x \in S, \A y \in S \ {x} : f[y] = g[y]
  PROVE  SumOf(g) = SumOf(f) + g[x] - f[x]
<1>1. Without(f, S, x) = Without(g, S, x)
  BY DEF Without
<1>2. SumOf(Without(f, S, x)) \in Int
  BY WithoutType, SumInt
<1>3. SumOf(f) = f[x] + SumOf(Without(f, S, x)) /\ SumOf(g) = g[x] + SumOf(Without(g, S, x))
  BY SumOut
<1> QED BY <1>1, <1>2, <1>3

(* A row is added at the end of a sequence of them.                        *)
LEMMA SumNext ==
  ASSUME NEW n \in Nat, NEW f \in [1 .. n -> Int], NEW g \in [1 .. n + 1 -> Int],
         \A i \in 1 .. n : f[i] = g[i]
  PROVE  SumOf(g) = SumOf(f) + g[n + 1]
<1>1. IsFiniteSet(1 .. n) /\ IsFiniteSet(1 .. n + 1) /\ n + 1 \in 1 .. n + 1
  BY FS_Interval
<1>2. Without(g, 1 .. n + 1, n + 1) = f
  <2>1. (1 .. n + 1) \ {n + 1} = 1 .. n
    OBVIOUS
  <2> QED BY <2>1 DEF Without
<1>3. SumOf(g) = g[n + 1] + SumOf(Without(g, 1 .. n + 1, n + 1))
  BY <1>1, SumOut
<1>4. SumOf(f) \in Int /\ g[n + 1] \in Int
  BY <1>1, SumInt
<1> QED BY <1>2, <1>3, <1>4

LEMMA SumPlus ==
  ASSUME NEW S, IsFiniteSet(S), NEW f \in [S -> Int], NEW g \in [S -> Int],
         NEW h \in [S -> Int], \A x \in S : h[x] = f[x] + g[x]
  PROVE  SumOf(h) = SumOf(f) + SumOf(g)
<1> DEFINE Bad == {U \in SUBSET S : Over(h, U) # Over(f, U) + Over(g, U)}
<1>1. Bad = {}
  <2> SUFFICES ASSUME Bad # {} PROVE FALSE
    OBVIOUS
  <2>1. PICK U \in Bad : \A V \in SUBSET U : V # U => V \notin Bad
    <3>1. Bad \in SUBSET SUBSET S
      OBVIOUS
    <3> HIDE DEF Bad
    <3> QED BY <3>1, SmallestSubset
  <2>2. CASE U = {}
    BY <2>2, OverFacts
  <2>3. CASE U # {}
    <3>1. PICK x \in U : TRUE
      BY <2>3
    <3>2. U \ {x} \in SUBSET S /\ U \ {x} # U /\ x \in S /\ U \in SUBSET S
      BY <3>1
    <3>3. Over(h, U \ {x}) = Over(f, U \ {x}) + Over(g, U \ {x})
      BY <2>1, <3>2
    <3>4. Over(f, U \ {x}) \in Int /\ Over(g, U \ {x}) \in Int
      BY <3>2, OverFacts
    <3>5. /\ Over(f, U) = f[x] + Over(f, U \ {x}) /\ Over(g, U) = g[x] + Over(g, U \ {x})
          /\ Over(h, U) = h[x] + Over(h, U \ {x})
      BY <3>2, OverFacts
    <3>6. f[x] \in Int /\ g[x] \in Int /\ h[x] = f[x] + g[x]
      BY <3>2
    <3>7. Over(h, U) = Over(f, U) + Over(g, U)
      BY <3>3, <3>4, <3>5, <3>6
    <3> QED BY <3>7
  <2> QED BY <2>2, <2>3
<1>2. Over(h, S) = Over(f, S) + Over(g, S)
  BY <1>1
<1> QED BY <1>2, OverAll

LEMMA SumZero ==
  ASSUME NEW S, IsFiniteSet(S), NEW f \in [S -> Int], \A x \in S : f[x] = 0
  PROVE  SumOf(f) = 0
<1>1. SumOf(f) = SumOf(f) + SumOf(f)
  BY SumPlus
<1>2. SumOf(f) \in Int
  BY SumInt
<1> QED BY <1>1, <1>2

LEMMA SumMinus ==
  ASSUME NEW S, IsFiniteSet(S), NEW f \in [S -> Int], NEW g \in [S -> Int],
         NEW h \in [S -> Int], \A x \in S : h[x] = f[x] - g[x]
  PROVE  SumOf(h) = SumOf(f) - SumOf(g)
<1>1. SumOf(f) = SumOf(h) + SumOf(g)
  <2>1. \A x \in S : f[x] = h[x] + g[x]
    OBVIOUS
  <2> QED BY <2>1, SumPlus
<1>2. SumOf(f) \in Int /\ SumOf(g) \in Int /\ SumOf(h) \in Int
  BY SumInt
<1> QED BY <1>1, <1>2

(* Less in every row is less altogether.                                   *)
LEMMA SumAtMost ==
  ASSUME NEW S, IsFiniteSet(S), NEW f \in [S -> Int], NEW g \in [S -> Int],
         \A x \in S : f[x] <= g[x]
  PROVE  SumOf(f) <= SumOf(g)
<1> DEFINE Bad == {U \in SUBSET S : ~(Over(f, U) <= Over(g, U))}
<1>1. Bad = {}
  <2> SUFFICES ASSUME Bad # {} PROVE FALSE
    OBVIOUS
  <2>1. PICK U \in Bad : \A V \in SUBSET U : V # U => V \notin Bad
    <3>1. Bad \in SUBSET SUBSET S
      OBVIOUS
    <3> HIDE DEF Bad
    <3> QED BY <3>1, SmallestSubset
  <2>2. CASE U = {}
    <3>1. Over(f, U) = 0 /\ Over(g, U) = 0
      BY <2>2, OverFacts
    <3> QED BY <3>1
  <2>3. CASE U # {}
    <3>1. PICK x \in U : TRUE
      BY <2>3
    <3>2. U \ {x} \in SUBSET S /\ U \ {x} # U /\ x \in S /\ U \in SUBSET S
      BY <3>1
    <3>3. Over(f, U \ {x}) <= Over(g, U \ {x})
      BY <2>1, <3>2
    <3>4. Over(f, U \ {x}) \in Int /\ Over(g, U \ {x}) \in Int
      BY <3>2, OverFacts
    <3>5. Over(f, U) = f[x] + Over(f, U \ {x}) /\ Over(g, U) = g[x] + Over(g, U \ {x})
      BY <3>2, OverFacts
    <3>6. f[x] \in Int /\ g[x] \in Int /\ f[x] <= g[x]
      BY <3>2
    <3>7. Over(f, U) <= Over(g, U)
      BY <3>3, <3>4, <3>5, <3>6
    <3> QED BY <3>7
  <2> QED BY <2>2, <2>3
<1>2. Over(f, S) <= Over(g, S)
  BY <1>1
<1> QED BY <1>2, OverAll

LEMMA SumNat ==
  ASSUME NEW S, IsFiniteSet(S), NEW f \in [S -> Nat]
  PROVE  SumOf(f) \in Nat
<1> DEFINE zero == [x \in S |-> 0]
<1>1. f \in [S -> Int] /\ zero \in [S -> Int] /\ \A x \in S : zero[x] = 0 /\ zero[x] <= f[x]
  OBVIOUS
<1> HIDE DEF zero
<1>2. SumOf(zero) = 0 /\ SumOf(zero) <= SumOf(f) /\ SumOf(f) \in Int
  BY <1>1, SumZero, SumAtMost, SumInt
<1> QED BY <1>2

(* Rows that hold nothing may be left out.                                 *)
LEMMA SumSupport ==
  ASSUME NEW S, IsFiniteSet(S), NEW f \in [S -> Int], NEW T \in SUBSET S,
         \A x \in S \ T : f[x] = 0
  PROVE  SumOf(f) = SumOf([x \in T |-> f[x]])
<1> DEFINE Bad == {U \in SUBSET S : Over(f, U) # Over(f, U \cap T)}
<1>1. Bad = {}
  <2> SUFFICES ASSUME Bad # {} PROVE FALSE
    OBVIOUS
  <2>1. PICK U \in Bad : \A V \in SUBSET U : V # U => V \notin Bad
    <3>1. Bad \in SUBSET SUBSET S
      OBVIOUS
    <3> HIDE DEF Bad
    <3> QED BY <3>1, SmallestSubset
  <2>2. PICK x \in U : x \notin T
    <3>1. U \cap T # U
      OBVIOUS
    <3> QED BY <3>1
  <2>3. U \ {x} \in SUBSET S /\ U \ {x} # U /\ x \in S \ T /\ (U \ {x}) \cap T = U \cap T
    BY <2>2
  <2>4. Over(f, U \ {x}) = Over(f, U \cap T)
    BY <2>1, <2>3
  <2>5. Over(f, U) = f[x] + Over(f, U \ {x}) /\ Over(f, U \ {x}) \in Int
    BY <2>3, OverFacts
  <2> QED BY <2>3, <2>4, <2>5
<1>2. Over(f, S) = Over(f, S \cap T) /\ S \cap T = T
  BY <1>1
<1> QED BY <1>2, OverAll DEF Over

(* The rows of a part, as a sum over all of them.                          *)
LEMMA SumPart ==
  ASSUME NEW S, IsFiniteSet(S), NEW T \in SUBSET S, NEW f, \A x \in T : f[x] \in Int
  PROVE  SumOf([x \in T |-> f[x]]) = SumOf([x \in S |-> IF x \in T THEN f[x] ELSE 0])
<1> DEFINE g == [x \in S |-> IF x \in T THEN f[x] ELSE 0]
<1>1. g \in [S -> Int] /\ (\A x \in S \ T : g[x] = 0) /\ \A x \in T : g[x] = f[x]
  OBVIOUS
<1>2. [x \in T |-> g[x]] = [x \in T |-> f[x]]
  BY <1>1
<1> HIDE DEF g
<1>3. SumOf(g) = SumOf([x \in T |-> g[x]])
  BY <1>1, SumSupport
<1> QED BY <1>2, <1>3 DEF g

(* A table adds up alike by rows and by columns.                           *)
LEMMA SumSwap ==
  ASSUME NEW S, IsFiniteSet(S), NEW T, IsFiniteSet(T), NEW f \in [S -> [T -> Int]]
  PROVE  SumOf([x \in S |-> SumOf(f[x])]) = SumOf([y \in T |-> SumOf([x \in S |-> f[x][y]])])
<1> DEFINE row == [x \in S |-> SumOf(f[x])]
           col(y) == [x \in S |-> f[x][y]]
           cols(U) == [y \in T |-> Over(col(y), U)]
           Bad == {U \in SUBSET S : Over(row, U) # SumOf(cols(U))}
<1>1. row \in [S -> Int] /\ \A y \in T : col(y) \in [S -> Int]
  <2>1. \A x \in S : SumOf(f[x]) \in Int
    BY SumInt
  <2> QED BY <2>1
<1>2. \A U \in SUBSET S : cols(U) \in [T -> Int]
  <2> SUFFICES ASSUME NEW U \in SUBSET S, NEW y \in T PROVE Over(col(y), U) \in Int
    OBVIOUS
  <2> HIDE DEF col
  <2> QED BY <1>1, OverFacts
<1>3. Bad = {}
  <2> SUFFICES ASSUME Bad # {} PROVE FALSE
    OBVIOUS
  <2>1. PICK U \in Bad : \A V \in SUBSET U : V # U => V \notin Bad
    <3>1. Bad \in SUBSET SUBSET S
      OBVIOUS
    <3> HIDE DEF Bad
    <3> QED BY <3>1, SmallestSubset
  <2>2. CASE U = {}
    <3>1. \A y \in T : cols(U)[y] = 0
      <4> SUFFICES ASSUME NEW y \in T PROVE Over(col(y), U) = 0
        OBVIOUS
      <4> HIDE DEF col
      <4> QED BY <1>1, <2>2, OverFacts
    <3>2. SumOf(cols(U)) = 0
      <4>1. cols(U) \in [T -> Int]
        BY <1>2
      <4> HIDE DEF cols
      <4> QED BY <3>1, <4>1, SumZero
    <3>3. Over(row, U) = 0
      <4> HIDE DEF row
      <4> QED BY <1>1, <2>2, OverFacts
    <3> QED BY <3>2, <3>3
  <2>3. CASE U # {}
    <3>1. PICK x \in U : TRUE
      BY <2>3
    <3> DEFINE V == U \ {x}
    <3>2. V \in SUBSET S /\ V # U /\ x \in S /\ U \in SUBSET S /\ V \in SUBSET U
      BY <3>1
    <3>3. Over(row, V) = SumOf(cols(V))
      BY <2>1, <3>2
    <3>4. Over(row, U) = row[x] + Over(row, V) /\ row[x] = SumOf(f[x])
      <4>1. row[x] = SumOf(f[x])
        BY <3>2
      <4> HIDE DEF row
      <4> QED BY <1>1, <3>2, <4>1, OverFacts
    <3>5. \A y \in T : cols(U)[y] = f[x][y] + cols(V)[y]
      <4> SUFFICES ASSUME NEW y \in T PROVE Over(col(y), U) = f[x][y] + Over(col(y), V)
        OBVIOUS
      <4>1. col(y)[x] = f[x][y]
        BY <3>2
      <4> HIDE DEF col
      <4> QED BY <1>1, <3>2, <4>1, OverFacts
    <3>6. SumOf(cols(U)) = SumOf(f[x]) + SumOf(cols(V))
      <4>1. cols(U) \in [T -> Int] /\ cols(V) \in [T -> Int] /\ f[x] \in [T -> Int]
        BY <1>2, <3>2
      <4> HIDE DEF cols, V
      <4> QED BY <3>5, <4>1, SumPlus
    <3> QED BY <3>3, <3>4, <3>6
  <2> QED BY <2>2, <2>3
<1>4. Over(row, S) = SumOf(cols(S))
  BY <1>3
<1>5. Over(row, S) = SumOf(row)
  <2> HIDE DEF row
  <2> QED BY <1>1, OverAll
<1>6. cols(S) = [y \in T |-> SumOf(col(y))]
  <2> SUFFICES ASSUME NEW y \in T PROVE Over(col(y), S) = SumOf(col(y))
    OBVIOUS
  <2> HIDE DEF col
  <2> QED BY <1>1, OverAll
<1> QED BY <1>4, <1>5, <1>6

-----------------------------------------------------------------------------
(* The rows of a list at some positions *)

(* The rows are numbers, which most steps need not know.                   *)
Among(T, m) == T \subseteq 1 .. m

Upto(T, k)  == {j \in T : j <= k}
Below(T, k) == {j \in T : j < k}

LEMMA Prefixes ==
  ASSUME NEW m \in Nat, NEW T, Among(T, m)
  PROVE  /\ IsFiniteSet(T) /\ Cardinality(T) \in Nat
         /\ Upto(T, 0) = {} /\ Upto(T, m) = T
         /\ \A k : Upto(T, k) \in SUBSET T /\ Below(T, k) \in SUBSET T
         /\ \A k \in Nat : IF k + 1 \in T
                           THEN /\ Upto(T, k + 1) = Upto(T, k) \cup {k + 1}
                                /\ k + 1 \notin Upto(T, k) /\ Below(T, k + 1) = Upto(T, k)
                                /\ Upto(T, k + 1) \ {k + 1} = Upto(T, k)
                                /\ k + 1 \in Upto(T, k + 1)
                           ELSE Upto(T, k + 1) = Upto(T, k)
<1>1. \A j \in T : j \in Int /\ 0 < j /\ j <= m
  BY DEF Among
<1>2. IsFiniteSet(T) /\ Cardinality(T) \in Nat
  <2>1. IsFiniteSet(1 .. m)
    BY FS_Interval
  <2> QED BY <2>1, FS_Subset, FS_CardinalityType DEF Among
<1>3. ASSUME NEW k \in Nat, k + 1 \in T
      PROVE  /\ Upto(T, k + 1) = Upto(T, k) \cup {k + 1}
             /\ k + 1 \notin Upto(T, k) /\ Below(T, k + 1) = Upto(T, k)
             /\ Upto(T, k + 1) \ {k + 1} = Upto(T, k)
             /\ k + 1 \in Upto(T, k + 1)
  <2>1. \A j \in T : /\ j <= k + 1 <=> j <= k \/ j = k + 1
                     /\ j < k + 1 <=> j <= k
    BY <1>1
  <2>2. ~(k + 1 <= k) /\ k + 1 <= k + 1
    OBVIOUS
  <2>3. Below(T, k + 1) = Upto(T, k)
    BY <2>1 DEF Upto, Below
  <2>4. Upto(T, k + 1) = Upto(T, k) \cup {k + 1}
    BY <1>3, <2>1 DEF Upto
  <2>5. k + 1 \notin Upto(T, k)
    BY <2>2 DEF Upto
  <2> QED BY <2>3, <2>4, <2>5
<1>4. ASSUME NEW k \in Nat, k + 1 \notin T PROVE Upto(T, k + 1) = Upto(T, k)
  <2>1. \A j \in T : j <= k + 1 <=> j <= k
    BY <1>1, <1>4
  <2> QED BY <2>1 DEF Upto
<1>5. Upto(T, 0) = {} /\ Upto(T, m) = T
  <2>1. \A j \in T : ~(j <= 0)
    BY <1>1
  <2>2. Upto(T, 0) = {}
    BY <2>1 DEF Upto
  <2> QED BY <1>1, <2>2 DEF Upto
<1>6. \A k : Upto(T, k) \in SUBSET T /\ Below(T, k) \in SUBSET T
  BY DEF Upto, Below
<1> QED BY <1>2, <1>3, <1>4, <1>5, <1>6

(* The n-th of a set is there.                                             *)
LEMMA NthIn ==
  ASSUME NEW m \in Nat, NEW T, Among(T, m), NEW n \in 1 .. Cardinality(T)
  PROVE  Nth(T, n) \in T /\ Cardinality(Below(T, Nth(T, n))) = n - 1
<1> DEFINE U == {k \in Nat : Cardinality(Upto(T, k)) < n}
<1>0. /\ IsFiniteSet(T) /\ Cardinality(T) \in Nat
      /\ Upto(T, 0) = {} /\ Upto(T, m) = T
      /\ \A k : Upto(T, k) \in SUBSET T
      /\ \A k \in Nat : k + 1 \notin T => Upto(T, k + 1) = Upto(T, k)
  BY Prefixes
<1>1. \A k : IsFiniteSet(Upto(T, k)) /\ Cardinality(Upto(T, k)) \in Nat
  BY <1>0, FS_Subset, FS_CardinalityType
<1>2. \E i \in T : Cardinality(Below(T, i)) = n - 1
  <2> SUFFICES ASSUME \A i \in T : Cardinality(Below(T, i)) # n - 1 PROVE FALSE
    OBVIOUS
  <2>1. 0 \in U
    <3>1. Upto(T, 0) = {} /\ Cardinality({}) = 0
      BY <1>0, FS_EmptySet
    <3> QED BY <3>1
  <2>2. ASSUME NEW k \in Nat, k \in U PROVE k + 1 \in U
    <3>1. CASE k + 1 \in T
      <4>1. /\ Upto(T, k + 1) = Upto(T, k) \cup {k + 1} /\ k + 1 \notin Upto(T, k)
            /\ Below(T, k + 1) = Upto(T, k)
        BY <3>1, Prefixes
      <4>2. Cardinality(Upto(T, k + 1)) = Cardinality(Upto(T, k)) + 1
        BY <1>1, <4>1, FS_AddElement
      <4>3. Cardinality(Upto(T, k)) # n - 1 /\ Cardinality(Upto(T, k)) < n
        BY <2>2, <3>1, <4>1
      <4>4. Cardinality(Upto(T, k)) \in Nat
        BY <1>1
      <4>5. Cardinality(Upto(T, k + 1)) < n
        BY <4>2, <4>3, <4>4
      <4> QED BY <4>5
    <3>2. CASE k + 1 \notin T
      BY <1>0, <2>2, <3>2
    <3> QED BY <3>1, <3>2
  <2>3. m \in U
    <3> HIDE DEF U
    <3> QED BY <2>1, <2>2, Counting
  <2>4. Cardinality(T) < n
    BY <1>0, <2>3
  <2> QED BY <1>0, <2>4
<1> QED BY <1>2 DEF Nth, Below

(* Each position is the n-th for one n.                                    *)
LEMMA NthOf ==
  ASSUME NEW m \in Nat, NEW T, Among(T, m), NEW i \in T
  PROVE  \E n \in 1 .. Cardinality(T) : Nth(T, n) = i
<1>0. /\ IsFiniteSet(T) /\ Cardinality(T) \in Nat
      /\ \A k : Below(T, k) \in SUBSET T
  BY Prefixes
<1>a. \A j \in T : j \in Int
  BY DEF Among
<1>1. \A k : IsFiniteSet(Below(T, k)) /\ Cardinality(Below(T, k)) \in Nat
  BY <1>0, FS_Subset, FS_CardinalityType
<1>2. ASSUME NEW j \in T, NEW k \in T, j < k
      PROVE  Cardinality(Below(T, j)) < Cardinality(Below(T, k))
  <2>1. Below(T, j) \subseteq Below(T, k) /\ j \in Below(T, k) /\ j \notin Below(T, j)
    BY <1>a, <1>2 DEF Below
  <2> QED BY <1>1, <2>1, FS_Subset
<1> DEFINE n == Cardinality(Below(T, i)) + 1
<1>3. Cardinality(Below(T, i)) < Cardinality(T)
  <2>1. PICK U : U = Below(T, i)
    OBVIOUS
  <2>2. U \subseteq T /\ i \notin U /\ i \in T
    BY <1>a, <2>1 DEF Below
  <2>3. Cardinality(U) <= Cardinality(T) /\ Cardinality(U) # Cardinality(T)
    BY <1>0, <2>2, FS_Subset
  <2> QED BY <1>0, <1>1, <2>1, <2>3
<1>4. n \in 1 .. Cardinality(T)
  BY <1>0, <1>1, <1>3
<1>5. Nth(T, n) \in T /\ Cardinality(Below(T, Nth(T, n))) = Cardinality(Below(T, i))
  <2>1. n - 1 = Cardinality(Below(T, i))
    BY <1>1
  <2> HIDE DEF n
  <2> QED BY <1>4, <2>1, NthIn
<1>6. Nth(T, n) = i
  <2> HIDE DEF n
  <2>1. PICK k : k = Nth(T, n)
    OBVIOUS
  <2>2. k \in T /\ Cardinality(Below(T, k)) = Cardinality(Below(T, i))
    BY <1>5, <2>1
  <2>3. ~(k < i) /\ ~(i < k)
    BY <1>1, <1>2, <2>2
  <2> QED BY <1>a, <2>1, <2>2, <2>3
<1> QED BY <1>4, <1>6

LEMMA PickedFacts ==
  ASSUME NEW m \in Nat, NEW T, Among(T, m), NEW list
  PROVE  /\ Picked(list, T) \in Seq({list[i] : i \in T})
         /\ Cardinality(T) \in Nat /\ DOMAIN Picked(list, T) = 1 .. Cardinality(T)
         /\ \A n \in DOMAIN Picked(list, T) : \E i \in T : Picked(list, T)[n] = list[i]
         /\ \A i \in T : \E n \in DOMAIN Picked(list, T) : Picked(list, T)[n] = list[i]
<1>1. Cardinality(T) \in Nat
  BY Prefixes
<1>2. \A n \in 1 .. Cardinality(T) : Nth(T, n) \in T
  BY NthIn
<1>3. Picked(list, T) \in [1 .. Cardinality(T) -> {list[i] : i \in T}]
  BY <1>2 DEF Picked
<1>4. Picked(list, T) \in Seq({list[i] : i \in T})
  BY <1>1, <1>3
<1>5. ASSUME NEW i \in T
      PROVE  \E n \in 1 .. Cardinality(T) : Picked(list, T)[n] = list[i]
  <2>1. PICK n \in 1 .. Cardinality(T) : Nth(T, n) = i
    BY NthOf
  <2> QED BY <2>1 DEF Picked
<1> QED BY <1>1, <1>2, <1>3, <1>4, <1>5 DEF Picked

-----------------------------------------------------------------------------
(* Sums by parts                                                           *)

(* The rows of a part, as a sum over all: the form sums are compared in.   *)
Masked(f, S, U) == [x \in S |-> IF x \in U THEN f[x] ELSE 0]

LEMMA OverMasked ==
  ASSUME NEW S, IsFiniteSet(S), NEW f \in [S -> Int], NEW U \in SUBSET S
  PROVE  Masked(f, S, U) \in [S -> Int] /\ Over(f, U) = SumOf(Masked(f, S, U))
<1>1. \A x \in U : f[x] \in Int
  OBVIOUS
<1>2. Over(f, U) = SumOf([x \in S |-> IF x \in U THEN f[x] ELSE 0])
  BY <1>1, SumPart DEF Over
<1> QED BY <1>2 DEF Masked

LEMMA OverUnion ==
  ASSUME NEW S, IsFiniteSet(S), NEW f \in [S -> Int], NEW U \in SUBSET S, NEW V \in SUBSET S,
         U \cap V = {}
  PROVE  Over(f, U \cup V) = Over(f, U) + Over(f, V)
<1>1. U \cup V \in SUBSET S
  OBVIOUS
<1>2. /\ Over(f, U) = SumOf(Masked(f, S, U)) /\ Over(f, V) = SumOf(Masked(f, S, V))
      /\ Over(f, U \cup V) = SumOf(Masked(f, S, U \cup V))
      /\ Masked(f, S, U) \in [S -> Int] /\ Masked(f, S, V) \in [S -> Int]
      /\ Masked(f, S, U \cup V) \in [S -> Int]
  BY <1>1, OverMasked
<1>3. \A x \in S : Masked(f, S, U \cup V)[x] = Masked(f, S, U)[x] + Masked(f, S, V)[x]
  BY DEF Masked
<1> DEFINE u == Masked(f, S, U)
           v == Masked(f, S, V)
           w == Masked(f, S, U \cup V)
<1>4. /\ u \in [S -> Int] /\ v \in [S -> Int] /\ w \in [S -> Int]
      /\ \A x \in S : w[x] = u[x] + v[x]
  BY <1>2, <1>3
<1> HIDE DEF u, v, w
<1>5. SumOf(w) = SumOf(u) + SumOf(v)
  BY <1>4, SumPlus
<1> QED BY <1>2, <1>5 DEF u, v, w

(* A sum with one row that counts.                                         *)
LEMMA SumOne ==
  ASSUME NEW S, IsFiniteSet(S), NEW f \in [S -> Int], NEW x \in S, \A y \in S \ {x} : f[y] = 0
  PROVE  SumOf(f) = f[x]
<1> DEFINE z == [y \in S |-> 0]
<1>1. z \in [S -> Int] /\ (\A y \in S : z[y] = 0) /\ \A y \in S \ {x} : z[y] = f[y]
  OBVIOUS
<1> HIDE DEF z
<1>2. SumOf(z) = 0 /\ SumOf(f) = SumOf(z) + f[x] - z[x]
  BY <1>1, SumZero, SumUpdate
<1> QED BY <1>1, <1>2

(* Parts that do not meet: what they hold together is the sum of the parts.*)
LEMMA OverParts ==
  ASSUME NEW S, IsFiniteSet(S), NEW f \in [S -> Int], NEW D, IsFiniteSet(D),
         NEW P \in [D -> SUBSET S], \A d, e \in D : d # e => P[d] \cap P[e] = {},
         NEW U \in SUBSET S, \A x \in S : x \in U <=> \E d \in D : x \in P[d]
  PROVE  /\ [d \in D |-> Over(f, P[d])] \in [D -> Int]
         /\ Over(f, U) = SumOf([d \in D |-> Over(f, P[d])])
<1> DEFINE g == [d \in D |-> Masked(f, S, P[d])]
           col(x) == [d \in D |-> g[d][x]]
<1>1. /\ g \in [D -> [S -> Int]]
      /\ \A d \in D : Over(f, P[d]) = SumOf(g[d]) /\ Over(f, P[d]) \in Int
  <2>1. ASSUME NEW d \in D
        PROVE  g[d] \in [S -> Int] /\ Over(f, P[d]) = SumOf(g[d]) /\ Over(f, P[d]) \in Int
    <3>1. P[d] \in SUBSET S
      OBVIOUS
    <3> QED BY <3>1, OverMasked, OverFacts
  <2> QED BY <2>1
<1>2. SumOf([d \in D |-> SumOf(g[d])]) = SumOf([x \in S |-> SumOf(col(x))])
  <2> HIDE DEF g
  <2> QED BY <1>1, SumSwap
<1>3. ASSUME NEW x \in S PROVE SumOf(col(x)) = Masked(f, S, U)[x]
  <2>1. col(x) \in [D -> Int] /\ \A d \in D : col(x)[d] = IF x \in P[d] THEN f[x] ELSE 0
    BY DEF Masked
  <2> HIDE DEF col
  <2>2. CASE x \in U
    <3>1. PICK d \in D : x \in P[d]
      BY <2>2
    <3>2. \A e \in D \ {d} : col(x)[e] = 0
      BY <2>1, <3>1
    <3>3. SumOf(col(x)) = col(x)[d]
      BY <2>1, <3>2, SumOne
    <3> QED BY <2>1, <2>2, <3>1, <3>3 DEF Masked
  <2>3. CASE x \notin U
    <3>1. \A d \in D : col(x)[d] = 0
      BY <2>1, <2>3
    <3>2. SumOf(col(x)) = 0
      BY <2>1, <3>1, SumZero
    <3> QED BY <2>3, <3>2 DEF Masked
  <2> QED BY <2>2, <2>3
<1>4. [x \in S |-> SumOf(col(x))] = Masked(f, S, U)
  <2>1. Masked(f, S, U) = [x \in S |-> Masked(f, S, U)[x]]
    BY DEF Masked
  <2> HIDE DEF col
  <2> QED BY <1>3, <2>1
<1>5. [d \in D |-> Over(f, P[d])] = [d \in D |-> SumOf(g[d])]
  BY <1>1
<1> HIDE DEF g, col
<1> QED BY <1>1, <1>2, <1>4, <1>5, OverMasked

LEMMA SumTimes ==
  ASSUME NEW S, IsFiniteSet(S), NEW f \in [S -> Int], NEW g \in [S -> Int],
         \A x \in S : g[x] = 100 * f[x]
  PROVE  SumOf(g) = 100 * SumOf(f)
<1> DEFINE Bad == {U \in SUBSET S : Over(g, U) # 100 * Over(f, U)}
<1>1. Bad = {}
  <2> SUFFICES ASSUME Bad # {} PROVE FALSE
    OBVIOUS
  <2>1. PICK U \in Bad : \A V \in SUBSET U : V # U => V \notin Bad
    <3>1. Bad \in SUBSET SUBSET S
      OBVIOUS
    <3> HIDE DEF Bad
    <3> QED BY <3>1, SmallestSubset
  <2>2. CASE U = {}
    BY <2>2, OverFacts
  <2>3. CASE U # {}
    <3>1. PICK x \in U : TRUE
      BY <2>3
    <3>2. U \ {x} \in SUBSET S /\ U \ {x} # U /\ x \in S /\ U \in SUBSET S
      BY <3>1
    <3>3. Over(g, U \ {x}) = 100 * Over(f, U \ {x})
      BY <2>1, <3>2
    <3>4. Over(f, U \ {x}) \in Int
      BY <3>2, OverFacts
    <3>5. Over(f, U) = f[x] + Over(f, U \ {x}) /\ Over(g, U) = g[x] + Over(g, U \ {x})
      BY <3>2, OverFacts
    <3>6. f[x] \in Int /\ g[x] = 100 * f[x]
      BY <3>2
    <3>7. Over(g, U) = 100 * Over(f, U)
      BY <3>3, <3>4, <3>5, <3>6
    <3> QED BY <3>7
  <2> QED BY <2>2, <2>3
<1>2. Over(g, S) = 100 * Over(f, S)
  BY <1>1
<1> QED BY <1>2, OverAll

=============================================================================
