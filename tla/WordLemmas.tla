----------------------------- MODULE WordLemmas -----------------------------
(***************************************************************************)
(* Facts about the operators of Words that the proofs of the components    *)
(* rest on: induction over the natural numbers by way of the least         *)
(* counterexample, weights, sums over finite sets, and the order of byte   *)
(* strings.                                                                *)
(***************************************************************************)
EXTENDS Words, TLAPS, WellFoundedInduction, FiniteSetTheorems

(* A nonempty set of naturals has the minimum FiniteSetsExt chooses.       *)
LEMMA MinOfNats ==
    ASSUME NEW S \in SUBSET Nat, S # {}
    PROVE  Min(S) \in S /\ \A y \in S : Min(S) <= y
<1>1. PICK x \in S : \A y \in S : <<y, x>> \notin OpToRel(<, Nat)
  BY NatLessThanWellFounded, WFMin, Zenon
<1>2. \A y \in S : ~(y < x)
  BY <1>1, Zenon DEF OpToRel
<1>3. \A y \in S : x <= y
  BY <1>2
<1> QED
  BY <1>3 DEF Min

(* A bounded one has the maximum.                                          *)
LEMMA MaxOfNats ==
    ASSUME NEW n \in Nat, NEW S \in SUBSET (0..n), S # {}
    PROVE  Max(S) \in S /\ \A y \in S : y <= Max(S)
<1> DEFINE U == {b \in Nat : \A y \in S : y <= b}
           m == Min(U)
<1>1. U \in SUBSET Nat /\ n \in U
  OBVIOUS
<1>2. m \in U /\ \A b \in U : m <= b
  BY <1>1, MinOfNats
<1> HIDE DEF m
<1>3. m \in S
  <2> SUFFICES ASSUME m \notin S PROVE FALSE
    OBVIOUS
  <2>1. PICK y \in S : TRUE
    OBVIOUS
  <2>2. m - 1 \in Nat /\ \A z \in S : z <= m - 1
    BY <1>2, <2>1
  <2>3. m - 1 \in U
    BY <2>2
  <2> QED
    BY <1>2, <2>3
<1>4. \E x \in S : \A y \in S : x >= y
  BY <1>2, <1>3
<1>5. Max(S) \in S /\ \A y \in S : Max(S) >= y
  BY <1>4 DEF Max
<1> QED
  BY <1>5

(* A set of naturals that holds 0 and with every member the next one holds *)
(* them all.                                                               *)
LEMMA NatSetInduction ==
    ASSUME NEW S, 0 \in S, \A n \in Nat : n \in S => n + 1 \in S
    PROVE  \A n \in Nat : n \in S
<1> SUFFICES ASSUME NEW n \in Nat, n \notin S PROVE FALSE
  OBVIOUS
<1> DEFINE Bad == Nat \ S
           m == Min(Bad)
<1>1. Bad \in SUBSET Nat /\ Bad # {}
  OBVIOUS
<1>2. m \in Bad /\ \A y \in Bad : m <= y
  BY <1>1, MinOfNats
<1>3. m # 0 /\ m \in Nat
  BY <1>2
<1>4. m - 1 \in Nat /\ m - 1 \notin Bad
  BY <1>2, <1>3
<1> QED
  BY <1>2, <1>3, <1>4

(* A function over the naturals may be defined by its first value and a    *)
(* step from each value to the next.                                       *)
IsStep(step, V) == step \in [Nat \X V -> V]

Follows(f, base, step) ==
    f[0] = base /\ \A k \in Nat : f[k + 1] = step[<<k, f[k]>>]

(* There is one such function for every step.                              *)
LEMMA RecursionExists ==
    ASSUME NEW V, NEW base \in V, NEW step, IsStep(step, V)
    PROVE  \E f \in [Nat -> V] : Follows(f, base, step)
<1> USE DEF IsStep
<1> DEFINE Good(g, n) == /\ g \in [0..n -> V] /\ g[0] = base
                         /\ \A k \in Nat : k < n => g[k + 1] = step[<<k, g[k]>>]
           N == {n \in Nat : \E g : Good(g, n)}
<1>1. 0 \in N
  <2> DEFINE g0 == [k \in 0..0 |-> base]
  <2>1. Good(g0, 0)
    OBVIOUS
  <2> QED
    BY <2>1
<1>2. ASSUME NEW n \in Nat, n \in N PROVE n + 1 \in N
  <2>1. PICK g : Good(g, n)
    BY <1>2
  <2> DEFINE g1 == [k \in 0..(n + 1) |-> IF k = n + 1 THEN step[<<n, g[n]>>] ELSE g[k]]
  <2>2. g[n] \in V /\ step[<<n, g[n]>>] \in V
    BY <2>1
  <2>3. g1 \in [0..(n + 1) -> V] /\ g1[0] = base
    BY <2>1, <2>2
  <2>4. \A k \in Nat : k < n + 1 => g1[k + 1] = step[<<k, g1[k]>>]
    <3> SUFFICES ASSUME NEW k \in Nat, k < n + 1 PROVE g1[k + 1] = step[<<k, g1[k]>>]
      OBVIOUS
    <3>1. g1[k] = g[k]
      OBVIOUS
    <3>2. CASE k = n
      <4>1. g1[n + 1] = step[<<n, g[n]>>]
        OBVIOUS
      <4> HIDE DEF g1
      <4> QED
        BY <3>1, <3>2, <4>1
    <3>3. CASE k < n
      <4>1. g1[k + 1] = g[k + 1] /\ g[k + 1] = step[<<k, g[k]>>]
        BY <2>1, <3>3
      <4> QED
        BY <3>1, <4>1
    <3> QED
      BY <3>2, <3>3
  <2> HIDE DEF g1
  <2>5. Good(g1, n + 1)
    BY <2>3, <2>4
  <2> QED
    BY <2>5
<1> HIDE DEF N
<1>3. \A n \in Nat : n \in N
  BY <1>1, <1>2, NatSetInduction
<1> USE DEF N
<1>4. ASSUME NEW n \in Nat, NEW m \in Nat, n <= m, NEW g, Good(g, n), NEW h, Good(h, m)
      PROVE  \A k \in 0..n : g[k] = h[k]
  <2> DEFINE S == {k \in Nat : k <= n => g[k] = h[k]}
  <2>1. 0 \in S
    BY <1>4
  <2>2. ASSUME NEW k \in Nat, k \in S PROVE k + 1 \in S
    <3> SUFFICES ASSUME k < n PROVE g[k + 1] = h[k + 1]
      OBVIOUS
    <3>1. g[k + 1] = step[<<k, g[k]>>] /\ h[k + 1] = step[<<k, h[k]>>]
      BY <1>4
    <3>2. g[k] = h[k]
      BY <2>2
    <3> QED
      BY <3>1, <3>2
  <2> HIDE DEF S
  <2>3. \A k \in Nat : k \in S
    BY <2>1, <2>2, NatSetInduction
  <2> QED
    BY <2>3 DEF S
<1> DEFINE G(n) == CHOOSE g : Good(g, n)
           f == [n \in Nat |-> G(n)[n]]
<1>5. \A n \in Nat : Good(G(n), n)
  BY <1>3
<1> HIDE DEF G
<1>6. f \in [Nat -> V] /\ f[0] = base
  BY <1>5
<1>7. ASSUME NEW k \in Nat PROVE f[k + 1] = step[<<k, f[k]>>]
  <2>1. Good(G(k), k) /\ Good(G(k + 1), k + 1) /\ k <= k + 1 /\ k + 1 \in Nat
    BY <1>5
  <2>2. G(k)[k] = G(k + 1)[k]
    <3> HIDE DEF Good
    <3>1. \A j \in 0..k : G(k)[j] = G(k + 1)[j]
      BY <1>4, <2>1
    <3> QED
      BY <3>1
  <2>3. G(k + 1)[k + 1] = step[<<k, G(k + 1)[k]>>]
    BY <2>1
  <2> QED
    BY <2>2, <2>3
<1>8. Follows(f, base, step)
  BY <1>6, <1>7 DEF Follows
<1> QED
  BY <1>6, <1>8

----------------------------------------------------------------------------
(* Weights are powers of one base.                                         *)
LEMMA WeightNat ==
    /\ ByteBase \in Nat /\ ByteBase > 1
    /\ WordBytes \in Nat /\ WordBytes > 0
    /\ \A k \in 0..WordBytes : Weight[k] \in Nat /\ Weight[k] > 0
    /\ Weight[0] = 1
    /\ \A k \in Nat : k < WordBytes => Weight[k + 1] = ByteBase * Weight[k]
    /\ WordSize \in Nat /\ WordSize > 0
BY WordAssumption DEF WordSize

(* Weights multiply as their exponents add.                                *)
LEMMA WeightSum ==
    \A b \in Nat : \A a \in Nat : a + b <= WordBytes => Weight[a + b] = Weight[a] * Weight[b]
<1> DEFINE S == {b \in Nat : \A a \in Nat :
                    a + b <= WordBytes => Weight[a + b] = Weight[a] * Weight[b]}
<1>1. 0 \in S
  BY WeightNat
<1>2. ASSUME NEW b \in Nat, b \in S PROVE b + 1 \in S
  <2> SUFFICES ASSUME NEW a \in Nat, a + (b + 1) <= WordBytes
               PROVE  Weight[a + (b + 1)] = Weight[a] * Weight[b + 1]
    OBVIOUS
  <2>1. Weight[a + b] = Weight[a] * Weight[b]
    BY <1>2, WeightNat
  <2>2. Weight[(a + b) + 1] = ByteBase * Weight[a + b] /\ Weight[b + 1] = ByteBase * Weight[b]
    BY WeightNat
  <2>3. Weight[a] \in Nat /\ Weight[b] \in Nat
    BY WeightNat
  <2>4. ByteBase * (Weight[a] * Weight[b]) = Weight[a] * (ByteBase * Weight[b])
    BY <2>3, WeightNat
  <2>5. a + (b + 1) = (a + b) + 1
    OBVIOUS
  <2> QED
    BY <2>1, <2>2, <2>4, <2>5
<1> HIDE DEF S
<1>3. \A b \in Nat : b \in S
  BY <1>1, <1>2, NatSetInduction
<1> QED
  BY <1>3 DEF S

(* Multiplication by a positive number is strictly monotone.               *)
LEMMA TimesMonotone ==
    ASSUME NEW a \in Nat, NEW b \in Nat, NEW c \in Nat, a < b, c > 0
    PROVE  a * c < b * c /\ a * c \in Nat /\ b * c \in Nat
<1>1. b = a + (b - a) /\ b - a \in Nat /\ b - a >= 1
  OBVIOUS
<1> QED
  BY <1>1

(* Multiplication is monotone.                                             *)
LEMMA TimesAtLeast ==
    ASSUME NEW a \in Nat, NEW b \in Nat, NEW c \in Nat, a <= b
    PROVE  a * c <= b * c
BY TimesMonotone

(* A weight is at least twice every smaller one.                           *)
LEMMA WeightMonotone ==
    ASSUME NEW a \in Nat, NEW b \in Nat, a <= b, b <= WordBytes
    PROVE  Weight[a] <= Weight[b] /\ (a < b => Weight[a] < Weight[b] /\ 2 * Weight[a] <= Weight[b])
<1>1. \A n \in Nat : a + n <= WordBytes => Weight[a] <= Weight[a + n]
  <2> DEFINE S == {n \in Nat : a + n <= WordBytes => Weight[a] <= Weight[a + n]}
  <2>1. 0 \in S
    BY WeightNat
  <2>2. ASSUME NEW n \in Nat, n \in S PROVE n + 1 \in S
    <3> SUFFICES ASSUME a + (n + 1) <= WordBytes PROVE Weight[a] <= Weight[a + (n + 1)]
      OBVIOUS
    <3>1. Weight[a] <= Weight[a + n] /\ Weight[a + n] \in Nat /\ Weight[a] \in Nat
      BY <2>2, WeightNat
    <3>2. Weight[(a + n) + 1] = ByteBase * Weight[a + n] /\ (a + n) + 1 = a + (n + 1)
      BY WeightNat
    <3>3. 1 * Weight[a + n] <= ByteBase * Weight[a + n]
      BY <3>1, WeightNat, TimesAtLeast
    <3>4. ByteBase * Weight[a + n] \in Nat /\ 1 * Weight[a + n] = Weight[a + n]
      BY <3>1, WeightNat
    <3>5. Weight[a] <= ByteBase * Weight[a + n]
      BY <3>1, <3>3, <3>4
    <3> QED
      BY <3>2, <3>5
  <2> HIDE DEF S
  <2>3. \A n \in Nat : n \in S
    BY <2>1, <2>2, NatSetInduction
  <2> QED
    BY <2>3 DEF S
<1>2. Weight[a] <= Weight[b]
  <2>1. b - a \in Nat /\ a + (b - a) = b
    OBVIOUS
  <2> QED
    BY <1>1, <2>1
<1>3. ASSUME a < b PROVE 2 * Weight[a] <= Weight[b]
  <2>1. b - 1 \in Nat /\ b - 1 < WordBytes /\ (b - 1) + 1 = b /\ a + ((b - 1) - a) = b - 1
        /\ (b - 1) - a \in Nat
    BY <1>3, WeightNat
  <2>2. Weight[a] <= Weight[b - 1] /\ Weight[b] = ByteBase * Weight[b - 1]
    <3>1. a + ((b - 1) - a) <= WordBytes
      BY <2>1, WeightNat
    <3>2. Weight[a] <= Weight[a + ((b - 1) - a)]
      BY <1>1, <2>1, <3>1
    <3>3. Weight[a] <= Weight[b - 1]
      BY <2>1, <3>2
    <3>4. Weight[(b - 1) + 1] = ByteBase * Weight[b - 1]
      BY <2>1, WeightNat
    <3> QED
      BY <2>1, <3>3, <3>4
  <2>3. Weight[b - 1] \in Nat /\ Weight[a] \in Nat
    BY <2>1, WeightNat
  <2>4. 2 * Weight[b - 1] <= ByteBase * Weight[b - 1]
    BY <2>3, WeightNat, TimesAtLeast
  <2>5. ByteBase * Weight[b - 1] \in Nat
    BY <2>3, WeightNat
  <2> QED
    BY <2>2, <2>3, <2>4, <2>5
<1>4. Weight[a] \in Nat /\ Weight[a] > 0 /\ Weight[b] \in Nat
  BY WeightNat
<1>5. ASSUME a < b PROVE Weight[a] < Weight[b]
  BY <1>3, <1>4, <1>5
<1> QED
  BY <1>2, <1>3, <1>5

----------------------------------------------------------------------------
(* Induction over the subsets of a finite set, by taking elements out.     *)
LEMMA SubsetInduction ==
    ASSUME NEW S, IsFiniteSet(S), NEW F, {} \in F,
           \A s \in SUBSET S : s # {} /\ (\A x \in s : s \ {x} \in F) => s \in F
    PROVE  \A s \in SUBSET S : s \in F
<1> DEFINE N == {n \in Nat : \A s \in SUBSET S : Cardinality(s) = n => s \in F}
<1>1. \A s \in SUBSET S : /\ IsFiniteSet(s) /\ Cardinality(s) \in Nat
                          /\ Cardinality(s) = 0 <=> s = {}
  BY FS_Subset, FS_CardinalityType, FS_EmptySet
<1>2. 0 \in N
  BY <1>1
<1>3. ASSUME NEW n \in Nat, n \in N PROVE n + 1 \in N
  <2> SUFFICES ASSUME NEW s \in SUBSET S, Cardinality(s) = n + 1 PROVE s \in F
    OBVIOUS
  <2>1. s # {}
    BY <1>1
  <2>2. \A x \in s : s \ {x} \in SUBSET S /\ Cardinality(s \ {x}) = n
    BY <1>1, FS_RemoveElement, SMTT(20)
  <2>3. \A x \in s : s \ {x} \in F
    BY <1>3, <2>2
  <2> QED
    BY <2>1, <2>3
<1> HIDE DEF N
<1>4. \A n \in Nat : n \in N
  BY <1>2, <1>3, NatSetInduction
<1> QED
  BY <1>1, <1>4 DEF N

(* Sums over a finite set, as MapThenSumSet computes them: by taking out   *)
(* one element after the other.                                            *)
Pick(s) == CHOOSE x \in s : TRUE

Solves(g, h, S) ==
    g = [s \in SUBSET S |-> IF s = {} THEN 0 ELSE h[Pick(s)] + g[s \ {Pick(s)}]]

Partial(h, S) == CHOOSE g : Solves(g, h, S)

Sums(g, h, S) ==
    \A s \in SUBSET S : g[s] = IF s = {} THEN 0 ELSE h[Pick(s)] + g[s \ {Pick(s)}]

Total(h, S) == Partial(h, S)[S]

(* The recursion has a solution, as every set it needs is smaller.         *)
LEMMA PartialExists ==
    ASSUME NEW S, IsFiniteSet(S), NEW h
    PROVE  \E g : Solves(g, h, S)
<1> DEFINE upto(n) == {s \in SUBSET S : Cardinality(s) <= n}
           solves(g, n) == g = [s \in upto(n) |->
               IF s = {} THEN 0 ELSE h[Pick(s)] + g[s \ {Pick(s)}]]
           N == {n \in Nat : \E g : solves(g, n)}
<1>1. \A s \in SUBSET S : IsFiniteSet(s) /\ Cardinality(s) \in Nat
                          /\ Cardinality(s) <= Cardinality(S)
  BY FS_Subset, FS_CardinalityType
<1>2. \A s \in SUBSET S : s # {} => /\ s \ {Pick(s)} \in SUBSET S
                                    /\ Cardinality(s \ {Pick(s)}) = Cardinality(s) - 1
                                    /\ Pick(s) \in s
  BY <1>1, FS_RemoveElement DEF Pick
<1>3. \A s \in SUBSET S : Cardinality(s) = 0 <=> s = {}
  BY <1>1, FS_EmptySet
<1>4. 0 \in N
  <2> DEFINE g0 == [s \in upto(0) |-> 0]
  <2>1. \A s \in upto(0) : s = {}
    BY <1>1, <1>3
  <2>2. solves(g0, 0)
    BY <2>1
  <2> QED
    BY <2>2
<1>5. ASSUME NEW n \in Nat, n \in N PROVE n + 1 \in N
  <2>1. PICK g : solves(g, n)
    BY <1>5
  <2> DEFINE g1 == [s \in upto(n + 1) |->
                       IF s = {} THEN 0 ELSE h[Pick(s)] + g[s \ {Pick(s)}]]
  <2>2. \A s \in upto(n) : s \in upto(n + 1) /\ g1[s] = g[s]
    <3> SUFFICES ASSUME NEW s \in upto(n) PROVE s \in upto(n + 1) /\ g1[s] = g[s]
      OBVIOUS
    <3>1. s \in upto(n + 1)
      BY <1>1
    <3>2. g[s] = IF s = {} THEN 0 ELSE h[Pick(s)] + g[s \ {Pick(s)}]
      BY <2>1
    <3> QED
      BY <3>1, <3>2
  <2>3. \A s \in upto(n + 1) : s # {} => s \ {Pick(s)} \in upto(n)
    BY <1>1, <1>2
  <2>4. solves(g1, n + 1)
    <3>1. \A s \in upto(n + 1) :
             (IF s = {} THEN 0 ELSE h[Pick(s)] + g[s \ {Pick(s)}])
               = (IF s = {} THEN 0 ELSE h[Pick(s)] + g1[s \ {Pick(s)}])
      BY <2>2, <2>3
    <3> QED
      BY <3>1, Zenon
  <2> HIDE DEF g1, solves
  <2> QED
    BY <2>4
<1> HIDE DEF N
<1>6. Cardinality(S) \in N
  BY <1>1, <1>4, <1>5, NatSetInduction
<1> USE DEF N
<1>7. PICK g : solves(g, Cardinality(S))
  BY <1>6
<1>8. upto(Cardinality(S)) = SUBSET S
  BY <1>1
<1>9. g = [s \in SUBSET S |-> IF s = {} THEN 0 ELSE h[Pick(s)] + g[s \ {Pick(s)}]]
  BY <1>7, <1>8
<1> QED
  BY <1>9 DEF Solves

(* It satisfies the recursion.                                             *)
LEMMA PartialUnfold ==
    ASSUME NEW S, IsFiniteSet(S), NEW h
    PROVE  Sums(Partial(h, S), h, S)
<1>1. \E g : Solves(g, h, S)
  BY PartialExists
<1>2. Solves(Partial(h, S), h, S)
  BY <1>1 DEF Partial
<1> QED
  BY <1>2 DEF Solves, Sums

(* A member of a set.                                                      *)
LEMMA PickMember == ASSUME NEW s, s # {} PROVE Pick(s) \in s
BY DEF Pick

(* Whatever satisfies the recursion, for functions that agree on the set,  *)
(* is the sum.                                                             *)
LEMMA TotalUnique ==
    ASSUME NEW S, IsFiniteSet(S), NEW T \in SUBSET S, NEW h, NEW k, NEW g,
           \A x \in T : h[x] = k[x], Sums(g, h, S)
    PROVE  g[T] = Total(k, T)
<1> DEFINE F == {s \in SUBSET T : g[s] = Partial(k, T)[s]}
<1>1. IsFiniteSet(T)
  BY FS_Subset
<1>2. \A s \in SUBSET T : Partial(k, T)[s] =
         IF s = {} THEN 0 ELSE k[Pick(s)] + Partial(k, T)[s \ {Pick(s)}]
  BY <1>1, PartialUnfold DEF Sums
<1>3. \A s \in SUBSET T : s # {} => Pick(s) \in s
  BY PickMember
<1>4. \A s \in SUBSET T : g[s] = IF s = {} THEN 0 ELSE h[Pick(s)] + g[s \ {Pick(s)}]
  BY DEF Sums
<1>5. {} \in F
  BY <1>2, <1>4
<1>6. ASSUME NEW s \in SUBSET T, s # {}, \A x \in s : s \ {x} \in F PROVE s \in F
  <2>1. Pick(s) \in s /\ s \ {Pick(s)} \in F
    BY <1>3, <1>6
  <2>2. g[s \ {Pick(s)}] = Partial(k, T)[s \ {Pick(s)}] /\ h[Pick(s)] = k[Pick(s)]
    BY <2>1
  <2>3. g[s] = h[Pick(s)] + g[s \ {Pick(s)}]
    BY <1>4, <1>6
  <2>4. Partial(k, T)[s] = k[Pick(s)] + Partial(k, T)[s \ {Pick(s)}]
    BY <1>2, <1>6
  <2> QED
    BY <2>2, <2>3, <2>4
<1> HIDE DEF F
<1>7. T \in F
  BY <1>1, <1>5, <1>6, SubsetInduction
<1> QED
  BY <1>7 DEF F, Total

(* A sum depends only on the terms.                                        *)
LEMMA TotalAgree ==
    ASSUME NEW S, IsFiniteSet(S), NEW h, NEW k, \A x \in S : h[x] = k[x]
    PROVE  Total(h, S) = Total(k, S)
<1>1. S \in SUBSET S /\ Sums(Partial(h, S), h, S)
  BY PartialUnfold
<1>2. Partial(h, S)[S] = Total(k, S)
  BY <1>1, TotalUnique
<1> QED
  BY <1>2 DEF Total

(* A sum with one term taken out.                                          *)
LEMMA TotalStep ==
    ASSUME NEW S, IsFiniteSet(S), NEW h, S # {}
    PROVE  Total(h, S) = h[Pick(S)] + Total(h, S \ {Pick(S)})
<1> DEFINE R == S \ {Pick(S)}
<1>1. R \in SUBSET S /\ \A x \in R : h[x] = h[x]
  OBVIOUS
<1>2. Partial(h, S)[R] = Total(h, R)
  BY <1>1, PartialUnfold, TotalUnique
<1>3. Partial(h, S)[S] = h[Pick(S)] + Partial(h, S)[R]
  BY PartialUnfold DEF Sums
<1> QED
  BY <1>2, <1>3 DEF Total

(* The empty sum.                                                          *)
LEMMA TotalEmpty == ASSUME NEW h PROVE Total(h, {}) = 0
<1>1. IsFiniteSet({})
  BY FS_EmptySet
<1>2. Partial(h, {})[{}] = 0
  BY <1>1, PartialUnfold DEF Sums
<1> QED
  BY <1>2 DEF Total

(* A sum of naturals is a natural.                                         *)
LEMMA TotalNat ==
    ASSUME NEW S, IsFiniteSet(S), NEW h, \A x \in S : h[x] \in Nat
    PROVE  Total(h, S) \in Nat
<1> DEFINE F == {s \in SUBSET S : Total(h, s) \in Nat}
<1>1. {} \in F
  BY TotalEmpty
<1>2. ASSUME NEW s \in SUBSET S, s # {}, \A x \in s : s \ {x} \in F PROVE s \in F
  <2>1. IsFiniteSet(s)
    BY FS_Subset
  <2> DEFINE p == Pick(s)
  <2>2. p \in s
    BY <1>2, PickMember
  <2>3. Total(h, s) = h[p] + Total(h, s \ {p})
    BY <1>2, <2>1, TotalStep
  <2> HIDE DEF p
  <2>4. h[p] \in Nat /\ Total(h, s \ {p}) \in Nat
    BY <1>2, <2>2
  <2> QED
    BY <2>3, <2>4
<1> HIDE DEF F
<1>3. \A s \in SUBSET S : s \in F
  BY <1>1, <1>2, SubsetInduction
<1> QED
  BY <1>3 DEF F

(* The order in which the elements are taken out does not matter.          *)
LEMMA TotalRemove ==
    ASSUME NEW S, IsFiniteSet(S), NEW h, \A x \in S : h[x] \in Nat, NEW a \in S
    PROVE  Total(h, S) = h[a] + Total(h, S \ {a})
<1> DEFINE F == {s \in SUBSET S : \A x \in s : Total(h, s) = h[x] + Total(h, s \ {x})}
<1>1. {} \in F
  OBVIOUS
<1>2. ASSUME NEW s \in SUBSET S, s # {}, \A x \in s : s \ {x} \in F PROVE s \in F
  <2> DEFINE p == Pick(s)
  <2>1. IsFiniteSet(s) /\ p \in s
    BY <1>2, FS_Subset, PickMember
  <2>2. Total(h, s) = h[p] + Total(h, s \ {p})
    BY <1>2, <2>1, TotalStep
  <2> HIDE DEF p
  <2> SUFFICES ASSUME NEW x \in s, x # p PROVE Total(h, s) = h[x] + Total(h, s \ {x})
    BY <2>2
  <2>3. Total(h, s \ {p}) = h[x] + Total(h, (s \ {p}) \ {x})
    BY <1>2, <2>1
  <2>4. Total(h, s \ {x}) = h[p] + Total(h, (s \ {x}) \ {p})
    BY <1>2, <2>1
  <2>5. (s \ {p}) \ {x} = (s \ {x}) \ {p}
    OBVIOUS
  <2>6. h[p] \in Nat /\ h[x] \in Nat /\ Total(h, (s \ {x}) \ {p}) \in Nat
    <3>1. IsFiniteSet((s \ {x}) \ {p})
      BY <2>1, FS_Subset
    <3> QED
      BY <2>1, <3>1, TotalNat
  <2> QED
    BY <2>2, <2>3, <2>4, <2>5, <2>6
<1> HIDE DEF F
<1>3. \A s \in SUBSET S : s \in F
  BY <1>1, <1>2, SubsetInduction
<1> QED
  BY <1>3 DEF F

(* A sum of no more terms, none of them larger, is no larger.              *)
LEMMA TotalMonotone ==
    ASSUME NEW S, IsFiniteSet(S), NEW T \in SUBSET S, NEW g, NEW h,
           \A x \in S : h[x] \in Nat,
           \A x \in T : g[x] \in Nat /\ g[x] <= h[x]
    PROVE  Total(g, T) \in Nat /\ Total(h, S) \in Nat /\ Total(g, T) <= Total(h, S)
<1> DEFINE F == {s \in SUBSET S : Total(g, s \cap T) <= Total(h, s)}
<1>1. \A s \in SUBSET S : /\ IsFiniteSet(s) /\ IsFiniteSet(s \cap T)
                          /\ Total(h, s) \in Nat /\ Total(g, s \cap T) \in Nat
  <2> SUFFICES ASSUME NEW s \in SUBSET S
               PROVE  /\ IsFiniteSet(s) /\ IsFiniteSet(s \cap T)
                      /\ Total(h, s) \in Nat /\ Total(g, s \cap T) \in Nat
    OBVIOUS
  <2>1. IsFiniteSet(s) /\ IsFiniteSet(s \cap T)
    BY FS_Subset
  <2>2. (\A x \in s : h[x] \in Nat) /\ \A x \in s \cap T : g[x] \in Nat
    OBVIOUS
  <2> QED
    BY <2>1, <2>2, TotalNat
<1>2. {} \in F
  <2>1. {} \cap T = {} /\ Total(g, {}) = 0 /\ Total(h, {}) = 0
    BY TotalEmpty
  <2> QED
    BY <2>1
<1>3. ASSUME NEW s \in SUBSET S, s # {}, \A x \in s : s \ {x} \in F PROVE s \in F
  <2>1. PICK x \in s : TRUE
    BY <1>3
  <2> DEFINE r == s \ {x}
  <2>2. /\ r \in SUBSET S /\ Total(g, r \cap T) <= Total(h, r)
        /\ \A y \in s : h[y] \in Nat
    BY <1>3
  <2>3. Total(h, s) = h[x] + Total(h, r)
    BY <1>1, <2>2, TotalRemove
  <2>4. CASE x \in T
    <3>1. \A y \in s \cap T : g[y] \in Nat
      OBVIOUS
    <3>2. x \in s \cap T /\ (s \cap T) \ {x} = r \cap T
      BY <2>4
    <3>3. Total(g, s \cap T) = g[x] + Total(g, (s \cap T) \ {x})
      BY <1>1, <3>1, <3>2, TotalRemove
    <3> HIDE DEF r
    <3>4. Total(g, s \cap T) = g[x] + Total(g, r \cap T)
      BY <3>2, <3>3
    <3>5. g[x] \in Nat /\ h[x] \in Nat /\ g[x] <= h[x]
      BY <2>1, <2>4
    <3>6. Total(g, r \cap T) \in Nat /\ Total(h, r) \in Nat
      BY <1>1, <2>2
    <3> QED
      BY <2>2, <2>3, <3>4, <3>5, <3>6
  <2>5. CASE x \notin T
    <3>1. s \cap T = r \cap T
      BY <2>5
    <3> HIDE DEF r
    <3>2. h[x] \in Nat /\ Total(h, r) \in Nat /\ Total(g, r \cap T) \in Nat
      BY <1>1, <2>2
    <3> QED
      BY <2>2, <2>3, <3>1, <3>2
  <2> QED
    BY <2>4, <2>5
<1> HIDE DEF F
<1>4. S \in F
  BY <1>2, <1>3, SubsetInduction
<1>5. S \cap T = T
  OBVIOUS
<1> QED
  BY <1>1, <1>4, <1>5 DEF F

----------------------------------------------------------------------------
(* load_uint is such a sum.                                                *)
LEMMA LoadIsTotal ==
    ASSUME NEW bytes, IsFiniteSet(DOMAIN bytes)
    PROVE  load_uint(bytes)
             = Total([b \in DOMAIN bytes |-> bytes[b] * Weight[b - 1]], DOMAIN bytes)
<1> DEFINE D == DOMAIN bytes
           h == [b \in D |-> bytes[b] * Weight[b - 1]]
           Rec(g) == g = [s \in SUBSET D |->
               IF s = {} THEN 0
               ELSE bytes[CHOOSE x \in s : TRUE] * Weight[(CHOOSE x \in s : TRUE) - 1]
                      + g[s \ {CHOOSE x \in s : TRUE}]]
           iter == CHOOSE g : Rec(g)
<1>1. load_uint(bytes) = iter[D]
  BY DEF load_uint, MapThenSumSet, MapThenFoldSet
<1>2. PICK g : Solves(g, h, D)
  BY PartialExists
<1>3. Rec(g)
  BY <1>2 DEF Solves, Pick
<1>4. Rec(iter)
  BY <1>3, ZenonT(30)
<1>5. Sums(iter, h, D)
  BY <1>4 DEF Sums, Pick
<1> HIDE DEF iter, h
<1>6. D \in SUBSET D /\ \A x \in D : h[x] = h[x]
  OBVIOUS
<1>7. iter[D] = Total(h, D)
  BY <1>5, <1>6, TotalUnique
<1> QED
  BY <1>1, <1>7 DEF h

(* What a byte string of n bytes loads as fits n bytes.                    *)
LEMMA LoadBound ==
    ASSUME NEW n \in Nat, n <= WordBytes, NEW bytes \in [1..n -> Byte]
    PROVE  load_uint(bytes) \in Nat /\ load_uint(bytes) < Weight[n]
<1> DEFINE h == [b \in 1..n |-> bytes[b] * Weight[b - 1]]
           F == {m \in Nat : m <= n => Total(h, 1..m) \in Nat /\ Total(h, 1..m) < Weight[m]}
<1>1. IsFiniteSet(1..n) /\ DOMAIN bytes = 1..n
  BY FS_Interval
<1>2. load_uint(bytes) = Total(h, 1..n)
  BY <1>1, LoadIsTotal
<1>3. \A b \in 1..n : /\ bytes[b] \in Nat /\ bytes[b] + 1 <= ByteBase
                      /\ b - 1 \in 0..WordBytes /\ Weight[b - 1] \in Nat
                      /\ Weight[b] = ByteBase * Weight[b - 1]
  <2> SUFFICES ASSUME NEW b \in 1..n
               PROVE  /\ bytes[b] \in Nat /\ bytes[b] + 1 <= ByteBase
                      /\ b - 1 \in 0..WordBytes /\ Weight[b - 1] \in Nat
                      /\ Weight[b] = ByteBase * Weight[b - 1]
    OBVIOUS
  <2>1. bytes[b] \in Byte /\ (b - 1) + 1 = b /\ b - 1 \in Nat /\ b - 1 < WordBytes
    BY WeightNat
  <2>2. Weight[(b - 1) + 1] = ByteBase * Weight[b - 1]
    BY <2>1, WeightNat
  <2> QED
    BY <2>1, <2>2, WeightNat DEF Byte
<1>4. \A b \in 1..n : h[b] = bytes[b] * Weight[b - 1] /\ h[b] \in Nat
  BY <1>3
<1> HIDE DEF h
<1>5. 0 \in F
  <2>1. 1..0 = {}
    OBVIOUS
  <2> QED
    BY <2>1, TotalEmpty, WeightNat
<1>6. ASSUME NEW m \in Nat, m \in F PROVE m + 1 \in F
  <2> SUFFICES ASSUME m + 1 <= n
               PROVE  Total(h, 1..(m + 1)) \in Nat /\ Total(h, 1..(m + 1)) < Weight[m + 1]
    OBVIOUS
  <2>1. Total(h, 1..m) \in Nat /\ Total(h, 1..m) < Weight[m]
    BY <1>6
  <2>2. Total(h, 1..(m + 1)) = h[m + 1] + Total(h, 1..m)
    <3>1. IsFiniteSet(1..(m + 1)) /\ m + 1 \in 1..(m + 1) /\ \A x \in 1..(m + 1) : h[x] \in Nat
      BY <1>4, FS_Interval, SMTT(20)
    <3>2. (1..(m + 1)) \ {m + 1} = 1..m
      OBVIOUS
    <3> QED
      BY <3>1, <3>2, TotalRemove
  <2>3. /\ m + 1 \in 1..n /\ (m + 1) - 1 = m
    OBVIOUS
  <2>4. /\ h[m + 1] = bytes[m + 1] * Weight[m] /\ h[m + 1] \in Nat
        /\ bytes[m + 1] \in Nat /\ bytes[m + 1] + 1 <= ByteBase
        /\ Weight[m] \in Nat /\ Weight[m + 1] = ByteBase * Weight[m]
    BY <1>3, <1>4, <2>3
  <2>5. (bytes[m + 1] + 1) * Weight[m] <= ByteBase * Weight[m]
    <3> DEFINE next == bytes[m + 1] + 1
    <3>1. next \in Nat /\ next <= ByteBase /\ ByteBase \in Nat /\ Weight[m] \in Nat
      BY <2>4, WeightNat
    <3> HIDE DEF next
    <3>2. next * Weight[m] <= ByteBase * Weight[m]
      BY <3>1, TimesAtLeast
    <3> QED
      BY <3>2 DEF next
  <2>6. (bytes[m + 1] + 1) * Weight[m] = bytes[m + 1] * Weight[m] + Weight[m]
    BY <2>4, SMTT(20)
  <2>7. Weight[m + 1] \in Nat
    BY <2>4, WeightNat
  <2> QED
    BY <2>1, <2>2, <2>4, <2>5, <2>6, <2>7, SMTT(20)
<1> HIDE DEF F
<1>7. n \in F
  BY <1>5, <1>6, NatSetInduction
<1> QED
  BY <1>2, <1>7 DEF F

----------------------------------------------------------------------------
(* Byte strings of one length, in the order std::memcmp gives them.        *)
LEMMA StringLength ==
    ASSUME NEW n \in Nat, NEW a \in [1..n -> Byte]
    PROVE  Len(a) = n
OBVIOUS

(* Two strings that differ, differ first somewhere.                        *)
LEMMA FirstDifference ==
    ASSUME NEW n \in Nat, NEW a \in [1..n -> Byte], NEW b \in [1..n -> Byte], a # b
    PROVE  \E i \in 1..n : a[i] # b[i] /\ \A j \in 1..(i - 1) : a[j] = b[j]
<1> DEFINE D == {i \in 1..n : a[i] # b[i]}
<1>1. D \in SUBSET Nat /\ D # {}
  OBVIOUS
<1>2. Min(D) \in D /\ \A y \in D : Min(D) <= y
  BY <1>1, MinOfNats
<1>3. \A j \in 1..(Min(D) - 1) : a[j] = b[j]
  BY <1>2
<1> QED
  BY <1>2, <1>3

(* memcmp orders any two strings of the same length.                       *)
LEMMA LexTotal ==
    ASSUME NEW n \in Nat, NEW a \in [1..n -> Byte], NEW b \in [1..n -> Byte]
    PROVE  a = b \/ LexLess(a, b) \/ LexLess(b, a)
<1> SUFFICES ASSUME a # b PROVE LexLess(a, b) \/ LexLess(b, a)
  OBVIOUS
<1>1. PICK i \in 1..n : a[i] # b[i] /\ \A j \in 1..(i - 1) : a[j] = b[j]
  BY FirstDifference
<1>2. a[i] \in Int /\ b[i] \in Int
  BY DEF Byte
<1>3. Len(a) = n /\ Len(b) = n
  BY StringLength
<1>4. CASE a[i] < b[i]
  BY <1>1, <1>3, <1>4 DEF LexLess
<1>5. CASE b[i] < a[i]
  BY <1>1, <1>3, <1>5 DEF LexLess
<1> QED
  BY <1>1, <1>2, <1>4, <1>5

(* No string is below itself.                                              *)
LEMMA LexIrreflexive ==
    ASSUME NEW n \in Nat, NEW a \in [1..n -> Byte] PROVE ~LexLess(a, a)
<1>1. \A i \in 1..n : a[i] \in Int
  BY DEF Byte
<1> QED
  BY <1>1, StringLength DEF LexLess

(* The order of strings is transitive.                                     *)
LEMMA LexTransitive ==
    ASSUME NEW n \in Nat, NEW a \in [1..n -> Byte], NEW b \in [1..n -> Byte],
           NEW c \in [1..n -> Byte], LexLess(a, b), LexLess(b, c)
    PROVE  LexLess(a, c)
<1>1. \A i \in 1..n : a[i] \in Int /\ b[i] \in Int /\ c[i] \in Int
  BY DEF Byte
<1>2. Len(a) = n /\ Len(b) = n
  BY StringLength
<1>3. PICK i \in 1..n : a[i] < b[i] /\ \A j \in 1..(i - 1) : a[j] = b[j]
  BY <1>2 DEF LexLess
<1>4. PICK k \in 1..n : b[k] < c[k] /\ \A j \in 1..(k - 1) : b[j] = c[j]
  BY <1>2 DEF LexLess
<1>5. CASE i <= k
  <2>1. a[i] < c[i] /\ \A j \in 1..(i - 1) : a[j] = c[j]
    BY <1>1, <1>3, <1>4, <1>5
  <2> QED
    BY <1>2, <2>1 DEF LexLess
<1>6. CASE k < i
  <2>1. a[k] < c[k] /\ \A j \in 1..(k - 1) : a[j] = c[j]
    BY <1>1, <1>3, <1>4, <1>6
  <2> QED
    BY <1>2, <2>1 DEF LexLess
<1> QED
  BY <1>5, <1>6

----------------------------------------------------------------------------
(* The keys of one table: KeyLess is a strict total order on them.         *)
KeySpace(n) == [partition : Nat, value : Nat, bytes : [1..n -> Byte]]

(* The order of std::map on (partition, address) is strict and total.      *)
LEMMA KeyOrder ==
    ASSUME NEW n \in Nat, NEW k \in KeySpace(n), NEW l \in KeySpace(n), NEW m \in KeySpace(n)
    PROVE  /\ ~KeyLess(k, k)
           /\ k = l \/ KeyLess(k, l) \/ KeyLess(l, k)
           /\ KeyLess(k, l) /\ KeyLess(l, m) => KeyLess(k, m)
           /\ ~(KeyLess(k, l) /\ KeyLess(l, k))
<1> DEFINE Fits(x) == x.partition \in Nat /\ x.value \in Nat /\ x.bytes \in [1..n -> Byte]
<1>1. Fits(k) /\ Fits(l) /\ Fits(m)
  BY DEF KeySpace
<1>2. ~KeyLess(k, k)
  BY <1>1, LexIrreflexive DEF KeyLess
<1>3. k.partition = l.partition /\ k.value = l.value /\ k.bytes = l.bytes => k = l
  BY DEF KeySpace
<1>4. k = l \/ KeyLess(k, l) \/ KeyLess(l, k)
  BY <1>1, <1>3, LexTotal DEF KeyLess
<1>5. KeyLess(k, l) /\ KeyLess(l, m) => KeyLess(k, m)
  BY <1>1, LexTransitive DEF KeyLess
<1>6. KeyLess(k, l) /\ KeyLess(l, k) => KeyLess(k, k)
  BY <1>1, LexTransitive, SMTT(20) DEF KeyLess
<1> QED
  BY <1>2, <1>4, <1>5, <1>6
=============================================================================
