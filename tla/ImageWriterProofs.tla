------------------------- MODULE ImageWriterProofs -------------------------
(***************************************************************************)
(* What finish does past the duplicate check, for every schema, key set,   *)
(* set of layout options and number of records: choose_layout and          *)
(* write_image agree on the runs of records, the cost model on what is     *)
(* written, and the directory on its ceiling.                              *)
(*                                                                         *)
(* Both walks go from one boundary between partitions to the next, so what *)
(* they have in common is said of the records behind `row`: the runs that  *)
(* start there, what they cost, and what was spent on them.                *)
(***************************************************************************)
EXTENDS ImageWriter, TableBuilderProofs, WordLemmas

----------------------------------------------------------------------------
(* Sequences of anything.                                                  *)
IsSequence(s) == Len(s) \in Nat /\ s \in Seq({s[i] : i \in 1..Len(s)})

(* An element appended.                                                    *)
LEMMA AppendAny ==
    ASSUME NEW s, IsSequence(s), NEW e
    PROVE  /\ IsSequence(Append(s, e)) /\ Len(Append(s, e)) = Len(s) + 1
           /\ Append(s, e)[Len(s) + 1] = e
           /\ \A i \in 1..Len(s) : Append(s, e)[i] = s[i]
<1> DEFINE n == Len(s)
           T == {s[i] : i \in 1..n} \cup {e}
           t == Append(s, e)
<1>1. n \in Nat /\ s \in Seq(T) /\ e \in T
  BY DEF IsSequence
<1> HIDE DEF T
<1>2. /\ t \in Seq(T) /\ Len(t) = n + 1 /\ t[n + 1] = e
      /\ \A i \in 1..n : t[i] = s[i]
  BY <1>1
<1>3. \A S : (\A i \in 1..Len(t) : t[i] \in S) => t \in Seq(S)
  BY <1>1, <1>2
<1>4. t \in Seq({t[i] : i \in 1..Len(t)})
  BY <1>3
<1>5. n \in Nat /\ Len(t) = n + 1
  BY <1>1, <1>2
<1> HIDE DEF n, t
<1>6. IsSequence(t)
  BY <1>4, <1>5 DEF IsSequence
<1> QED
  BY <1>2, <1>5, <1>6 DEF n, t

(* A sequence with other elements.                                         *)
LEMMA SequenceOf ==
    ASSUME NEW s, IsSequence(s), NEW t, t = [i \in DOMAIN s |-> t[i]]
    PROVE  IsSequence(t) /\ Len(t) = Len(s)
<1>1. Len(s) \in Nat /\ DOMAIN s = 1..Len(s)
  BY DEF IsSequence
<1>2. \A S : (\A i \in 1..Len(s) : t[i] \in S) => t \in Seq(S)
  BY <1>1
<1>3. t \in Seq({t[i] : i \in 1..Len(s)})
  BY <1>2
<1>4. Len(t) = Len(s)
  BY <1>1, <1>3
<1> QED
  BY <1>1, <1>3, <1>4 DEF IsSequence

----------------------------------------------------------------------------
(* Rounding up.                                                            *)

(* The powers of two, by their recursion.                                  *)
LEMMA PowerSteps ==
    /\ PowerOf2[0] = 1
    /\ \A k \in Nat : /\ PowerOf2[k] \in Nat \ {0}
                      /\ PowerOf2[k + 1] = 2 * PowerOf2[k]
<1> DEFINE step == [p \in Nat \X Nat |-> 2 * p[2]]
<1>1. step \in [Nat \X Nat -> Nat] /\ 1 \in Nat
  OBVIOUS
<1>2. \A k \in Nat : \A v \in Nat : step[<<k, v>>] = 2 * v
  OBVIOUS
<1> HIDE DEF step
<1>3. PICK f \in [Nat -> Nat] : f[0] = 1 /\ \A k \in Nat : f[k + 1] = step[<<k, f[k]>>]
  <2>1. IsStep(step, Nat)
    BY <1>1 DEF IsStep
  <2>2. \E f \in [Nat -> Nat] : Follows(f, 1, step)
    BY <1>1, <2>1, RecursionExists
  <2> QED
    BY <2>2 DEF Follows
<1>4. f = [k \in Nat |-> IF k = 0 THEN 1 ELSE 2 * f[k - 1]]
  <2>1. ASSUME NEW k \in Nat PROVE f[k] = IF k = 0 THEN 1 ELSE 2 * f[k - 1]
    <3>1. CASE k # 0
      <4>1. k - 1 \in Nat /\ (k - 1) + 1 = k
        BY <3>1
      <4>2. f[(k - 1) + 1] = step[<<k - 1, f[k - 1]>>] /\ f[k - 1] \in Nat
        BY <1>3, <4>1
      <4> QED
        BY <1>2, <3>1, <4>1, <4>2
    <3> QED
      BY <1>3, <3>1
  <2> QED
    BY <2>1, <1>3
<1>5. PowerOf2 = [k \in Nat |-> IF k = 0 THEN 1 ELSE 2 * PowerOf2[k - 1]]
  BY <1>4 DEF PowerOf2
<1>6. PowerOf2[0] = 1 /\ \A k \in Nat : PowerOf2[k + 1] = 2 * PowerOf2[k]
  <2>1. \A k \in Nat : PowerOf2[k] = IF k = 0 THEN 1 ELSE 2 * PowerOf2[k - 1]
    BY <1>5
  <2>2. ASSUME NEW k \in Nat PROVE PowerOf2[k + 1] = 2 * PowerOf2[k]
    <3>1. k + 1 \in Nat /\ k + 1 # 0 /\ (k + 1) - 1 = k
      OBVIOUS
    <3>2. PowerOf2[k + 1] = 2 * PowerOf2[(k + 1) - 1]
      BY <2>1, <3>1
    <3> QED
      BY <3>1, <3>2
  <2> QED
    BY <2>1, <2>2
<1> DEFINE S == {k \in Nat : PowerOf2[k] \in Nat \ {0}}
<1>7. 0 \in S
  BY <1>6
<1>8. ASSUME NEW k \in Nat, k \in S PROVE k + 1 \in S
  BY <1>6, <1>8
<1> HIDE DEF S
<1>9. \A k \in Nat : k \in S
  BY <1>7, <1>8, NatSetInduction
<1> QED
  BY <1>6, <1>9 DEF S

(* A quotient halved.                                                      *)
LEMMA HalfQuotient ==
    ASSUME NEW n \in Nat, NEW a \in Nat \ {0}
    PROVE  /\ n \div a \in Nat /\ (n \div a) % 2 \in {0, 1}
           /\ a * ((n \div a) % 2) + (2 * a) * (n \div (2 * a)) = a * (n \div a)
<1> DEFINE q == n \div a  r == n % a  s == q \div 2  t == q % 2
           b == 2 * a  Q == n \div b  R == n % b  u == a * t + r
<1>1. q \in Nat /\ r \in 0..(a - 1) /\ n = a * q + r
  OBVIOUS
<1>2. s \in Nat /\ t \in {0, 1} /\ q = 2 * s + t
  BY <1>1
<1>3. b \in Nat \ {0} /\ b = 2 * a
  OBVIOUS
<1> HIDE DEF q, r, s, t, b
<1>4. b \in Nat \ {0} /\ Q \in Nat /\ R \in 0..(b - 1) /\ n = b * Q + R
  BY <1>3
<1> HIDE DEF Q, R
<1>5. u \in 0..(b - 1) /\ n = b * s + u
  <2> DEFINE p == a * t  m == b * s
  <2>1. a * q = m + p
    BY <1>2, <1>3
  <2>2. (p = 0 \/ p = a) /\ m \in Nat
    BY <1>2, <1>3
  <2> HIDE DEF p, m
  <2>3. n = m + (p + r) /\ p + r \in 0..(b - 1)
    BY <1>1, <1>3, <2>1, <2>2
  <2> QED
    BY <2>3 DEF p, m
<1> HIDE DEF u
<1>6. Q = s
  <2>1. ASSUME NEW x \in Nat, NEW y \in Nat, NEW c \in 0..(b - 1), NEW d \in 0..(b - 1),
               b * x + c = b * y + d, x < y
        PROVE  FALSE
    <3>1. PICK e \in Nat : y = x + 1 + e
      <4>1. y - x - 1 \in Nat /\ y = x + 1 + (y - x - 1)
        BY <2>1
      <4> QED
        BY <4>1
    <3>2. b * y = b * x + b + b * e /\ b * e \in Nat /\ b * x \in Nat
      BY <1>4, <3>1
    <3> QED
      BY <1>4, <2>1, <3>2
  <2> QED
    BY <1>2, <1>4, <1>5, <2>1
<1>7. a * t + b * Q = a * q
  BY <1>2, <1>3, <1>6
<1> QED
  BY <1>1, <1>2, <1>7 DEF q, r, s, t, Q, R, b

(* The bits of a number add up to no more than the number.                 *)
BitSum(n) == [k \in Nat |-> PowerOf2[k] * bit(n, k)]

(* Each bit is a part, and the parts below any bit are at most the whole.  *)
LEMMA BitsBelow ==
    ASSUME NEW n \in Nat, NEW m \in Nat
    PROVE  /\ Total(BitSum(n), 0..m) <= n
           /\ \A k \in Nat : /\ bit(n, k) \in {0, 1}
                             /\ BitSum(n)[k] \in Nat /\ BitSum(n)[k] <= PowerOf2[k]
<1> DEFINE h == BitSum(n)
           S == {j \in Nat : Total(h, 0..j) + PowerOf2[j + 1] * (n \div PowerOf2[j + 1]) = n}
<1>1. \A k \in Nat : /\ PowerOf2[k] \in Nat \ {0} /\ PowerOf2[k + 1] = 2 * PowerOf2[k]
                    /\ k + 1 \in Nat
  BY PowerSteps
<1>2. \A k \in Nat : /\ bit(n, k) \in {0, 1} /\ n \div PowerOf2[k] \in Nat
                    /\ PowerOf2[k] * bit(n, k) + PowerOf2[k + 1] * (n \div PowerOf2[k + 1])
                          = PowerOf2[k] * (n \div PowerOf2[k])
  BY <1>1, HalfQuotient DEF bit
<1>3. \A k \in Nat : h[k] = PowerOf2[k] * bit(n, k) /\ h[k] \in Nat /\ h[k] <= PowerOf2[k]
  BY <1>1, <1>2 DEF BitSum
<1> HIDE DEF h
<1>4. \A j \in Nat : IsFiniteSet(0..j) /\ Total(h, 0..j) \in Nat
  <2> SUFFICES ASSUME NEW j \in Nat PROVE IsFiniteSet(0..j) /\ Total(h, 0..j) \in Nat
    OBVIOUS
  <2>1. IsFiniteSet(0..j) /\ \A k \in 0..j : h[k] \in Nat
    BY <1>3, FS_Interval
  <2> QED
    BY <2>1, TotalNat
<1>5. 0 \in S
  <2>1. IsFiniteSet(0..0) /\ 0 \in 0..0 /\ \A k \in 0..0 : h[k] \in Nat
    <3>1. IsFiniteSet(0..0)
      BY <1>4
    <3>2. \A k \in 0..0 : k \in Nat
      OBVIOUS
    <3> QED
      BY <1>3, <3>1, <3>2
  <2>2. Total(h, 0..0) = h[0] + Total(h, (0..0) \ {0})
    BY <2>1, TotalRemove
  <2>6. (0..0) \ {0} = {}
    OBVIOUS
  <2>3. Total(h, {}) = 0
    BY TotalEmpty
  <2>4. PowerOf2[0] = 1 /\ n \div 1 = n
    BY PowerSteps
  <2>5. Total(h, 0..0) + PowerOf2[0 + 1] * (n \div PowerOf2[0 + 1]) = PowerOf2[0] * (n \div PowerOf2[0])
    <3>1. h[0] = PowerOf2[0] * bit(n, 0) /\ h[0] \in Nat
      BY <1>3
    <3>2. Total(h, 0..0) = h[0]
      <4> DEFINE none == (0..0) \ {0}  all == 0..0
      <4>1. Total(h, all) = h[0] + Total(h, none) /\ none = {}
        BY <2>2, <2>6
      <4> HIDE DEF none, all
      <4>2. Total(h, all) = h[0]
        BY <2>3, <3>1, <4>1
      <4> QED
        BY <4>2 DEF all
    <3> QED
      BY <1>2, <3>1, <3>2
  <2> QED
    BY <2>4, <2>5
<1>6. ASSUME NEW j \in Nat, j \in S PROVE j + 1 \in S
  <2>1. j + 1 \in 0..(j + 1) /\ (0..(j + 1)) \ {j + 1} = 0..j
    OBVIOUS
  <2>2. IsFiniteSet(0..(j + 1)) /\ \A k \in 0..(j + 1) : h[k] \in Nat
    BY <1>3, FS_Interval
  <2>9. Total(h, 0..(j + 1)) = h[j + 1] + Total(h, (0..(j + 1)) \ {j + 1})
    BY <2>1, <2>2, TotalRemove
  <2>3. Total(h, 0..(j + 1)) = h[j + 1] + Total(h, 0..j)
    BY <2>1, <2>9
  <2> DEFINE q == PowerOf2[j + 1] * (n \div PowerOf2[j + 1])
             p == PowerOf2[(j + 1) + 1] * (n \div PowerOf2[(j + 1) + 1])
  <2>4. h[j + 1] + p = q
    BY <1>1, <1>2, <1>3
  <2>5. Total(h, 0..j) + q = n
    BY <1>6
  <2>6. q \in Nat /\ p \in Nat
    BY <1>1, <1>2
  <2>7. Total(h, 0..j) \in Nat /\ h[j + 1] \in Nat
    BY <1>3, <1>4
  <2> HIDE DEF p, q
  <2>8. Total(h, 0..(j + 1)) + p = n
    BY <2>3, <2>4, <2>5, <2>6, <2>7
  <2> QED
    BY <2>8 DEF p
<1> HIDE DEF S
<1>7. \A j \in Nat : j \in S
  BY <1>5, <1>6, NatSetInduction
<1>8. Total(h, 0..m) + PowerOf2[m + 1] * (n \div PowerOf2[m + 1]) = n
  BY <1>7 DEF S
<1>9. PowerOf2[m + 1] * (n \div PowerOf2[m + 1]) \in Nat
  BY <1>1, <1>2
<1>10. Total(h, 0..m) <= n
  BY <1>4, <1>8, <1>9
<1> QED
  BY <1>2, <1>3, <1>10 DEF h

(* align_up adds less than the alignment, whether or not that is a power   *)
(* of two.                                                                 *)
LEMMA AlignUp ==
    ASSUME NEW v \in Nat, NEW a \in Nat \ {0}
    PROVE  align_up(v, a) \in Nat /\ v <= align_up(v, a) /\ align_up(v, a) < v + a
<1> DEFINE x == v + (a - 1)
           C == {k \in 0..(a - 1) : bit(a - 1, k) = 1}
           h == [k \in C |-> PowerOf2[k] * bit(x, k)]
           Rec(g) == g = [s \in SUBSET C |->
               IF s = {} THEN 0
               ELSE PowerOf2[CHOOSE y \in s : TRUE] * bit(x, CHOOSE y \in s : TRUE)
                      + g[s \ {CHOOSE y \in s : TRUE}]]
           iter == CHOOSE g : Rec(g)
<1>1. align_up(v, a) = x - iter[C]
  BY DEF align_up, MapThenSumSet, MapThenFoldSet
<1>2. x \in Nat /\ a - 1 \in Nat /\ C \in SUBSET (0..(a - 1)) /\ IsFiniteSet(0..(a - 1))
  BY FS_Interval
<1>3. IsFiniteSet(C) /\ C \in SUBSET C
  BY <1>2, FS_Subset
<1>4. iter[C] = Total(h, C)
  <2>1. PICK g : Solves(g, h, C)
    BY <1>3, PartialExists
  <2>2. Rec(g)
    BY <2>1 DEF Solves, Pick
  <2> HIDE DEF C, x
  <2>3. Rec(iter)
    BY <2>2
  <2>4. Sums(iter, h, C)
    BY <2>3 DEF Sums, Pick
  <2>5. \A y \in C : h[y] = h[y]
    OBVIOUS
  <2> HIDE DEF iter, h, C
  <2> QED
    BY <1>3, <2>4, <2>5, TotalUnique
<1> HIDE DEF iter
<1> DEFINE H == BitSum(a - 1)
<1>5. \A k \in 0..(a - 1) : H[k] \in Nat
  BY <1>2, BitsBelow
<1>6. \A k \in C : h[k] \in Nat /\ h[k] <= H[k]
  <2> SUFFICES ASSUME NEW k \in C PROVE h[k] \in Nat /\ h[k] <= H[k]
    OBVIOUS
  <2>1. k \in Nat /\ bit(a - 1, k) = 1
    BY <1>2
  <2>2. H[k] = PowerOf2[k] /\ PowerOf2[k] \in Nat
    BY <2>1, PowerSteps DEF BitSum
  <2>3. BitSum(x)[k] \in Nat /\ BitSum(x)[k] <= PowerOf2[k]
    BY <1>2, <2>1, BitsBelow
  <2>4. h[k] = BitSum(x)[k]
    BY <2>1 DEF BitSum
  <2> HIDE DEF h, H, C
  <2> QED
    BY <2>2, <2>3, <2>4
<1>7. Total(H, 0..(a - 1)) <= a - 1
  BY <1>2, BitsBelow
<1> HIDE DEF H, h, C
<1>8. /\ Total(h, C) \in Nat /\ Total(H, 0..(a - 1)) \in Nat
      /\ Total(h, C) <= Total(H, 0..(a - 1))
  BY <1>2, <1>5, <1>6, TotalMonotone
<1>9. Total(h, C) <= a - 1
  BY <1>2, <1>7, <1>8
<1> QED
  BY <1>1, <1>4, <1>8, <1>9

----------------------------------------------------------------------------
(* The layout of a tuple.                                                  *)

(* The widths choose_layout takes are widths.                              *)
LEMMA WidthRange ==
    \A v : width_for(v) \in NaturalWidths /\ width_for(v) \in 1..WordBytes
           /\ exact_width_for(v) \in 1..WordBytes
<1> SUFFICES ASSUME NEW v
             PROVE  /\ width_for(v) \in NaturalWidths /\ width_for(v) \in 1..WordBytes
                    /\ exact_width_for(v) \in 1..WordBytes
  OBVIOUS
<1> DEFINE S == {w \in NaturalWidths : w = WordBytes \/ v <= Weight[w] - 1}
           T == {w \in 1..WordBytes : w = WordBytes \/ v \div Weight[w] = 0}
<1>4. WordBytes \in NaturalWidths /\ WordBytes \in 1..WordBytes
      /\ NaturalWidths \subseteq 1..WordBytes /\ 1..WordBytes \subseteq Nat
  BY WordAssumption
<1>5. S \subseteq NaturalWidths /\ T \subseteq 1..WordBytes
  OBVIOUS
<1>1. WordBytes \in S /\ WordBytes \in T /\ S \in SUBSET Nat /\ T \in SUBSET Nat
  BY <1>4, <1>5
<1>2. Min(S) \in S /\ Min(T) \in T
  BY <1>1, MinOfNats
<1>3. width_for(v) = Min(S) /\ exact_width_for(v) = Min(T)
  BY DEF width_for, exact_width_for
<1> QED
  BY <1>2, <1>3, WordAssumption

(* A field takes at least a byte and at most a word.                       *)
LEMMA FieldWidthRange == \A f \in Fields : FieldWidth(f) \in 1..WordBytes
<1> SUFFICES ASSUME NEW f \in Fields PROVE FieldWidth(f) \in 1..WordBytes
  OBVIOUS
<1>1. FieldKind[f] \in {"uint", "sint", "f32", "f64", "bytes", "text"}
  BY BuilderAssumption
<1>2. CASE FieldKind[f] \in {"uint", "sint", "text"}
  BY <1>2, WidthRange DEF FieldWidth
<1>3. CASE FieldKind[f] \notin {"uint", "sint", "text"}
  <2>1. FieldWidth(f) = RawWidth[f]
    BY <1>3 DEF FieldWidth
  <2>2. FieldKind[f] \in {"f32", "f64", "bytes"}
    BY <1>1, <1>3
  <2>3. Sizes.f32 \in 1..WordBytes /\ Sizes.f64 \in 1..WordBytes
    BY FormatAssumption
  <2>4. RawWidth[f] \in 0..WordBytes
    BY BuilderAssumption
  <2>5. RawWidth[f] # 0 \/ RawWidth[f] = Sizes.f32 \/ RawWidth[f] = Sizes.f64
    BY <2>2, WriterAssumption
  <2>6. RawWidth[f] # 0
    BY <2>3, <2>5
  <2> QED
    BY <2>1, <2>4, <2>6, WordAssumption
<1> QED
  BY <1>2, <1>3

(* The field ids count up from 0.                                          *)
LEMMA FieldIds == /\ Cardinality(Fields) \in Nat \ {0}
                  /\ Fields = 0..(Cardinality(Fields) - 1)
                  /\ Max(Fields) = Cardinality(Fields) - 1
<1> DEFINE n == Cardinality(Fields)
<1>1. n \in Nat /\ Fields = 0..(n - 1) /\ n # 0
  BY WriterAssumption, BuilderAssumption, FS_CardinalityType, FS_EmptySet
<1> HIDE DEF n
<1>2. Max(Fields) \in Fields /\ \A y \in Fields : y <= Max(Fields)
  <2>1. Fields \in SUBSET (0..n) /\ Fields # {}
    BY <1>1
  <2> QED
    BY <1>1, <2>1, MaxOfNats
<1>3. n - 1 \in Fields
  BY <1>1
<1>4. Max(Fields) = n - 1
  BY <1>1, <1>2, <1>3
<1> QED
  BY <1>1, <1>4 DEF n

(* Where a field goes that may start at `next`.                            *)
Placed(align, f, next) == IF align THEN align_up(next, FieldWidth(f)) ELSE next

(* It goes there or further on.                                            *)
LEMMA PlacedNat ==
    ASSUME NEW align \in BOOLEAN, NEW f \in Fields, NEW next \in Nat
    PROVE  Placed(align, f, next) \in Nat /\ next <= Placed(align, f, next)
<1>1. FieldWidth(f) \in Nat \ {0}
  BY FieldWidthRange, WordAssumption
<1> DEFINE up == align_up(next, FieldWidth(f))
<1>2. up \in Nat /\ next <= up
  BY <1>1, AlignUp
<1> HIDE DEF up
<1>3. Placed(align, f, next) = IF align THEN up ELSE next
  BY DEF Placed, up
<1> QED
  BY <1>2, <1>3

(* The offsets of the fields follow each other.                            *)
LEMMA OffsetsFollow ==
    ASSUME NEW align \in BOOLEAN
    PROVE  LET o == FieldOffsets(align)
           IN  /\ o \in [Fields -> Nat]
               /\ \A f \in Fields :
                     f # 0 => f - 1 \in Fields /\ o[f - 1] + FieldWidth(f - 1) <= o[f]
<1> DEFINE n == Cardinality(Fields)
           next(o, f) == IF f = 0 THEN 0 ELSE o[f - 1] + FieldWidth(f - 1)
           step == [p \in Nat \X Nat |->
                       IF p[1] + 1 \in Fields
                       THEN Placed(align, p[1] + 1, p[2] + FieldWidth(p[1])) ELSE 0]
           base == Placed(align, 0, 0)
<1>1. n \in Nat \ {0} /\ Fields = 0..(n - 1) /\ 0 \in Fields
      /\ \A k \in Nat : k + 1 \in Fields => k \in Fields
  BY FieldIds
<1> HIDE DEF n
<1>2. \A k \in Nat : \A v \in Nat :
         /\ step[<<k, v>>] \in Nat
         /\ k + 1 \in Fields =>
               step[<<k, v>>] = Placed(align, k + 1, v + FieldWidth(k))
  <2> SUFFICES ASSUME NEW k \in Nat, NEW v \in Nat
               PROVE  /\ step[<<k, v>>] \in Nat
                      /\ k + 1 \in Fields =>
                            step[<<k, v>>] = Placed(align, k + 1, v + FieldWidth(k))
    OBVIOUS
  <2>1. step[<<k, v>>] = IF k + 1 \in Fields
                         THEN Placed(align, k + 1, v + FieldWidth(k)) ELSE 0
    OBVIOUS
  <2> HIDE DEF step
  <2>2. k + 1 \in Fields => Placed(align, k + 1, v + FieldWidth(k)) \in Nat
    <3> SUFFICES ASSUME k + 1 \in Fields
                 PROVE  Placed(align, k + 1, v + FieldWidth(k)) \in Nat
      OBVIOUS
    <3>1. k \in Fields /\ FieldWidth(k) \in Nat
      BY <1>1, FieldWidthRange, WordAssumption
    <3>2. v + FieldWidth(k) \in Nat
      BY <3>1
    <3> QED
      BY <3>2, PlacedNat
  <2> QED
    BY <2>1, <2>2
<1>3. IsStep(step, Nat)
  <2>1. \A p \in Nat \X Nat : step[p] \in Nat
    <3>1. \A p \in Nat \X Nat : p[1] \in Nat /\ p[2] \in Nat /\ p = <<p[1], p[2]>>
      OBVIOUS
    <3> HIDE DEF step
    <3> QED
      BY <1>2, <3>1
  <2>2. step = [p \in Nat \X Nat |-> step[p]]
    OBVIOUS
  <2> HIDE DEF step
  <2> QED
    BY <2>1, <2>2 DEF IsStep
<1>4. base \in Nat
  BY <1>1, PlacedNat
<1> HIDE DEF step, base
<1>5. PICK F \in [Nat -> Nat] : Follows(F, base, step)
  BY <1>3, <1>4, RecursionExists
<1> DEFINE g == [f \in Fields |-> F[f]]
<1>6. g = [f \in Fields |-> Placed(align, f, next(g, f))]
  <2> SUFFICES ASSUME NEW f \in Fields PROVE F[f] = Placed(align, f, next(g, f))
    OBVIOUS
  <2>1. CASE f = 0
    BY <1>5, <2>1 DEF Follows, base
  <2>2. CASE f # 0
    <3>1. f - 1 \in Nat /\ f - 1 \in Fields /\ (f - 1) + 1 = f
      BY <1>1, <2>2
    <3>2. F[(f - 1) + 1] = step[<<f - 1, F[f - 1]>>] /\ F[f - 1] \in Nat
      BY <1>5, <3>1 DEF Follows
    <3>3. F[f] = Placed(align, f, F[f - 1] + FieldWidth(f - 1))
      BY <1>2, <3>1, <3>2
    <3>4. next(g, f) = F[f - 1] + FieldWidth(f - 1)
      BY <2>2, <3>1
    <3> QED
      BY <3>3, <3>4
  <2> QED
    BY <2>1, <2>2
<1> DEFINE o == FieldOffsets(align)
<1>7. o = [f \in Fields |-> Placed(align, f, next(o, f))]
  <2> HIDE DEF g
  <2>1. \E h : h = [f \in Fields |-> Placed(align, f, next(h, f))]
    BY <1>6
  <2> QED
    BY <2>1 DEF FieldOffsets, Placed
<1> HIDE DEF o
<1>8. \A f \in Fields : o[f] = Placed(align, f, next(o, f))
  BY <1>7
<1> DEFINE S == {k \in Nat : k \in Fields => o[k] \in Nat}
<1>9. 0 \in S
  BY <1>1, <1>8, PlacedNat
<1>10. ASSUME NEW k \in Nat, k \in S PROVE k + 1 \in S
  <2> SUFFICES ASSUME k + 1 \in Fields PROVE o[k + 1] \in Nat
    OBVIOUS
  <2>1. k \in Fields /\ o[k] \in Nat /\ FieldWidth(k) \in Nat
    BY <1>1, <1>10, FieldWidthRange
  <2>2. o[k + 1] = Placed(align, k + 1, o[k] + FieldWidth(k))
    BY <1>8
  <2> QED
    BY <2>1, <2>2, PlacedNat
<1> HIDE DEF S
<1>11. \A k \in Nat : k \in S
  BY <1>9, <1>10, NatSetInduction
<1>12. \A f \in Fields : o[f] \in Nat
  BY <1>1, <1>11 DEF S
<1>13. o \in [Fields -> Nat]
  BY <1>7, <1>12
<1>14. ASSUME NEW f \in Fields, f # 0
       PROVE  f - 1 \in Fields /\ o[f - 1] + FieldWidth(f - 1) <= o[f]
  <2>1. f - 1 \in Fields
    BY <1>1, <1>14
  <2>2. o[f - 1] \in Nat /\ FieldWidth(f - 1) \in Nat
    BY <1>12, <2>1, FieldWidthRange
  <2>3. o[f] = Placed(align, f, o[f - 1] + FieldWidth(f - 1))
    BY <1>8, <1>14
  <2> QED
    BY <2>1, <2>2, <2>3, PlacedNat
<1> QED
  BY <1>13, <1>14 DEF o

----------------------------------------------------------------------------
(* The runs of records of one partition.                                   *)

(* The records up to i that start a run, and how many there are.           *)
Starts(i) == {k \in 1..i : k = 1 \/ PartitionOfRow(k) # PartitionOfRow(k - 1)}
RunsTo(i) == Cardinality(Starts(i))

(* A run ends at i.                                                        *)
AtBoundary(i) == i = Len(Rows) \/ i + 1 \in Starts(i + 1)

(* The number of staged records is a number.                               *)
RowsCounted == Len(Rows) \in Nat

(* The types of the builder count them.                                    *)
LEMMA RowsAreCounted == TypeOK => RowsCounted
BY DEF TypeOK, RowsCounted, Rows

(* The starts of runs are finitely many.                                   *)
LEMMA StartsFinite ==
    ASSUME NEW i \in Nat
    PROVE  IsFiniteSet(Starts(i)) /\ RunsTo(i) \in Nat /\ RunsTo(i) <= i
<1>1. IsFiniteSet(1..i) /\ Cardinality(1..i) = i
  BY FS_Interval
<1>2. Starts(i) \in SUBSET (1..i)
  BY DEF Starts
<1> QED
  BY <1>1, <1>2, FS_Subset, FS_CardinalityType DEF RunsTo

(* Where the next run ends: past i, within the records, at a boundary, and *)
(* with no other partition on the way.                                     *)
LEMMA RunEndIs ==
    ASSUME RowsCounted, NEW i \in Nat, i < Len(Rows)
    PROVE  /\ RunEnd(i) \in (i + 1)..Len(Rows) /\ AtBoundary(RunEnd(i))
           /\ \A k \in (i + 1)..RunEnd(i) : PartitionOfRow(k) = PartitionOfRow(i + 1)
<1> DEFINE n == Len(Rows)
           part(k) == PartitionOfRow(k)
           S == {j \in (i + 1)..n : \A k \in (i + 1)..j : part(k) = part(i + 1)}
           e == RunEnd(i)
<1>1. n \in Nat /\ e = Max(S)
  BY DEF RowsCounted, RunEnd
<1>2. i + 1 \in S
  BY <1>1
<1>3. S \in SUBSET (0..n)
  BY <1>1
<1>4. e \in S /\ \A y \in S : y <= e
  BY <1>1, <1>2, <1>3, MaxOfNats
<1> HIDE DEF e
<1>5. e \in (i + 1)..n /\ \A k \in (i + 1)..e : part(k) = part(i + 1)
  BY <1>4
<1>6. ASSUME e # n PROVE part(e + 1) # part(e)
  <2> SUFFICES ASSUME part(e + 1) = part(e) PROVE FALSE
    OBVIOUS
  <2>1. e + 1 \in (i + 1)..n
    BY <1>1, <1>5, <1>6
  <2>2. \A k \in (i + 1)..(e + 1) : k = e + 1 \/ k \in (i + 1)..e
    BY <1>1, <1>5
  <2>3. part(e) = part(i + 1)
    BY <1>1, <1>5
  <2> HIDE DEF part
  <2>4. \A k \in (i + 1)..(e + 1) : part(k) = part(i + 1)
    BY <1>5, <2>2, <2>3
  <2>5. e + 1 \in S
    BY <2>1, <2>4
  <2> QED
    BY <1>1, <1>4, <1>5, <2>5
<1>7. AtBoundary(e)
  <2>1. e \in Nat /\ (e + 1) - 1 = e /\ e + 1 \in 1..(e + 1)
    BY <1>1, <1>5
  <2> QED
    BY <1>6, <2>1 DEF AtBoundary, Starts
<1> QED
  BY <1>5, <1>7 DEF e

(* Between boundaries exactly one run starts.                              *)
LEMMA OneRunFurther ==
    ASSUME RowsCounted, NEW i \in Nat, i < Len(Rows), AtBoundary(i)
    PROVE  /\ Starts(RunEnd(i)) = Starts(i) \cup {i + 1} /\ i + 1 \notin Starts(i)
           /\ RunsTo(RunEnd(i)) = RunsTo(i) + 1
           /\ RunsTo(i) < RunsTo(Len(Rows))
<1> DEFINE e == RunEnd(i)  n == Len(Rows)
<1>1. n \in Nat /\ e \in (i + 1)..n /\ e \in Nat
  BY RunEndIs DEF RowsCounted
<1>2. \A k \in (i + 1)..e : PartitionOfRow(k) = PartitionOfRow(i + 1)
  BY RunEndIs
<1> HIDE DEF e, n
<1>3. i + 1 \in Starts(i + 1)
  BY DEF AtBoundary, n
<1>4. Starts(e) = Starts(i) \cup {i + 1}
  <2>1. ASSUME NEW k \in 1..e PROVE k \in Starts(e) <=> k \in Starts(i) \/ k = i + 1
    <3>1. CASE k <= i
      BY <1>1, <3>1 DEF Starts
    <3>2. CASE k = i + 1
      BY <1>1, <1>3, <3>2 DEF Starts
    <3>3. CASE k > i + 1
      <4>1. k \in (i + 1)..e /\ k - 1 \in (i + 1)..e
        BY <1>1, <3>3
      <4>2. PartitionOfRow(k) = PartitionOfRow(k - 1)
        BY <1>2, <4>1
      <4> QED
        BY <1>1, <3>3, <4>2 DEF Starts
    <3> QED
      BY <1>1, <3>1, <3>2, <3>3
  <2>2. Starts(e) \subseteq 1..e /\ Starts(i) \subseteq 1..e /\ i + 1 \in 1..e
    BY <1>1 DEF Starts
  <2> QED
    BY <2>1, <2>2
<1>5. i + 1 \notin Starts(i)
  BY DEF Starts
<1>6. RunsTo(e) = RunsTo(i) + 1
  BY <1>4, <1>5, StartsFinite, FS_AddElement DEF RunsTo
<1>7. RunsTo(e) <= RunsTo(n)
  <2>1. Starts(e) \in SUBSET Starts(n)
    BY <1>1 DEF Starts
  <2> QED
    BY <1>1, <2>1, StartsFinite, FS_Subset DEF RunsTo
<1>8. RunsTo(i) \in Nat /\ RunsTo(n) \in Nat
  BY <1>1, StartsFinite
<1> QED
  BY <1>4, <1>5, <1>6, <1>7, <1>8 DEF e, n

(* No run starts before the first record, and the first record starts one. *)
LEMMA NothingYet == RowsCounted => RunsTo(0) = 0 /\ AtBoundary(0)
<1>1. Starts(0) = {}
  BY DEF Starts
<1>2. RunsTo(0) = 0
  BY <1>1, FS_EmptySet DEF RunsTo
<1>3. 0 + 1 \in Starts(0 + 1)
  BY DEF Starts
<1> QED
  BY <1>2, <1>3 DEF AtBoundary

(* The records of a run, how many they are and how many tuples they have.  *)
LEMMA RunIs ==
    ASSUME RowsCounted, NEW i \in Nat, i < Len(Rows)
    PROVE  /\ Run(i) \in SUBSET (1..Len(Rows)) /\ Min(Run(i)) = i + 1
           /\ Cardinality(Run(i)) = RunEnd(i) - i /\ RunEnd(i) - i \in Nat \ {0}
           /\ Cardinality(TuplesIn(Run(i))) \in Nat
<1> DEFINE e == RunEnd(i)  R == (i + 1)..e  T == TuplesIn(R)
<1>1. e \in Nat /\ i < e /\ e <= Len(Rows) /\ Len(Rows) \in Nat /\ Run(i) = R
  BY RunEndIs DEF RowsCounted, Run
<1> HIDE DEF e
<1>2. IsFiniteSet(R) /\ Cardinality(R) = e - i
  BY <1>1, FS_Interval
<1>3. R \in SUBSET Nat /\ i + 1 \in R /\ \A y \in R : i + 1 <= y
  BY <1>1
<1>4. Min(R) \in R /\ Min(R) <= i + 1
  BY <1>3, MinOfNats
<1>5. Min(R) = i + 1
  BY <1>3, <1>4
<1>6. Cardinality(T) \in Nat
  <2> DEFINE f == [k \in R |-> Rows[k].tuple]
  <2>1. f \in Surjection(R, T)
    <3>1. f \in [R -> T] /\ \A t \in T : \E k \in R : f[k] = t
      BY DEF TuplesIn
    <3> HIDE DEF f, R, T
    <3> QED
      BY <3>1 DEF Surjection
  <2> HIDE DEF f, R, T
  <2> QED
    BY <1>2, <2>1, FS_Surjection, FS_CardinalityType
<1>7. R \in SUBSET (1..Len(Rows))
  BY <1>1
<1> QED
  BY <1>1, <1>2, <1>5, <1>6, <1>7 DEF e

(* A staged key has a partition and a value in words.                      *)
LEMMA RowKeyType ==
    ASSUME TypeOK, NEW k \in 1..Len(Rows)
    PROVE  PartitionOfRow(k) \in Word /\ KeyOfRow(k).value \in Word
<1>1. Rows[k] \in RowType(staging.kind, Len(tuples))
  BY DEF TypeOK, Rows
<1>2. CASE staging.kind = "memory"
  <2>1. Rows[k].packed \in Word
    BY <1>1, <1>2 DEF RowType
  <2>2. /\ Rows[k].packed \div AddressSpan \in Word
        /\ Rows[k].packed % AddressSpan \in Word
    BY <2>1, SplitWord
  <2> QED
    BY <1>2, <2>2 DEF PartitionOfRow, KeyOfRow, RowKey, NarrowKey
<1>3. CASE staging.kind # "memory"
  BY <1>1, <1>3 DEF RowType, PartitionOfRow, KeyOfRow, RowKey
<1> QED
  BY <1>2, <1>3

(* The bytes of the address that the records of a run need.                *)
RangeOf(run) ==
    IF wide THEN trim_bytes({KeyOfRow(k).bytes : k \in run}, wide_width)
            ELSE trim_bits({KeyOfRow(k).value : k \in run})

(* They are a stretch of the address.                                      *)
LEMMA StretchIs ==
    ASSUME NEW n \in Nat, NEW used \in SUBSET (0..(n - 1))
    PROVE  Stretch(used).skip \in Nat /\ Stretch(used).width \in Nat /\ Stretch(used).width <= n
<1>1. CASE used = {}
  BY <1>1 DEF Stretch
<1>2. CASE used # {}
  <2>1. used \in SUBSET Nat /\ used \in SUBSET (0..n)
    OBVIOUS
  <2>2. Min(used) \in used /\ \A y \in used : Min(used) <= y
    BY <1>2, <2>1, MinOfNats
  <2>3. Max(used) \in used
    BY <1>2, <2>1, MaxOfNats
  <2> DEFINE low == Min(used)  high == Max(used)
  <2>4. low \in 0..(n - 1) /\ high \in 0..(n - 1) /\ low <= high
    BY <2>2, <2>3
  <2>5. Stretch(used) = [skip |-> low, width |-> high + 1 - low]
    BY <1>2 DEF Stretch
  <2> HIDE DEF low, high
  <2> QED
    BY <2>4, <2>5
<1> QED
  BY <1>1, <1>2

(* The stretch of a run.                                                   *)
LEMMA RangeIs ==
    ASSUME TypeOK, NEW run
    PROVE  /\ RangeOf(run).skip \in Nat /\ RangeOf(run).width \in Nat
           /\ RangeOf(run).width <= IF wide THEN wide_width ELSE WordBytes
<1>1. wide_width \in Nat /\ WordBytes \in Nat
  BY WordAssumption DEF TypeOK
<1>2. CASE wide
  BY <1>1, <1>2, StretchIs DEF RangeOf, trim_bytes
<1>3. CASE ~wide
  BY <1>1, <1>3, StretchIs DEF RangeOf, trim_bits
<1> QED
  BY <1>2, <1>3

(* What a remap table costs and saves is what the references cost without  *)
(* it.                                                                     *)
LEMMA PlanPays ==
    ASSUME NEW enabled, NEW width \in Nat, NEW distinct \in Nat, NEW n \in Nat
    PROVE  LET p == plan_remap(enabled, width, distinct, n)
           IN  /\ p.local \in Nat /\ p.savings \in Nat /\ p.savings <= n * width
               /\ p.local = 0 => p.savings = 0
               /\ p.local # 0 =>
                     p.savings + (distinct * RemapEntrySize + n * p.local) = n * width
<1> DEFINE p == plan_remap(enabled, width, distinct, n)
           local == width_for(distinct - 1)
           table == distinct * RemapEntrySize
           saved == n * (width - local)
           without == n * width
           narrow == n * local
<1>1. local \in Nat \ {0} /\ RemapEntrySize \in Nat
  BY WidthRange, WordAssumption, LayoutAssumption
<1>2. table \in Nat /\ without \in Nat /\ narrow \in Nat /\ saved = without - narrow
  BY <1>1
<1>3. \/ p = [local |-> 0, savings |-> 0]
      \/ p = [local |-> local, savings |-> saved - table] /\ ~(saved <= table)
  BY DEF plan_remap
<1>4. p.local # 0 => p.local = local
  BY <1>3
<1> HIDE DEF local, table, saved, without
<1>5. p = [local |-> 0, savings |-> 0] => p.local = 0 /\ p.savings = 0
  OBVIOUS
<1>6. p = [local |-> local, savings |-> saved - table] =>
          p.local = local /\ p.savings = saved - table
  OBVIOUS
<1> HIDE DEF p
<1>7. p.local \in Nat /\ p.savings \in Nat /\ p.savings <= without
      /\ (p.local = 0 => p.savings = 0)
  BY <1>1, <1>2, <1>3, <1>5, <1>6
<1>8. p.local # 0 => p.savings = saved - table /\ n * p.local = narrow
  BY <1>3, <1>4, <1>5, <1>6
<1> HIDE DEF narrow
<1>9. p.local # 0 => p.savings + (table + n * p.local) = without
  BY <1>2, <1>8
<1> QED
  BY <1>7, <1>9 DEF p, table, without

(* The layout chosen: the stride of a tuple and the two widths.            *)
ShapeTyped ==
    /\ options \in LayoutOptions
    /\ value_stride \in Nat
    /\ ref_width \in 1..WordBytes
    /\ address_width \in Nat
    /\ IF wide THEN address_width = wide_width ELSE address_width <= WordBytes

(* The bytes a record takes besides its address.                           *)
Payload == IF interned THEN ref_width ELSE value_stride

(* A run costs its addresses and its payloads, less what its remap table   *)
(* saves.                                                                  *)
LEMMA SlotIs ==
    ASSUME TypeOK, ShapeTyped, NEW i \in Nat, i < Len(Rows),
           NEW range, range.width \in Nat
    PROVE  LET s == Slot(Run(i), range)
               n == RunEnd(i) - i
               saved == IF interned THEN MeasuredPlan(Run(i)).savings ELSE 0
           IN  /\ s.entry.partition \in Word
               /\ SlotBytes(s) \in Nat /\ saved \in Nat
               /\ SlotBytes(s) + saved = n * range.width + n * Payload
<1> DEFINE s == Slot(Run(i), range)
           n == RunEnd(i) - i
           D == Cardinality(TuplesIn(Run(i)))
           p == plan_remap(options.remap, ref_width, D, n)
           remapped == interned /\ p.local # 0
           width == IF remapped THEN p.local ELSE ref_width
           remap_count == IF remapped THEN D ELSE 0
           saved == IF interned THEN MeasuredPlan(Run(i)).savings ELSE 0
<1>1. RowsCounted
  BY RowsAreCounted
<1>2. /\ Min(Run(i)) = i + 1 /\ Cardinality(Run(i)) = n /\ n \in Nat /\ D \in Nat
      /\ Len(Rows) \in Nat
  BY <1>1, RunIs DEF RowsCounted
<1>3. MeasuredPlan(Run(i)) = p
  BY <1>2 DEF MeasuredPlan
<1>4. s.entry.partition = PartitionOfRow(i + 1) /\ s.entry.count = n
  BY <1>2 DEF Slot
<1>5. s.block.remap_bytes = remap_count * RemapEntrySize
  BY <1>2 DEF Slot
<1>6. s.block.stride = range.width + (IF interned THEN width ELSE value_stride)
  BY <1>2 DEF Slot
<1>7. ref_width \in Nat /\ value_stride \in Nat /\ RemapEntrySize \in Nat
  BY WordAssumption, LayoutAssumption DEF ShapeTyped
<1>8. /\ p.local \in Nat /\ p.savings \in Nat
      /\ p.local = 0 => p.savings = 0
      /\ p.local # 0 => p.savings + (D * RemapEntrySize + n * p.local) = n * ref_width
  BY <1>2, <1>7, PlanPays, SMTT(20)
<1>9. SlotBytes(s) = s.block.remap_bytes + s.entry.count * s.block.stride
  BY DEF SlotBytes
<1>10. i + 1 \in 1..Len(Rows)
  BY <1>2
<1>11. s.entry.partition \in Word
  BY <1>4, <1>10, RowKeyType
<1> HIDE DEF s, p
<1>12. SlotBytes(s) = remap_count * RemapEntrySize
                        + n * (range.width + (IF interned THEN width ELSE value_stride))
  BY <1>4, <1>5, <1>6, <1>9
<1> DEFINE addresses == n * range.width
<1>13. addresses \in Nat
  BY <1>2
<1>14. CASE ~interned
  <2> DEFINE values == n * value_stride
  <2>1. n * (range.width + value_stride) = addresses + values /\ values \in Nat
    BY <1>2, <1>7
  <2>2. remap_count * RemapEntrySize = 0
    BY <1>7, <1>14
  <2>3. n * Payload = values /\ saved = 0
    BY <1>14 DEF Payload
  <2> HIDE DEF addresses, values
  <2>4. SlotBytes(s) = addresses + values
    BY <1>12, <1>13, <1>14, <2>1, <2>2
  <2>5. SlotBytes(s) \in Nat /\ saved \in Nat /\ SlotBytes(s) + saved = addresses + values
    BY <1>13, <2>1, <2>3, <2>4
  <2> QED
    BY <1>11, <2>3, <2>5 DEF addresses, s
<1>15. CASE interned /\ p.local = 0
  <2> DEFINE refs == n * ref_width
  <2>1. n * (range.width + ref_width) = addresses + refs /\ refs \in Nat
    BY <1>2, <1>7
  <2>2. remap_count * RemapEntrySize = 0 /\ width = ref_width
    BY <1>7, <1>15
  <2>3. n * Payload = refs /\ saved = 0
    BY <1>3, <1>8, <1>15 DEF Payload
  <2> HIDE DEF addresses, refs
  <2>4. SlotBytes(s) = addresses + refs
    BY <1>12, <1>13, <1>15, <2>1, <2>2
  <2>5. SlotBytes(s) \in Nat /\ saved \in Nat /\ SlotBytes(s) + saved = addresses + refs
    BY <1>13, <2>1, <2>3, <2>4
  <2> QED
    BY <1>11, <2>3, <2>5 DEF addresses, s
<1>16. CASE interned /\ p.local # 0
  <2> DEFINE refs == n * ref_width
             narrow == n * p.local
             table == D * RemapEntrySize
             local == p.local  savings == p.savings
  <2>a. local \in Nat /\ savings \in Nat
    BY <1>8
  <2>b. n * (range.width + p.local) = addresses + narrow
    <3>1. n * (range.width + local) = n * range.width + n * local
      <4> DEFINE w == range.width
      <4>1. n \in Nat /\ w \in Nat /\ local \in Nat
        BY <1>2, <2>a
      <4> HIDE DEF local, n, w
      <4>2. n * (w + local) = n * w + n * local
        BY <4>1
      <4> QED
        BY <4>2 DEF w
    <3> QED
      BY <3>1
  <2>1. refs \in Nat /\ narrow \in Nat /\ table \in Nat
    <3>1. \A x, y \in Nat : x * y \in Nat
      OBVIOUS
    <3> QED
      BY <1>2, <1>7, <2>a, <3>1
  <2>2. remap_count * RemapEntrySize = table /\ width = p.local
    BY <1>16
  <2>3. n * Payload = refs /\ saved = p.savings
    BY <1>3, <1>16 DEF Payload
  <2>4. p.savings + (table + narrow) = refs
    BY <1>8, <1>16
  <2> HIDE DEF addresses, refs, narrow, table
  <2>5. SlotBytes(s) = table + (addresses + narrow)
    BY <1>12, <1>13, <1>16, <2>1, <2>2, <2>b
  <2>6. SlotBytes(s) \in Nat /\ saved \in Nat /\ SlotBytes(s) + saved = addresses + refs
    <3>1. saved = savings /\ savings + (table + narrow) = refs
      BY <2>3, <2>4
    <3> DEFINE total == SlotBytes(s)
    <3>2. total = table + (addresses + narrow)
      BY <2>5
    <3> HIDE DEF savings, total, saved
    <3> QED
      BY <1>13, <2>1, <2>a, <3>1, <3>2 DEF total
  <2> QED
    BY <1>11, <2>3, <2>6 DEF addresses, s
<1> QED
  BY <1>14, <1>15, <1>16

----------------------------------------------------------------------------
(* The dictionaries.                                                       *)

(* Every place in the order of a finite set of numbers is taken.           *)
LEMMA RankExists ==
    ASSUME NEW T \in SUBSET Nat, IsFiniteSet(T), NEW m \in Nat, m < Cardinality(T)
    PROVE  \E g \in T : Cardinality({x \in T : x < g}) = m
<1> DEFINE below(g) == {x \in T : x < g}
           S == {k \in Nat : k < Cardinality(T) => \E g \in T : Cardinality(below(g)) = k}
<1>1. \A U \in SUBSET T : IsFiniteSet(U) /\ Cardinality(U) \in Nat
  BY FS_Subset, FS_CardinalityType
<1>2. 0 \in S
  <2> SUFFICES ASSUME 0 < Cardinality(T) PROVE \E g \in T : Cardinality(below(g)) = 0
    OBVIOUS
  <2>1. T # {}
    BY FS_EmptySet
  <2>2. Min(T) \in T /\ \A y \in T : Min(T) <= y
    BY <2>1, MinOfNats
  <2> DEFINE low == Min(T)
  <2>3. low \in T /\ \A y \in T : low <= y
    BY <2>2
  <2> HIDE DEF low
  <2>4. \A y \in T : ~(y < low)
    BY <2>3
  <2>5. below(low) = {}
    BY <2>4
  <2>6. Cardinality(below(low)) = 0
    BY <2>5, FS_EmptySet
  <2> QED
    BY <2>3, <2>6
<1>3. ASSUME NEW k \in Nat, k \in S PROVE k + 1 \in S
  <2> SUFFICES ASSUME k + 1 < Cardinality(T)
               PROVE  \E g \in T : Cardinality(below(g)) = k + 1
    OBVIOUS
  <2>1. Cardinality(T) \in Nat
    BY <1>1
  <2>2. PICK g \in T : Cardinality(below(g)) = k
    BY <1>3, <2>1
  <2> DEFINE upto == below(g) \cup {g}
             above == {x \in T : g < x}
             next == Min(above)
  <2>3. Cardinality(upto) = k + 1
    <3>1. g \notin below(g) /\ IsFiniteSet(below(g))
      BY <1>1
    <3> QED
      BY <2>2, <3>1, FS_AddElement
  <2>4. above # {}
    <3> SUFFICES ASSUME above = {} PROVE FALSE
      OBVIOUS
    <3>a. \A x \in T : x \in Nat /\ (x < g \/ x = g \/ g < x)
      OBVIOUS
    <3>b. \A x \in T : x \in upto
      BY <3>a
    <3>1. T = upto
      BY <3>b
    <3> HIDE DEF upto
    <3> QED
      BY <2>1, <2>3, <3>1
  <2>5. next \in above /\ \A y \in above : next <= y
    <3>1. above \in SUBSET Nat
      OBVIOUS
    <3> HIDE DEF above
    <3> QED
      BY <2>4, <3>1, MinOfNats
  <2> HIDE DEF next
  <2>a. next \in T /\ g < next /\ \A y \in T : g < y => next <= y
    BY <2>5
  <2>b. \A x \in T : x < next <=> (x < g \/ x = g)
    <3> SUFFICES ASSUME NEW x \in T PROVE x < next <=> (x < g \/ x = g)
      OBVIOUS
    <3>1. x \in Nat /\ g \in Nat /\ next \in Nat /\ (g < x => next <= x)
      BY <2>a
    <3> QED
      BY <2>a, <3>1
  <2>6. below(next) = upto
    BY <2>b
  <2>7. next \in T
    BY <2>5
  <2> QED
    BY <2>3, <2>6, <2>7
<1> HIDE DEF S
<1>4. m \in S
  BY <1>2, <1>3, NatSetInduction
<1> QED
  BY <1>4 DEF S

(* The text field whose dictionary comes next exists.                      *)
LEMMA NextTextField ==
    ASSUME NEW m \in Nat, m < Cardinality(TextFields)
    PROVE  (CHOOSE g \in TextFields : text_slot(g) = m) \in TextFields
<1>1. TextFields \in SUBSET Fields /\ Fields \in SUBSET Nat /\ IsFiniteSet(Fields)
  BY WriterAssumption, BuilderAssumption DEF TextFields
<1>2. TextFields \in SUBSET Nat /\ IsFiniteSet(TextFields)
  BY <1>1, FS_Subset
<1>3. \E g \in TextFields : text_slot(g) = m
  BY <1>2, RankExists DEF text_slot
<1> QED
  BY <1>3

(* A text dictionary has a size, and takes up more than it has texts.      *)
LEMMA DictSize ==
    ASSUME TypeOK, NEW f \in TextFields
    PROVE  serialized_size(f) \in Nat /\ Len(texts[f]) <= serialized_size(f)
<1> DEFINE D == DOMAIN texts[f]
           h == [i \in D |-> TextSize[texts[f][i]]]
           Rec(g) == g = [s \in SUBSET D |->
               IF s = {} THEN 0
               ELSE TextSize[texts[f][CHOOSE x \in s : TRUE]] + g[s \ {CHOOSE x \in s : TRUE}]]
           iter == CHOOSE g : Rec(g)
<1>1. f \in Fields /\ FieldKind[f] = "text"
  BY DEF TextFields
<1>2. texts[f] \in Seq(FieldValues[f]) /\ Len(texts[f]) \in Nat /\ D = 1..Len(texts[f])
  BY <1>1 DEF TypeOK
<1>3. \A i \in D : h[i] \in Nat
  <2>1. FieldValues[f] \subseteq DOMAIN TextSize /\ \A v \in DOMAIN TextSize : TextSize[v] \in Nat
    BY <1>1, BuilderAssumption
  <2> QED
    BY <1>2, <2>1
<1>4. IsFiniteSet(D)
  BY <1>2, FS_Interval
<1>5. blob_size(f) = iter[D]
  BY DEF blob_size, MapThenSumSet, MapThenFoldSet
<1>6. iter[D] = Total(h, D)
  <2>1. PICK g : Solves(g, h, D)
    BY <1>4, PartialExists
  <2>2. Rec(g)
    BY <2>1 DEF Solves, Pick
  <2> HIDE DEF D
  <2>3. Rec(iter)
    BY <2>2
  <2>4. Sums(iter, h, D)
    BY <2>3 DEF Sums, Pick
  <2>5. D \in SUBSET D /\ \A y \in D : h[y] = h[y]
    OBVIOUS
  <2> HIDE DEF iter, h
  <2> QED
    BY <1>4, <2>4, <2>5, TotalUnique
<1> HIDE DEF iter, h, D
<1>7. blob_size(f) \in Nat
  BY <1>3, <1>4, <1>5, <1>6, TotalNat
<1>8. RemapEntrySize \in Nat /\ DictHeaderSize \in Nat
  BY LayoutAssumption, WordAssumption
<1>9. (Len(texts[f]) + 1) * RemapEntrySize \in Nat
  BY <1>2, <1>8
<1> DEFINE n == Len(texts[f])  table == (n + 1) * RemapEntrySize
<1>10. n <= table
  <2>1. n + 1 \in Nat /\ 1 <= RemapEntrySize
    BY <1>2, LayoutAssumption
  <2>2. 1 * (n + 1) <= RemapEntrySize * (n + 1)
    BY <1>8, <2>1, TimesAtLeast
  <2> QED
    BY <1>2, <1>8, <2>1, <2>2
<1> HIDE DEF n, table
<1>11. n \in Nat /\ table \in Nat
  BY <1>2, <1>9 DEF n, table
<1>12. serialized_size(f) = DictHeaderSize + table + blob_size(f)
  BY DEF serialized_size, n, table
<1> QED
  BY <1>7, <1>8, <1>10, <1>11, <1>12 DEF n

----------------------------------------------------------------------------
(* The two walks.                                                          *)

(* How far each walk is, in runs.  The layout has a range for every run    *)
(* measured, and write_image has written a block for every run behind row. *)
WalkInv ==
    /\ wpc \in {"off", "measure", "dictionaries", "records", "directory", "written", "thrown"}
    /\ wpc # "off" => stage = "layout"
    /\ row \in 0..Len(Rows)
    /\ wpc # "off" => AtBoundary(row)
    /\ IsSequence(ranges) /\ IsSequence(directory)
    /\ wpc \in {"off", "dictionaries"} => row = 0
    /\ wpc \in {"off", "measure"} => directory = <<>>
    /\ wpc = "off" => ranges = <<>>
    /\ wpc = "measure" => Len(ranges) = RunsTo(row)
    /\ wpc \in {"dictionaries", "records", "directory", "written"} =>
          Len(ranges) = RunsTo(Len(Rows))
    /\ wpc \notin {"off", "measure"} => Len(directory) = RunsTo(row)
    /\ wpc \in {"directory", "written"} => row = Len(Rows)

(* What the walks are measured by depends on the staged rows alone.        *)
LEMMA SameWalk ==
    ASSUME UNCHANGED staging
    PROVE  /\ Len(Rows)' = Len(Rows)
           /\ \A i : RunsTo(i)' = RunsTo(i) /\ AtBoundary(i)' = AtBoundary(i)
BY DEF Rows, RunsTo, AtBoundary, Starts, PartitionOfRow, KeyOfRow

(* The empty sequence.                                                     *)
LEMMA EmptySequence == IsSequence(<<>>) /\ Len(<<>>) = 0
BY DEF IsSequence

(* The writer starts with nothing.                                         *)
LEMMA InitWalk == Init => WalkInv
<1> SUFFICES ASSUME Init PROVE WalkInv
  OBVIOUS
<1>1. Len(Rows) = 0
  BY DEF Init, BuilderInit, Rows, NoStaging
<1> QED
  BY <1>1, EmptySequence DEF Init, WalkInv

(* Every step keeps both walks on the boundaries between partitions.       *)
LEMMA NextWalk == TypeOK /\ TypeOK' /\ WalkInv /\ [Next]_vars => WalkInv'
<1> SUFFICES ASSUME TypeOK, TypeOK', WalkInv, [Next]_vars PROVE WalkInv'
  OBVIOUS
<1>1. RowsCounted /\ RowsCounted' /\ Len(Rows) \in Nat
  BY RowsAreCounted DEF RowsCounted, TypeOK, Rows
<1>2. CASE UNCHANGED <<staging, stage, row, ranges, directory, wpc>>
  BY <1>2, SameWalk DEF WalkInv
<1>3. CASE Consume
  <2>1. /\ UNCHANGED <<wpc, row, ranges, directory>> /\ wpc = "off" /\ row = 0
    BY <1>3 DEF Consume, writer_vars, WalkInv
  <2>2. row' \in 0..Len(Rows')
    BY <1>1, <2>1 DEF RowsCounted
  <2> QED
    BY <2>1, <2>2 DEF WalkInv
<1>4. CASE StartLayout
  <2>1. /\ UNCHANGED <<staging, stage, row, ranges, directory>> /\ wpc' = "measure"
        /\ stage = "layout" /\ wpc = "off"
    BY <1>4 DEF StartLayout, builder_vars, store, output_vars
  <2>2. AtBoundary(0) /\ RunsTo(0) = 0
    BY <1>1, NothingYet
  <2> QED
    BY <2>1, <2>2, SameWalk, EmptySequence DEF WalkInv
<1>5. CASE MeasureRun
  <2>1. /\ UNCHANGED <<staging, stage, wpc, directory>>
        /\ wpc = "measure" /\ row < Len(Rows) /\ row' = RunEnd(row)
        /\ \E r : ranges' = Append(ranges, r)
    BY <1>5 DEF MeasureRun, builder_vars, store, output_vars
  <2>2. row \in Nat /\ AtBoundary(row)
    BY <1>1, <2>1 DEF WalkInv
  <2>3. /\ RunEnd(row) \in 0..Len(Rows) /\ AtBoundary(RunEnd(row))
        /\ RunsTo(RunEnd(row)) = RunsTo(row) + 1
    BY <1>1, <2>1, <2>2, RunEndIs, OneRunFurther
  <2>4. IsSequence(ranges') /\ Len(ranges') = Len(ranges) + 1
    BY <2>1, AppendAny DEF WalkInv
  <2> QED
    BY <2>1, <2>3, <2>4, SameWalk DEF WalkInv
<1>6. CASE Price
  <2>1. /\ UNCHANGED <<staging, stage, directory>>
        /\ wpc = "measure" /\ row = Len(Rows) /\ row' = 0 /\ wpc' = "dictionaries"
    BY <1>6 DEF Price, builder_vars, store
  <2>2. ranges' = ranges \/ \E full : ranges' = [r \in DOMAIN ranges |-> full]
    BY <1>6 DEF Price, FullRanges
  <2>3. IsSequence(ranges') /\ Len(ranges') = Len(ranges)
    <3>1. CASE \E full : ranges' = [r \in DOMAIN ranges |-> full]
      <4>1. PICK full : ranges' = [r \in DOMAIN ranges |-> full]
        BY <3>1
      <4>2. ranges' = [r \in DOMAIN ranges |-> ranges'[r]]
        BY <4>1
      <4> QED
        BY <4>2, SequenceOf DEF WalkInv
    <3> QED
      BY <2>2, <3>1 DEF WalkInv
  <2>4. AtBoundary(0) /\ RunsTo(0) = 0
    BY <1>1, NothingYet
  <2> QED
    BY <1>1, <2>1, <2>3, <2>4, SameWalk, EmptySequence DEF WalkInv
<1>7. CASE WriteTextDict
  BY <1>2, <1>7 DEF WriteTextDict, builder_vars, store
<1>8. CASE EndDictionaries
  <2>1. /\ UNCHANGED <<staging, stage, row, ranges, directory>>
        /\ wpc = "dictionaries" /\ wpc' \in {"thrown", "records"}
    BY <1>8 DEF EndDictionaries, builder_vars, store
  <2> QED
    BY <2>1, SameWalk DEF WalkInv
<1>9. CASE WriteRun
  <2>1. /\ UNCHANGED <<staging, stage, ranges>> /\ wpc = "records" /\ row < Len(Rows)
    BY <1>9 DEF WriteRun, builder_vars, store
  <2>2. row \in Nat /\ AtBoundary(row)
    BY <1>1, <2>1 DEF WalkInv
  <2>3. /\ RunEnd(row) \in 0..Len(Rows) /\ AtBoundary(RunEnd(row))
        /\ RunsTo(RunEnd(row)) = RunsTo(row) + 1
        /\ RunsTo(row) < RunsTo(Len(Rows))
    BY <1>1, <2>1, <2>2, RunEndIs, OneRunFurther
  <2>4. Len(directory) < Len(ranges)
    BY <2>1, <2>3 DEF WalkInv
  <2>5. row' = RunEnd(row) /\ wpc' = wpc /\ \E s : directory' = Append(directory, s)
    BY <1>9, <2>4 DEF WriteRun
  <2>6. IsSequence(directory') /\ Len(directory') = Len(directory) + 1
    BY <2>5, AppendAny DEF WalkInv
  <2> QED
    BY <2>1, <2>3, <2>5, <2>6, SameWalk DEF WalkInv
<1>10. CASE EndRecords
  <2>1. /\ UNCHANGED <<staging, stage, row, ranges, directory>>
        /\ wpc = "records" /\ row = Len(Rows)
    BY <1>10 DEF EndRecords, builder_vars, store
  <2>2. wpc' = "directory"
    BY <1>10, <2>1 DEF EndRecords, WalkInv
  <2> QED
    BY <2>1, <2>2, SameWalk DEF WalkInv
<1>11. CASE WriteDirectory
  <2>1. /\ UNCHANGED <<staging, stage, row, ranges, directory>>
        /\ wpc = "directory" /\ wpc' = "written"
    BY <1>11 DEF WriteDirectory, builder_vars, store
  <2> QED
    BY <2>1, SameWalk DEF WalkInv
<1>12. CASE SinkFails
  <2>1. /\ UNCHANGED <<staging, stage, row, ranges, directory>>
        /\ wpc \in {"dictionaries", "records", "directory"} /\ wpc' = "thrown"
    BY <1>12 DEF SinkFails, builder_vars, store, output_vars
  <2> QED
    BY <2>1, SameWalk DEF WalkInv
<1>13. CASE UNCHANGED vars
  BY <1>2, <1>13 DEF vars, builder_vars, store, writer_vars
<1> QED
  BY <1>3, <1>4, <1>5, <1>6, <1>7, <1>8, <1>9, <1>10, <1>11, <1>12, <1>13
     DEF Next, Writing

(* A step of the writer is a step of the builder, or none of its.          *)
LEMMA BuilderSteps == [Next]_vars => [BuilderNext]_builder_vars
BY DEF Next, Writing, Consume, StartLayout, MeasureRun, Price, WriteTextDict, EndDictionaries,
       WriteRun, EndRecords, WriteDirectory, SinkFails, vars

----------------------------------------------------------------------------
(* The types of the writer.                                                *)

(* The widths of a stretch are numbers.                                    *)
RangesTyped == \A r \in 1..Len(ranges) : ranges[r].skip \in Nat /\ ranges[r].width \in Nat

(* The partitions written are words, which make the directory finite, and  *)
(* their blocks have sizes.                                                *)
DirectoryTyped ==
    \A i \in 1..Len(directory) :
        directory[i].entry.partition \in Word /\ SlotBytes(directory[i]) \in Nat

(* What the types of the writer rest on.                                   *)
TypesInv ==
    /\ wpc # "off" => ShapeTyped
    /\ RangesTyped
    /\ DirectoryTyped
    /\ priced \in [address_bytes : Nat, remap_savings : Nat]
    /\ interned \in BOOLEAN
    /\ estimate \in Nat
    /\ pos \in Nat
    /\ IsSequence(dicts)
    /\ Len(dicts) <= Cardinality(TextFields) + 1
    /\ wpc \in {"off", "measure", "dictionaries"} => Len(dicts) <= Cardinality(TextFields)

(* The text fields are counted.                                            *)
LEMMA TextFieldsCounted == Cardinality(TextFields) \in Nat
<1>1. TextFields \in SUBSET Fields /\ IsFiniteSet(Fields)
  BY BuilderAssumption, WriterAssumption DEF TextFields
<1> QED
  BY <1>1, FS_Subset, FS_CardinalityType

(* A size that fits 8 bits, or what is left of it.                         *)
LEMMA Uint8Nat == \A v \in Nat : uint8(v) \in Nat
<1> SUFFICES ASSUME NEW v \in Nat PROVE uint8(v) \in Nat
  OBVIOUS
<1> DEFINE m == Sizes.uint8
<1>1. m \in Nat \ {0}
  BY FormatAssumption
<1> HIDE DEF m
<1>2. v % m \in Nat
  BY <1>1
<1> QED
  BY <1>2 DEF uint8, m

(* Padding keeps a position a number.                                      *)
LEMMA PaddedNat == \A p \in Nat : Padded(p) \in Nat /\ p <= Padded(p)
<1> SUFFICES ASSUME NEW p \in Nat PROVE Padded(p) \in Nat /\ p <= Padded(p)
  OBVIOUS
<1> DEFINE a == Sizes.alignment
<1>1. a \in Nat \ {0}
  BY FormatAssumption
<1> HIDE DEF a
<1>2. align_up(p, a) \in Nat /\ p <= align_up(p, a)
  BY <1>1, AlignUp
<1> QED
  BY <1>2 DEF Padded, a

(* What the cost model adds up.                                            *)
FixedSize == fixed_dictionary_size(tuple_count, value_stride)

(* The numbers of the cost model are numbers.                              *)
LEMMA PricesNat ==
    ASSUME TypeOK, ShapeTyped, priced \in [address_bytes : Nat, remap_savings : Nat]
    PROVE  /\ count \in Nat /\ tuple_count \in Nat /\ value_stride \in Nat
           /\ ref_width \in Nat /\ AddressBytes \in Nat /\ FixedSize \in Nat
           /\ count * value_stride \in Nat /\ count * ref_width \in Nat
<1>1. /\ count \in Nat /\ tuple_count \in Nat /\ value_stride \in Nat
      /\ ref_width \in Nat /\ address_width \in Nat
  BY WordAssumption DEF TypeOK, ShapeTyped, tuple_count
<1>2. \A x, y \in Nat : x * y \in Nat
  OBVIOUS
<1>3. count * value_stride \in Nat /\ count * ref_width \in Nat
      /\ tuple_count * value_stride \in Nat /\ count * address_width \in Nat
  BY <1>1, <1>2
<1>4. AddressBytes \in Nat
  BY <1>3 DEF AddressBytes
<1>5. FixedSize \in Nat
  BY <1>3, LayoutAssumption DEF FixedSize, fixed_dictionary_size
<1> QED
  BY <1>1, <1>3, <1>4, <1>5

(* The writer starts with these types.                                     *)
LEMMA InitTypes == Init => TypesInv
<1> SUFFICES ASSUME Init PROVE TypesInv
  OBVIOUS
<1>1. /\ wpc = "off" /\ ranges = <<>> /\ directory = <<>> /\ dicts = <<>> /\ pos = 0
      /\ estimate = 0 /\ interned = FALSE /\ priced = [address_bytes |-> 0, remap_savings |-> 0]
  BY DEF Init
<1>2. Len(ranges) = 0 /\ Len(directory) = 0 /\ Len(dicts) = 0 /\ IsSequence(dicts)
  BY <1>1, EmptySequence
<1>3. RangesTyped /\ DirectoryTyped
  BY <1>2 DEF RangesTyped, DirectoryTyped
<1>4. priced \in [address_bytes : Nat, remap_savings : Nat] /\ pos \in Nat /\ estimate \in Nat
  BY <1>1
<1>5. interned \in BOOLEAN
  BY <1>1
<1>6. Len(dicts) <= Cardinality(TextFields) + 1 /\ Len(dicts) <= Cardinality(TextFields)
  BY <1>2, TextFieldsCounted
<1>7. wpc = "off"
  BY <1>1
<1> QED
  BY <1>2, <1>3, <1>4, <1>5, <1>6, <1>7, Zenon DEF TypesInv

(* The fields have a layout and the address a width.                       *)
LEMMA LayoutTypes ==
    ASSUME TypeOK, TypesInv, StartLayout
    PROVE  ShapeTyped'
<1> DEFINE offsets == FieldOffsets(options'.align)
           last_field == Max(Fields)
           stride == offsets[last_field] + FieldWidth(last_field)
           refs == width_for(Max({0, tuple_count - 1}))
<1>1. options' \in LayoutOptions /\ options'.align \in BOOLEAN
  BY WriterAssumption DEF StartLayout
<1>2. offsets \in [Fields -> Nat]
  BY <1>1, OffsetsFollow
<1>3. last_field \in Fields
  BY FieldIds
<1>4. FieldWidth(last_field) \in Nat
  BY <1>3, FieldWidthRange, WordAssumption
<1> HIDE DEF offsets, last_field
<1>5. stride \in Nat
  BY <1>2, <1>3, <1>4
<1>6. refs \in 1..WordBytes
  BY WidthRange
<1> HIDE DEF stride, refs
<1>7. value_stride' = stride /\ ref_width' = refs /\ address_width' = AddressWidth
  BY DEF StartLayout, value_stride, ref_width, address_width, stride, refs, offsets, last_field
<1>8. blob' = blob /\ wide_width' = wide_width
  BY DEF StartLayout, builder_vars, world
<1>9. /\ wide_width \in Nat
      /\ wide => AddressWidth = wide_width
      /\ ~wide => AddressWidth \in 1..WordBytes
  BY WidthRange DEF TypeOK, AddressWidth
<1>10. AddressWidth \in Nat
  BY <1>9, WordAssumption
<1> QED
  BY <1>1, <1>5, <1>6, <1>7, <1>8, <1>9, <1>10, WordAssumption DEF ShapeTyped, wide

(* The slots that write_image puts out.                                    *)
SlotsOut(dense) ==
    IF dense THEN DenseSlots ELSE [s \in 0..(Len(directory) - 1) |-> Entries[s + 1]]

(* The partitions of the directory, as a sequence.                         *)
LEMMA PartitionsWritten ==
    ASSUME WalkInv, DirectoryTyped
    PROVE  /\ Len(directory) \in Nat
           /\ Len(WrittenPartitions) = Len(directory)
           /\ \A i \in 1..Len(directory) : WrittenPartitions[i] \in Word
<1>1. IsSequence(directory) /\ Len(directory) \in Nat /\ DOMAIN directory = 1..Len(directory)
  BY DEF WalkInv, IsSequence
<1> DEFINE wp == WrittenPartitions
<1>2. wp = [i \in DOMAIN directory |-> wp[i]]
  BY DEF WrittenPartitions
<1>3. \A i \in 1..Len(directory) : wp[i] = directory[i].entry.partition
  BY <1>1 DEF WrittenPartitions, Entries
<1> HIDE DEF wp
<1>4. Len(wp) = Len(directory)
  BY <1>1, <1>2, SequenceOf
<1> QED
  BY <1>1, <1>3, <1>4 DEF DirectoryTyped, wp

(* A dense directory is no empty one, and it ends with the last partition. *)
LEMMA SlotsCounted ==
    ASSUME WalkInv, DirectoryTyped, NEW dense,
           dense = use_dense(options.max_dense_slots, WrittenPartitions)
    PROVE  /\ Cardinality(DOMAIN SlotsOut(dense)) \in Nat
           /\ dense => /\ directory # <<>> /\ WrittenPartitions[Len(directory)] \in Word
                       /\ Cardinality(DOMAIN SlotsOut(dense))
                             = WrittenPartitions[Len(directory)] + 1
<1> DEFINE n == Len(directory)  last_written == WrittenPartitions[n]
<1>1. /\ n \in Nat /\ Len(WrittenPartitions) = n
      /\ \A i \in 1..n : WrittenPartitions[i] \in Word
  BY PartitionsWritten
<1>2. CASE dense
  <2>1. n # 0
    BY <1>1, <1>2 DEF use_dense
  <2>2. last_written \in Word /\ last_written \in Nat
    BY <1>1, <2>1, WeightNat DEF Word
  <2>3. DOMAIN SlotsOut(dense) = 0..last_written
    BY <1>2 DEF SlotsOut, DenseSlots
  <2>4. directory # <<>>
    BY <2>1, EmptySequence
  <2> HIDE DEF last_written
  <2>5. Cardinality(0..last_written) = last_written + 1
    BY <2>2, FS_Interval
  <2> QED
    BY <2>2, <2>3, <2>4, <2>5 DEF last_written
<1>3. CASE ~dense
  <2>1. DOMAIN SlotsOut(dense) = 0..(n - 1)
    BY <1>3 DEF SlotsOut
  <2>2. Cardinality(0..(n - 1)) \in Nat
    <3>1. 0 \in Int /\ n - 1 \in Int
      BY <1>1
    <3>2. IsFiniteSet(0..(n - 1))
      BY <3>1, FS_Interval
    <3> QED
      BY <3>2, FS_CardinalityType
  <2> QED
    BY <1>3, <2>1, <2>2
<1> QED
  BY <1>2, <1>3

(* The stride of a slot is the sum of its widths.                          *)
LEMMA StrideNat == \A dense : DirStride(DirWidths(dense)) \in Nat
<1> SUFFICES ASSUME NEW dense PROVE DirStride(DirWidths(dense)) \in Nat
  OBVIOUS
<1> DEFINE w == DirWidths(dense)
<1>1. \A v : width_for(v) \in Nat
  BY WidthRange, WordAssumption
<1>2. /\ w.partition \in Nat /\ w.offset \in Nat /\ w.count \in Nat /\ w.schema_id \in Nat
      /\ w.remap_count \in Nat /\ w.width \in Nat /\ w.skip \in Nat
  BY <1>1 DEF DirWidths, make_dir_layout
<1> HIDE DEF w
<1>3. DirStride(w) = w.partition + w.offset + w.count + w.schema_id + w.remap_count
                       + w.width + w.skip
  BY DEF DirStride, DirAt
<1>4. DirStride(w) \in Nat
  BY <1>2, <1>3
<1> QED
  BY <1>4 DEF w

(* The image has a size.                                                   *)
LEMMA ImageSizeNat ==
    ASSUME TypeOK, WalkInv, TypesInv, WriteDirectory
    PROVE  pos' \in Nat /\ pos <= pos'
<1> DEFINE dense == use_dense(options.max_dense_slots, WrittenPartitions)
           stride == DirStride(DirWidths(dense))
           slots_written == Cardinality(DOMAIN SlotsOut(dense))
           places == pos + slots_written * stride
           schema_size == Sizes.schema_header + Cardinality(Fields) * Sizes.field_desc
                            + Len(dicts) * Sizes.dict_entry + Cardinality(Fields) * Sizes.name
           foot == Sizes.footer
<1>1. pos' = Padded(places) + schema_size + foot
  BY DEF WriteDirectory, SlotsOut
<1>2. slots_written \in Nat
  BY SlotsCounted DEF TypesInv
<1>3. stride \in Nat
  BY StrideNat
<1> HIDE DEF slots_written, stride, dense
<1>4. places \in Nat /\ pos \in Nat /\ pos <= places
  <2> DEFINE bytes == slots_written * stride
  <2>1. bytes \in Nat /\ pos \in Nat
    BY <1>2, <1>3 DEF TypesInv
  <2> HIDE DEF bytes
  <2>2. pos + bytes \in Nat /\ pos <= pos + bytes
    BY <2>1
  <2> QED
    BY <2>1, <2>2 DEF bytes
<1>5. schema_size \in Nat /\ foot \in Nat
  <2>1. /\ Sizes.schema_header \in Nat /\ Sizes.field_desc \in Nat
        /\ Sizes.dict_entry \in Nat /\ Sizes.name \in Nat /\ Sizes.footer \in Nat
    BY FormatAssumption
  <2>2. Cardinality(Fields) \in Nat /\ Len(dicts) \in Nat
    BY FieldIds DEF TypesInv, IsSequence
  <2>3. \A x, y \in Nat : x * y \in Nat /\ x + y \in Nat
    OBVIOUS
  <2>4. /\ Cardinality(Fields) * Sizes.field_desc \in Nat
        /\ Len(dicts) * Sizes.dict_entry \in Nat /\ Cardinality(Fields) * Sizes.name \in Nat
    BY <2>1, <2>2, <2>3
  <2> QED
    BY <2>1, <2>3, <2>4
<1> HIDE DEF places, schema_size, foot
<1>6. Padded(places) \in Nat /\ places <= Padded(places)
  BY <1>4, PaddedNat
<1> QED
  BY <1>1, <1>4, <1>5, <1>6

(* Every step keeps the types.                                             *)
LEMMA NextTypes ==
    TypeOK /\ TypeOK' /\ WalkInv /\ TypesInv /\ [Next]_vars => TypesInv'
<1> SUFFICES ASSUME TypeOK, TypeOK', WalkInv, TypesInv, [Next]_vars PROVE TypesInv'
  OBVIOUS
<1>1. RowsCounted /\ Len(Rows) \in Nat /\ Cardinality(TextFields) \in Nat
  BY RowsAreCounted, TextFieldsCounted DEF RowsCounted, TypeOK, Rows
<1>s. ASSUME UNCHANGED <<blob, wide_width, options, shape>> PROVE ShapeTyped' <=> ShapeTyped
  BY <1>s DEF ShapeTyped, wide, value_stride, ref_width, address_width
<1>2. CASE UNCHANGED <<blob, wide_width, writer_vars>>
  BY <1>2, <1>s DEF writer_vars, TypesInv, RangesTyped, DirectoryTyped
<1>3. CASE Consume
  <2>1. UNCHANGED writer_vars /\ wpc = "off"
    BY <1>3 DEF Consume, WalkInv
  <2> QED
    BY <2>1 DEF writer_vars, TypesInv, RangesTyped, DirectoryTyped
<1>4. CASE StartLayout
  <2>1. UNCHANGED <<ranges, directory, priced, interned, estimate, pos, dicts>>
        /\ wpc = "off" /\ wpc' = "measure"
    BY <1>4 DEF StartLayout, output_vars
  <2>2. ShapeTyped'
    BY <1>4, LayoutTypes
  <2> QED
    BY <2>1, <2>2 DEF TypesInv, RangesTyped, DirectoryTyped
<1>5. CASE MeasureRun
  <2> DEFINE run == Run(row)
             range == RangeOf(run)
             plan == MeasuredPlan(run)
             n == RunEnd(row) - row
  <2>1. /\ UNCHANGED <<blob, wide_width, options, shape, wpc, interned, estimate, pos,
                       dicts, directory>>
        /\ wpc = "measure" /\ row < Len(Rows)
        /\ ranges' = Append(ranges, [skip |-> uint8(range.skip), width |-> uint8(range.width)])
        /\ priced' = [address_bytes |-> priced.address_bytes + n * range.width,
                      remap_savings |-> priced.remap_savings + plan.savings]
    BY <1>5 DEF MeasureRun, builder_vars, world, output_vars, RangeOf
  <2>2. range.skip \in Nat /\ range.width \in Nat
    BY RangeIs
  <2>3. row \in Nat /\ n \in Nat /\ Cardinality(TuplesIn(run)) \in Nat /\ Cardinality(run) = n
    BY <1>1, <2>1, RunIs DEF WalkInv
  <2>4. plan.savings \in Nat
    <3>1. ref_width \in Nat
      BY <2>1, WordAssumption DEF TypesInv, ShapeTyped
    <3> QED
      BY <2>3, <3>1, PlanPays DEF MeasuredPlan
  <2> HIDE DEF run, range, plan, n
  <2>5. n * range.width \in Nat
    BY <2>2, <2>3
  <2>6. priced' \in [address_bytes : Nat, remap_savings : Nat]
    BY <2>1, <2>4, <2>5 DEF TypesInv
  <2>7. RangesTyped'
    <3> DEFINE e == [skip |-> uint8(range.skip), width |-> uint8(range.width)]
    <3>1. e.skip \in Nat /\ e.width \in Nat
      BY <2>2, Uint8Nat
    <3> HIDE DEF e
    <3>2. ranges' = Append(ranges, e) /\ IsSequence(ranges) /\ Len(ranges) \in Nat
      BY <2>1 DEF e, WalkInv, IsSequence
    <3>3. /\ Len(ranges') = Len(ranges) + 1 /\ ranges'[Len(ranges) + 1] = e
          /\ \A i \in 1..Len(ranges) : ranges'[i] = ranges[i]
      BY <3>2, AppendAny
    <3>4. ASSUME NEW r \in 1..Len(ranges') PROVE ranges'[r].skip \in Nat /\ ranges'[r].width \in Nat
      <4>1. r \in 1..Len(ranges) \/ r = Len(ranges) + 1
        BY <3>2, <3>3
      <4> QED
        BY <3>1, <3>3, <4>1 DEF TypesInv, RangesTyped
    <3> QED
      BY <3>4 DEF RangesTyped
  <2> QED
    BY <1>s, <2>1, <2>6, <2>7 DEF TypesInv, DirectoryTyped
<1>6. CASE Price
  <2> DEFINE full == [skip |-> 0, width |-> uint8(address_width)]
             inline_bytes == AddressBytes + count * value_stride
             gross == AddressBytes + count * ref_width + FixedSize
             saved == priced.remap_savings
             less == Min({gross, saved})
  <2>1. /\ UNCHANGED <<blob, wide_width, options, shape, priced, dicts, directory>>
        /\ wpc = "measure" /\ wpc' = "dictionaries" /\ pos' = Sizes.header
        /\ ranges' = ranges \/ ranges' = [r \in DOMAIN ranges |-> full]
        /\ interned' \in BOOLEAN
    <3>1. UNCHANGED builder_vars /\ UNCHANGED <<options, shape, priced, dicts, directory>>
          /\ wpc = "measure" /\ wpc' = "dictionaries" /\ pos' = Sizes.header
      BY <1>6 DEF Price
    <3>2. ranges' = ranges \/ ranges' = [r \in DOMAIN ranges |-> full]
      BY <1>6 DEF Price, FullRanges
    <3>3. interned' = CASE options.interning = "always" -> TRUE
                        [] options.interning = "never" -> FALSE
                        [] OTHER -> gross - less < inline_bytes
      BY <1>6 DEF Price, FixedSize
    <3>4. interned' \in BOOLEAN
      <4> HIDE DEF gross, less, inline_bytes
      <4>1. (gross - less < inline_bytes) \in BOOLEAN
        OBVIOUS
      <4> DEFINE smaller == gross - less < inline_bytes
      <4> HIDE DEF smaller
      <4>2. smaller \in BOOLEAN
        BY <4>1 DEF smaller
      <4>3. interned' = CASE options.interning = "always" -> TRUE
                          [] options.interning = "never" -> FALSE
                          [] OTHER -> smaller
        BY <3>3 DEF smaller
      <4> QED
        BY <4>2, <4>3, Zenon
    <3> QED
      BY <3>1, <3>2, <3>4 DEF builder_vars, world
  <2>e. estimate' = gross - less \/ estimate' = inline_bytes
    BY <1>6 DEF Price, FixedSize
  <2>2. ShapeTyped /\ saved \in Nat
    BY <2>1 DEF TypesInv
  <2>3. inline_bytes \in Nat /\ gross \in Nat
    <3>1. /\ AddressBytes \in Nat /\ FixedSize \in Nat
          /\ count * value_stride \in Nat /\ count * ref_width \in Nat
      BY <2>2, PricesNat DEF TypesInv
    <3>2. \A x, y, z \in Nat : x + y \in Nat /\ x + y + z \in Nat
      OBVIOUS
    <3> QED
      BY <3>1, <3>2
  <2> HIDE DEF inline_bytes, gross, saved
  <2>4. less \in Nat /\ less <= gross
    <3>1. {gross, saved} \in SUBSET Nat
      BY <2>2, <2>3
    <3> QED
      BY <3>1, MinOfNats
  <2> HIDE DEF less
  <2>5. estimate' \in Nat
    BY <2>e, <2>3, <2>4
  <2>6. pos' \in Nat
    <3>1. Sizes.header \in Nat
      BY FormatAssumption
    <3> QED
      BY <2>1, <3>1
  <2>7. full.skip \in Nat /\ full.width \in Nat
    BY <2>2, Uint8Nat DEF ShapeTyped
  <2> HIDE DEF full
  <2>8. RangesTyped'
    <3>1. Len(ranges) \in Nat /\ DOMAIN ranges = 1..Len(ranges)
      BY DEF WalkInv, IsSequence
    <3>2. CASE ranges' = [r \in DOMAIN ranges |-> full]
      <4>1. ranges' = [r \in DOMAIN ranges |-> ranges'[r]]
        BY <3>2
      <4>2. Len(ranges') = Len(ranges)
        BY <4>1, SequenceOf DEF WalkInv
      <4> QED
        BY <2>7, <3>1, <3>2, <4>2 DEF RangesTyped
    <3> QED
      BY <2>1, <3>2 DEF TypesInv, RangesTyped
  <2> QED
    BY <1>s, <2>1, <2>2, <2>5, <2>6, <2>8 DEF TypesInv, DirectoryTyped
<1>7. CASE WriteTextDict
  <2> DEFINE f == CHOOSE g \in TextFields : text_slot(g) = Len(dicts)
             size == serialized_size(f)
  <2>1. /\ UNCHANGED <<blob, wide_width, options, shape, priced, interned, estimate, ranges,
                       directory, wpc>>
        /\ wpc = "dictionaries" /\ Len(dicts) < Cardinality(TextFields)
        /\ \E d : dicts' = Append(dicts, d)
        /\ pos' = Padded(pos) + size
    BY <1>7 DEF WriteTextDict, builder_vars, world, PlaceDict
  <2>2. IsSequence(dicts) /\ Len(dicts) \in Nat
    BY DEF TypesInv, IsSequence
  <2>3. size \in Nat
    BY <2>1, <2>2, NextTextField, DictSize
  <2> HIDE DEF size
  <2>4. pos' \in Nat
    <3>1. Padded(pos) \in Nat
      BY PaddedNat DEF TypesInv
    <3> QED
      BY <2>1, <2>3, <3>1
  <2>5. IsSequence(dicts') /\ Len(dicts') = Len(dicts) + 1
    BY <2>1, <2>2, AppendAny
  <2>6. Len(dicts') <= Cardinality(TextFields)
    BY <1>1, <2>1, <2>2, <2>5
  <2> QED
    BY <1>1, <1>s, <2>1, <2>4, <2>5, <2>6 DEF TypesInv, RangesTyped, DirectoryTyped
<1>8. CASE EndDictionaries
  <2>1. /\ UNCHANGED <<blob, wide_width, options, shape, priced, interned, estimate, ranges,
                       directory>>
        /\ wpc = "dictionaries" /\ Len(dicts) = Cardinality(TextFields)
        /\ wpc' \in {"thrown", "records"}
        /\ \/ pos' = pos /\ dicts' = dicts
           \/ pos' = Padded(Padded(pos) + FixedSize) /\ \E d : dicts' = Append(dicts, d)
           \/ pos' = Padded(pos) /\ dicts' = dicts
    BY <1>8 DEF EndDictionaries, builder_vars, world, PlaceDict, FixedSize
  <2>2. FixedSize \in Nat
    BY <2>1, PricesNat DEF TypesInv
  <2>3. Padded(pos) \in Nat /\ Padded(Padded(pos) + FixedSize) \in Nat
    <3>1. Padded(pos) \in Nat
      BY PaddedNat DEF TypesInv
    <3>2. Padded(pos) + FixedSize \in Nat
      BY <2>2, <3>1
    <3> QED
      BY <3>1, <3>2, PaddedNat
  <2>4. IsSequence(dicts') /\ Len(dicts') <= Cardinality(TextFields) + 1
    <3>1. \A d : IsSequence(Append(dicts, d)) /\ Len(Append(dicts, d)) = Len(dicts) + 1
      BY AppendAny DEF TypesInv
    <3>2. IsSequence(dicts) /\ Len(dicts) \in Nat /\ Len(dicts) = Cardinality(TextFields)
      BY <2>1 DEF TypesInv, IsSequence
    <3>3. CASE dicts' = dicts
      BY <1>1, <3>2, <3>3
    <3>4. CASE \E d : dicts' = Append(dicts, d)
      BY <1>1, <3>1, <3>2, <3>4
    <3> QED
      BY <2>1, <3>3, <3>4
  <2> QED
    BY <1>s, <2>1, <2>3, <2>4 DEF TypesInv, RangesTyped, DirectoryTyped
<1>9. CASE WriteRun
  <2> DEFINE s == Slot(Run(row), ranges[Len(directory) + 1])
             bytes == SlotBytes(s)
  <2>1. /\ UNCHANGED <<blob, wide_width, options, shape, priced, interned, estimate, ranges,
                       dicts>>
        /\ wpc = "records" /\ row < Len(Rows)
    BY <1>9 DEF WriteRun, builder_vars, world
  <2>2. row \in Nat /\ AtBoundary(row)
    BY <1>1, <2>1 DEF WalkInv
  <2>3. Len(directory) < Len(ranges) /\ Len(directory) \in Nat /\ Len(ranges) \in Nat
    BY <1>1, <2>1, <2>2, OneRunFurther DEF WalkInv, IsSequence
  <2>4. wpc' = wpc /\ directory' = Append(directory, s) /\ pos' = pos + bytes
    BY <1>9, <2>3 DEF WriteRun
  <2>5. ranges[Len(directory) + 1].width \in Nat
    BY <2>3 DEF TypesInv, RangesTyped
  <2>6. s.entry.partition \in Word /\ bytes \in Nat
    BY <2>1, <2>2, <2>5, SlotIs DEF TypesInv
  <2>b. SlotBytes(s) \in Nat
    BY <2>6
  <2> HIDE DEF s, bytes
  <2>7. DirectoryTyped'
    <3>1. /\ Len(directory') = Len(directory) + 1 /\ directory'[Len(directory) + 1] = s
          /\ \A i \in 1..Len(directory) : directory'[i] = directory[i]
      BY <2>4, AppendAny DEF WalkInv
    <3>2. ASSUME NEW i \in 1..Len(directory')
          PROVE  directory'[i].entry.partition \in Word /\ SlotBytes(directory'[i]) \in Nat
      <4>1. i \in 1..Len(directory) \/ i = Len(directory) + 1
        BY <2>3, <3>1
      <4> QED
        BY <2>6, <2>b, <3>1, <4>1 DEF TypesInv, DirectoryTyped
    <3> QED
      BY <3>2 DEF DirectoryTyped
  <2>8. pos' \in Nat
    BY <2>4, <2>6 DEF TypesInv
  <2> QED
    BY <1>s, <2>1, <2>4, <2>7, <2>8 DEF TypesInv, RangesTyped
<1>10. CASE EndRecords
  <2>1. /\ UNCHANGED <<blob, wide_width, options, shape, priced, interned, estimate, ranges,
                       directory, dicts>>
        /\ wpc = "records" /\ pos' = Padded(pos) /\ wpc' \in {"directory", "out_of_step"}
    BY <1>10 DEF EndRecords, builder_vars, world
  <2>2. pos' \in Nat
    BY <2>1, PaddedNat DEF TypesInv
  <2> QED
    BY <1>s, <2>1, <2>2 DEF TypesInv, RangesTyped, DirectoryTyped
<1>11. CASE WriteDirectory
  <2>1. /\ UNCHANGED <<blob, wide_width, options, shape, priced, interned, estimate, ranges,
                       directory, dicts>>
        /\ wpc = "directory" /\ wpc' = "written"
    BY <1>11 DEF WriteDirectory, builder_vars, world
  <2>2. pos' \in Nat
    BY <1>11, ImageSizeNat
  <2> QED
    BY <1>s, <2>1, <2>2 DEF TypesInv, RangesTyped, DirectoryTyped
<1>12. CASE SinkFails
  <2>1. /\ UNCHANGED <<blob, wide_width, options, shape, priced, interned, estimate, ranges,
                       directory, dicts, pos>>
        /\ wpc \in {"dictionaries", "records", "directory"} /\ wpc' = "thrown"
    BY <1>12 DEF SinkFails, builder_vars, world, output_vars
  <2> QED
    BY <1>s, <2>1 DEF TypesInv, RangesTyped, DirectoryTyped
<1>13. CASE UNCHANGED vars
  BY <1>2, <1>13 DEF vars, builder_vars, world
<1> QED
  BY <1>3, <1>4, <1>5, <1>6, <1>7, <1>8, <1>9, <1>10, <1>11, <1>12, <1>13
     DEF Next, Writing

----------------------------------------------------------------------------
(* The directory.                                                          *)

(* The footer says what use_dense decided, and a dense directory ends with *)
(* the last partition written.                                             *)
DenseInv ==
    file # None =>
        /\ wpc = "written"
        /\ file[1].foot.dense =>
              /\ directory # <<>>
              /\ WrittenPartitions[Len(directory)] \in Word
              /\ use_dense(options.max_dense_slots, WrittenPartitions)
              /\ file[1].foot.dir_count = WrittenPartitions[Len(directory)] + 1

(* WriteDirectory makes the footer so, and nothing follows it.             *)
LEMMA NextDense == TypeOK /\ WalkInv /\ TypesInv /\ DenseInv /\ [Next]_vars => DenseInv'
<1> SUFFICES ASSUME TypeOK, WalkInv, TypesInv, DenseInv, [Next]_vars PROVE DenseInv'
  OBVIOUS
<1>1. CASE UNCHANGED <<file, wpc, directory, options>>
  <2>1. WrittenPartitions' = WrittenPartitions
    BY <1>1 DEF WrittenPartitions, Entries
  <2> QED
    BY <1>1, <2>1 DEF DenseInv
<1>2. CASE Consume
  BY <1>1, <1>2 DEF Consume, writer_vars
<1>3. CASE wpc # "written" /\ file' = file
  BY <1>3 DEF DenseInv
<1>4. CASE StartLayout \/ MeasureRun \/ Price \/ WriteTextDict \/ EndDictionaries
  <2>1. file' = file /\ wpc \in {"off", "measure", "dictionaries"}
    BY <1>4 DEF StartLayout, MeasureRun, Price, WriteTextDict, EndDictionaries, output_vars
  <2> QED
    BY <1>3, <2>1
<1>5. CASE WriteRun \/ EndRecords \/ SinkFails
  <2>1. file' = file /\ wpc \in {"dictionaries", "records", "directory"}
    BY <1>5 DEF WriteRun, EndRecords, SinkFails, output_vars
  <2> QED
    BY <1>3, <2>1
<1>6. CASE WriteDirectory
  <2> DEFINE dense == use_dense(options.max_dense_slots, WrittenPartitions)
  <2>1. /\ wpc' = "written" /\ UNCHANGED <<directory, options>>
        /\ file'[1].foot.dense = dense
        /\ file'[1].foot.dir_count = Cardinality(DOMAIN SlotsOut(dense))
    BY <1>6 DEF WriteDirectory, SlotsOut, Some
  <2>2. WrittenPartitions' = WrittenPartitions
    BY <2>1 DEF WrittenPartitions, Entries
  <2>3. dense => /\ directory # <<>> /\ WrittenPartitions[Len(directory)] \in Word
                 /\ Cardinality(DOMAIN SlotsOut(dense)) = WrittenPartitions[Len(directory)] + 1
    BY SlotsCounted DEF TypesInv
  <2> QED
    BY <2>1, <2>2, <2>3 DEF DenseInv
<1>7. CASE UNCHANGED vars
  BY <1>1, <1>7 DEF vars, writer_vars
<1> QED
  BY <1>2, <1>4, <1>5, <1>6, <1>7 DEF Next, Writing

----------------------------------------------------------------------------
(* The cost model.                                                         *)

(* count_ is the number of staged records.                                 *)
CountInv == count = Len(Rows)

(* Every call of the client keeps it so.                                   *)
LEMMA NextCount ==
    TypeOK /\ Shape /\ TypeOK' /\ CountInv /\ [BuilderNext]_builder_vars => CountInv'
<1> SUFFICES ASSUME TypeOK, Shape, TypeOK', CountInv, [BuilderNext]_builder_vars PROVE CountInv'
  OBVIOUS
<1> USE DEF Rows
<1>1. CASE UNCHANGED <<count, staging>>
  BY <1>1 DEF CountInv
<1>2. CASE UNCHANGED builder_vars \/ Throws
  BY <1>1, <1>2 DEF builder_vars, Throws, store
<1>3. ASSUME staging.rows = <<>>, staging'.rows = <<>>, count' = count PROVE CountInv'
  BY <1>3 DEF CountInv
<1>4. staging.kind = "none" => staging.rows = <<>>
  BY DEF Shape, NoStaging
<1>5. ASSUME NEW h \in Handles, NEW wanted \in {"keyed", "explicit"},
             NEW partition, NEW value, BeginNarrow(h, wanted, partition, value)
      PROVE  CountInv'
  BY <1>1, <1>3, <1>4, <1>5 DEF BeginNarrow, EnterMode, EmptyStaging, NoStaging
<1>6. ASSUME NEW h \in Handles, NEW k \in WideKeys, begin_record_at_wide(h, k)
      PROVE  CountInv'
  BY <1>1, <1>3, <1>4, <1>6 DEF begin_record_at_wide, EnterWideMode, EmptyStaging, NoStaging
<1>7. ASSUME NEW h \in Handles, NEW f \in Fields, NEW v \in FieldValues[f], SetField(h, f, v)
      PROVE  CountInv'
  BY <1>1, <1>7 DEF SetField, store
<1>8. ASSUME NEW h \in Handles, commit(h) PROVE CountInv'
  <2>1. staging' = push(staging, CommitKey(handles[h]), intern_tuple.id) /\ count' = count + 1
    BY <1>8 DEF commit
  <2>2. PICK r : staging'.rows = Append(staging.rows, r)
    BY <2>1 DEF push, TypeOK
  <2>3. staging.rows \in Seq(RowType(staging.kind, Len(tuples)))
    BY DEF TypeOK
  <2>4. IsSequence(staging.rows)
    BY <2>3 DEF IsSequence
  <2>5. Len(staging'.rows) = Len(staging.rows) + 1
    BY <2>2, <2>4, AppendAny
  <2> QED
    BY <2>1, <2>5 DEF CountInv
<1>9. ASSUME NEW h \in Handles, CommitRefused(h) PROVE CountInv'
  BY <1>1, <1>9 DEF CommitRefused
<1>10. ASSUME NEW kind \in ClientStagings, set_staging(kind) PROVE CountInv'
  BY <1>3, <1>10 DEF set_staging, EmptyStaging, NoStaging
<1>11. CASE finish
  <2>1. Len(Entering.rows) = Len(staging.rows)
    BY <1>4, EnteringType
  <2>2. count' = count /\ Len(staging'.rows) = Len(Entering.rows)
    <3>1. CASE staging' = Entering
      BY <1>11, <3>1, FinishCases
    <3>2. ASSUME NEW q \in SortingPermutations(Entering),
                 staging' = [Entering EXCEPT !.rows = Permuted(@, q), !.sorted = TRUE]
          PROVE  Len(staging'.rows) = Len(Entering.rows)
      <4>1. Entering.rows \in Seq(RowType(Entering.kind, Len(tuples)))
        BY EnteringType
      <4>2. staging'.rows = Permuted(Entering.rows, q)
        BY <3>2, EnteringType
      <4>3. staging'.rows = [i \in DOMAIN Entering.rows |-> staging'.rows[i]]
        BY <4>2 DEF Permuted
      <4>4. IsSequence(Entering.rows)
        BY <4>1 DEF IsSequence
      <4> HIDE DEF Rows
      <4> QED
        BY <4>3, <4>4, SequenceOf
    <3> QED
      BY <1>11, <3>1, <3>2, FinishCases
  <2> QED
    BY <2>1, <2>2 DEF CountInv
<1> QED
  BY <1>2, <1>5, <1>6, <1>7, <1>8, <1>9, <1>10, <1>11
     DEF BuilderNext, SetRejected, CommitRejected, SetStagingRejected, BeginRejected,
         FinishRejected, begin_record, begin_record_at

(* The bytes of the trimmed addresses of the run that record k starts, and *)
(* the bytes that its remap table saves.                                   *)
TrimmedAt == [k \in 1..Len(Rows) |-> (RunEnd(k - 1) - (k - 1)) * RangeOf(Run(k - 1)).width]
SavingsAt == [k \in 1..Len(Rows) |-> MeasuredPlan(Run(k - 1)).savings]

(* What the runs up to record i come to.                                   *)
UpTo(h, i) == Total(h, Starts(i))

(* What the records up to i need for their addresses in the layout chosen, *)
(* and what remap tables save.                                             *)
Addresses(i) == IF options.trim THEN UpTo(TrimmedAt, i) ELSE i * address_width
Savings(i) == IF interned THEN UpTo(SavingsAt, i) ELSE 0
DictBytes == IF interned THEN FixedSize ELSE 0

(* The bytes of the runs written.                                          *)
BlockBytes == [i \in DOMAIN directory |-> SlotBytes(directory[i])]
Written == Total(BlockBytes, DOMAIN directory)

(* A byte address is short enough for the 8 bits of a width.               *)
AddressFits == wide => wide_width < Sizes.uint8

(* The range of a run has the width that was measured.                     *)
RangesMatch(i) ==
    \A k \in Starts(i) :
        ranges[RunsTo(k)].width =
            IF wpc = "measure" \/ options.trim THEN RangeOf(Run(k - 1)).width
                                               ELSE address_width

(* The price so far, the price, and what is written of what was priced.    *)
PriceInv ==
    /\ wpc = "off" => priced.address_bytes = 0 /\ priced.remap_savings = 0
    /\ wpc = "measure" =>
          /\ priced.address_bytes = UpTo(TrimmedAt, row)
          /\ priced.remap_savings = UpTo(SavingsAt, row)
          /\ priced.remap_savings <= row * ref_width
          /\ AddressFits => RangesMatch(row)
    /\ wpc \in {"dictionaries", "records", "directory", "written"} =>
          /\ estimate + Savings(Len(Rows))
                = Addresses(Len(Rows)) + Len(Rows) * Payload + DictBytes
          /\ AddressFits => /\ RangesMatch(Len(Rows))
                            /\ Written + Savings(row) = Addresses(row) + row * Payload
                            /\ Written \in Nat
    /\ wpc \in {"records", "directory", "written"} /\ interned =>
          dicts[Len(dicts)].entry.size = FixedSize

(* What is measured of a run is a number.                                  *)
LEMMA MeasuresNat ==
    ASSUME TypeOK, ShapeTyped, NEW k \in 1..Len(Rows)
    PROVE  TrimmedAt[k] \in Nat /\ SavingsAt[k] \in Nat
<1> DEFINE i == k - 1  n == RunEnd(i) - i  w == RangeOf(Run(i)).width
<1>1. RowsCounted
  BY RowsAreCounted
<1>2. i \in Nat /\ i < Len(Rows)
  BY <1>1 DEF RowsCounted
<1> HIDE DEF i
<1>3. /\ n \in Nat /\ Cardinality(Run(i)) = n /\ Cardinality(TuplesIn(Run(i))) \in Nat
  BY <1>1, <1>2, RunIs
<1>4. w \in Nat
  BY RangeIs
<1>5. MeasuredPlan(Run(i)).savings \in Nat
  <2>1. ref_width \in Nat
    BY WordAssumption DEF ShapeTyped
  <2> QED
    BY <1>3, <2>1, PlanPays DEF MeasuredPlan
<1>6. TrimmedAt[k] = n * w /\ SavingsAt[k] = MeasuredPlan(Run(i)).savings
  BY DEF TrimmedAt, SavingsAt, i
<1> HIDE DEF n, w
<1> QED
  BY <1>3, <1>4, <1>5, <1>6

(* A run further, its measure is added.                                    *)
LEMMA OneRunMore ==
    ASSUME RowsCounted, NEW i \in Nat, i < Len(Rows), AtBoundary(i),
           NEW h, \A k \in 1..Len(Rows) : h[k] \in Nat
    PROVE  /\ UpTo(h, i) \in Nat
           /\ UpTo(h, RunEnd(i)) = UpTo(h, i) + h[i + 1] /\ h[i + 1] \in Nat
<1> DEFINE S == Starts(i)  T == Starts(RunEnd(i))
<1>1. /\ T = S \cup {i + 1} /\ i + 1 \notin S
      /\ RunEnd(i) \in Nat /\ RunEnd(i) <= Len(Rows) /\ Len(Rows) \in Nat
  BY OneRunFurther, RunEndIs DEF RowsCounted
<1>2. T \subseteq 1..Len(Rows)
  BY <1>1 DEF Starts
<1>3. IsFiniteSet(S) /\ IsFiniteSet(T)
  BY <1>1, StartsFinite
<1> HIDE DEF S, T
<1>4. \A k \in T : h[k] \in Nat
  BY <1>2
<1>5. i + 1 \in T /\ T \ {i + 1} = S /\ \A k \in S : h[k] \in Nat
  BY <1>1, <1>4
<1>6. Total(h, S) \in Nat
  BY <1>3, <1>5, TotalNat
<1>7. Total(h, T) = h[i + 1] + Total(h, T \ {i + 1})
  BY <1>3, <1>4, <1>5, TotalRemove
<1>8. h[i + 1] \in Nat
  BY <1>4, <1>5
<1>9. UpTo(h, i) = Total(h, S) /\ UpTo(h, RunEnd(i)) = Total(h, T)
  BY DEF UpTo, S, T
<1>10. Total(h, T) = Total(h, S) + h[i + 1]
  <2> DEFINE x == h[i + 1]  before == Total(h, S)  after == Total(h, T)
  <2>1. T \ {i + 1} = S
    BY <1>5
  <2>2. after = x + before
    BY <1>7, <2>1
  <2>3. x \in Nat /\ before \in Nat
    BY <1>6, <1>8
  <2> HIDE DEF x, before, after
  <2>4. after = before + x
    BY <2>2, <2>3
  <2> QED
    BY <2>4 DEF x, before, after
<1> QED
  BY <1>6, <1>8, <1>9, <1>10

(* The runs come in the order of their ranges.                             *)
LEMMA RunNumbers ==
    ASSUME RowsCounted, NEW i \in Nat, AtBoundary(i), i <= Len(Rows)
    PROVE  /\ i < Len(Rows) => RunsTo(i + 1) = RunsTo(i) + 1
           /\ \A k \in Starts(i) : RunsTo(k) \in 1..RunsTo(i)
<1>1. Len(Rows) \in Nat /\ RunsTo(i) \in Nat /\ IsFiniteSet(Starts(i))
  BY StartsFinite DEF RowsCounted
<1>2. ASSUME i < Len(Rows) PROVE RunsTo(i + 1) = RunsTo(i) + 1
  <2>1. i + 1 \in Starts(i + 1) /\ i + 1 \notin Starts(i)
    BY <1>1, <1>2 DEF AtBoundary, Starts
  <2>2. Starts(i + 1) = Starts(i) \cup {i + 1}
    <3>1. \A k \in 1..(i + 1) : k \in Starts(i + 1) <=> k \in Starts(i) \/ k = i + 1
      BY <2>1 DEF Starts
    <3>2. Starts(i + 1) \subseteq 1..(i + 1) /\ Starts(i) \subseteq 1..(i + 1)
      BY DEF Starts
    <3> QED
      BY <3>1, <3>2
  <2> QED
    BY <1>1, <2>1, <2>2, FS_AddElement DEF RunsTo
<1>3. ASSUME NEW k \in Starts(i) PROVE RunsTo(k) \in 1..RunsTo(i)
  <2>1. k \in 1..i /\ k \in Nat
    BY DEF Starts
  <2>2. k \in Starts(k) /\ Starts(k) \subseteq Starts(i)
    BY <2>1 DEF Starts
  <2>3. RunsTo(k) \in Nat /\ IsFiniteSet(Starts(k))
    BY <2>1, StartsFinite
  <2>4. RunsTo(k) <= RunsTo(i)
    BY <1>1, <2>2, FS_Subset DEF RunsTo
  <2>5. RunsTo(k) # 0
    BY <2>2, <2>3, FS_EmptySet DEF RunsTo
  <2> QED
    BY <1>1, <2>3, <2>4, <2>5
<1> QED
  BY <1>2, <1>3

(* Nothing comes to nothing.                                               *)
LEMMA NothingSpent ==
    /\ \A h : UpTo(h, 0) = 0
    /\ directory = <<>> => Written = 0
<1>1. Starts(0) = {}
  BY DEF Starts
<1>2. \A h : Total(h, {}) = 0
  BY TotalEmpty
<1>3. directory = <<>> => DOMAIN directory = {}
  OBVIOUS
<1> QED
  BY <1>1, <1>2, <1>3 DEF UpTo, Written

(* The measures depend on the records and the layout alone.                *)
LEMMA SameMeasures ==
    ASSUME UNCHANGED <<staging, blob, wide_width, options, shape>>
    PROVE  /\ TrimmedAt' = TrimmedAt /\ SavingsAt' = SavingsAt
           /\ \A h, i : UpTo(h, i)' = UpTo(h, i)
           /\ \A run : RangeOf(run)' = RangeOf(run)
           /\ \A i : /\ RunsTo(i)' = RunsTo(i) /\ Run(i)' = Run(i) /\ Starts(i)' = Starts(i)
                     /\ RunEnd(i)' = RunEnd(i)
           /\ address_width' = address_width /\ ref_width' = ref_width
           /\ value_stride' = value_stride /\ wide' = wide /\ (AddressFits' <=> AddressFits)
           /\ Len(Rows)' = Len(Rows)
<1>1. Rows' = Rows /\ Len(Rows)' = Len(Rows) /\ wide' = wide /\ address_width' = address_width
      /\ ref_width' = ref_width /\ value_stride' = value_stride
  BY DEF Rows, wide, address_width, ref_width, value_stride
<1>2. \A i : KeyOfRow(i)' = KeyOfRow(i) /\ PartitionOfRow(i)' = PartitionOfRow(i)
  BY DEF Rows, KeyOfRow, PartitionOfRow
<1>3. \A i : RunEnd(i)' = RunEnd(i) /\ Run(i)' = Run(i) /\ Starts(i)' = Starts(i)
             /\ RunsTo(i)' = RunsTo(i)
  BY DEF Rows, KeyOfRow, PartitionOfRow, RunEnd, Run, Starts, RunsTo
<1>4. \A run : RangeOf(run)' = RangeOf(run)
  BY DEF RangeOf, wide, Rows, KeyOfRow
<1>5. TrimmedAt' = TrimmedAt
  BY DEF TrimmedAt, RangeOf, wide, Rows, KeyOfRow, PartitionOfRow, RunEnd, Run
<1>6. SavingsAt' = SavingsAt
  BY DEF SavingsAt, MeasuredPlan, TuplesIn, ref_width, Rows, KeyOfRow, PartitionOfRow, RunEnd, Run
<1>7. AddressFits' <=> AddressFits
  BY DEF AddressFits, wide
<1>8. \A h, i : UpTo(h, i)' = UpTo(h, i)
  BY DEF UpTo, Starts, PartitionOfRow, KeyOfRow, Rows
<1> QED
  BY <1>1, <1>3, <1>4, <1>5, <1>6, <1>7, <1>8

(* A sum of two counts times a width.                                      *)
LEMMA Distributes ==
    ASSUME NEW a \in Nat, NEW b \in Nat, NEW w \in Nat
    PROVE  (a + b) * w = a * w + b * w /\ a * w \in Nat /\ b * w \in Nat
OBVIOUS

(* MeasureRun adds what the run costs and saves, and its range.            *)
LEMMA MeasurePrices ==
    ASSUME TypeOK, WalkInv, TypesInv, PriceInv, MeasureRun
    PROVE  PriceInv'
<1> DEFINE e == RunEnd(row)  run == Run(row)  range == RangeOf(run)  n == e - row
           plan == MeasuredPlan(run)  m == Len(ranges)
<1>1. /\ UNCHANGED <<staging, blob, wide_width, options, shape>>
      /\ wpc = "measure" /\ wpc' = "measure" /\ row < Len(Rows) /\ row' = e
      /\ ranges' = Append(ranges, [skip |-> uint8(range.skip), width |-> uint8(range.width)])
      /\ priced' = [address_bytes |-> priced.address_bytes + n * range.width,
                    remap_savings |-> priced.remap_savings + plan.savings]
  BY DEF MeasureRun, builder_vars, store, world, RangeOf
<1>2. /\ RowsCounted /\ row \in Nat /\ AtBoundary(row) /\ ShapeTyped
      /\ m = RunsTo(row) /\ m \in Nat
  BY <1>1, RowsAreCounted DEF WalkInv, TypesInv, IsSequence
<1>3. e \in Nat /\ n \in Nat /\ e = row + n
  <2>1. e \in (row + 1)..Len(Rows) /\ Len(Rows) \in Nat
    BY <1>1, <1>2, RunEndIs DEF RowsCounted
  <2> HIDE DEF e
  <2> QED
    BY <1>2, <2>1
<1>4. row + 1 \in 1..Len(Rows) /\ (row + 1) - 1 = row
  BY <1>1, <1>2 DEF RowsCounted
<1>5. TrimmedAt[row + 1] = n * range.width /\ SavingsAt[row + 1] = plan.savings
  BY <1>4 DEF TrimmedAt, SavingsAt
<1>6. \A k \in 1..Len(Rows) : TrimmedAt[k] \in Nat /\ SavingsAt[k] \in Nat
  BY <1>2, MeasuresNat
<1>7. ref_width \in Nat
  BY <1>2, WordAssumption DEF ShapeTyped
<1>8. plan.savings \in Nat /\ plan.savings <= n * ref_width
  <2>1. Cardinality(run) = n /\ Cardinality(TuplesIn(run)) \in Nat
    BY <1>1, <1>2, RunIs
  <2> QED
    BY <1>3, <1>7, <2>1, PlanPays DEF MeasuredPlan
<1>9. /\ UpTo(TrimmedAt, row) \in Nat /\ UpTo(SavingsAt, row) \in Nat
      /\ UpTo(TrimmedAt, e) = UpTo(TrimmedAt, row) + TrimmedAt[row + 1]
      /\ UpTo(SavingsAt, e) = UpTo(SavingsAt, row) + SavingsAt[row + 1]
  BY <1>1, <1>2, <1>6, OneRunMore
<1>10. /\ priced'.address_bytes = UpTo(TrimmedAt, e)
       /\ priced'.remap_savings = UpTo(SavingsAt, e)
  <2>1. /\ priced.address_bytes = UpTo(TrimmedAt, row)
        /\ priced.remap_savings = UpTo(SavingsAt, row)
    BY <1>1 DEF PriceInv
  <2>2. /\ priced'.address_bytes = priced.address_bytes + n * range.width
        /\ priced'.remap_savings = priced.remap_savings + plan.savings
    BY <1>1
  <2> HIDE DEF plan, range, n, e
  <2> QED
    BY <1>5, <1>9, <2>1, <2>2
<1>11. priced'.remap_savings <= e * ref_width
  <2> DEFINE saved == plan.savings  before == priced.remap_savings
  <2>1. before \in Nat /\ before <= row * ref_width
    BY <1>1 DEF PriceInv, TypesInv
  <2>2. priced'.remap_savings = before + saved
    BY <1>1
  <2>3. saved \in Nat /\ saved <= n * ref_width
    BY <1>8
  <2> HIDE DEF saved, before, n, e
  <2>4. e * ref_width = row * ref_width + n * ref_width
        /\ row * ref_width \in Nat /\ n * ref_width \in Nat
    BY <1>2, <1>3, <1>7, Distributes
  <2> QED
    BY <2>1, <2>2, <2>3, <2>4
<1>12. ASSUME AddressFits, NEW k \in Starts(e)
       PROVE  ranges'[RunsTo(k)].width = RangeOf(Run(k - 1)).width
  <2>1. k \in Starts(row) \/ k = row + 1
    BY <1>1, <1>2, OneRunFurther
  <2> DEFINE r == [skip |-> uint8(range.skip), width |-> uint8(range.width)]
  <2>2. ranges' = Append(ranges, r) /\ IsSequence(ranges)
    BY <1>1 DEF WalkInv
  <2> HIDE DEF r
  <2>3. ranges'[m + 1] = r /\ \A j \in 1..m : ranges'[j] = ranges[j]
    BY <2>2, AppendAny
  <2>4. CASE k \in Starts(row)
    <3>1. RunsTo(k) \in 1..m
      BY <1>1, <1>2, <2>4, RunNumbers DEF RowsCounted
    <3>2. ranges[RunsTo(k)].width = RangeOf(Run(k - 1)).width
      BY <1>1, <1>12, <2>4 DEF PriceInv, RangesMatch
    <3> QED
      BY <2>3, <3>1, <3>2
  <2>5. CASE k = row + 1
    <3>1. RunsTo(k) = m + 1
      BY <1>1, <1>2, <2>5, RunNumbers DEF RowsCounted
    <3>2. range.width \in Nat /\ range.width < Sizes.uint8
      <4>1. /\ range.width \in Nat
            /\ range.width <= IF wide THEN wide_width ELSE WordBytes
        BY RangeIs
      <4>2. WordBytes < Sizes.uint8 /\ WordBytes \in Nat /\ Sizes.uint8 \in Nat /\ wide_width \in Nat
        BY FormatAssumption, WordAssumption DEF TypeOK
      <4> QED
        BY <1>12, <4>1, <4>2 DEF AddressFits
    <3>3. r.width = uint8(range.width)
      BY DEF r
    <3> DEFINE w == range.width  u == Sizes.uint8
    <3>4. u \in Nat /\ w \in Nat /\ w < u
      BY <3>2, FormatAssumption
    <3> HIDE DEF w, u
    <3>5. w % u = w
      BY <3>4
    <3>6. r.width = w
      BY <3>3, <3>5 DEF uint8, w, u
    <3> QED
      BY <1>4, <2>3, <2>5, <3>1, <3>6 DEF w
  <2> QED
    BY <2>1, <2>4, <2>5
<1> HIDE DEF e
<1>13. RangesMatch(row)' <=> \A k \in Starts(e) :
           ranges'[RunsTo(k)].width = RangeOf(Run(k - 1)).width
  BY <1>1, SameMeasures, ZenonT(30) DEF RangesMatch
<1>14. UpTo(TrimmedAt, row)' = UpTo(TrimmedAt, e) /\ UpTo(SavingsAt, row)' = UpTo(SavingsAt, e)
  BY <1>1, SameMeasures
<1> QED
  BY <1>1, <1>10, <1>11, <1>12, <1>13, <1>14, SameMeasures DEF PriceInv

(* choose_layout's walk starts with nothing measured.                      *)
LEMMA StartPrices ==
    ASSUME TypeOK', WalkInv, PriceInv, StartLayout, ShapeTyped'
    PROVE  PriceInv'
<1>1. /\ wpc = "off" /\ wpc' = "measure" /\ row = 0 /\ row' = 0 /\ priced' = priced
  BY DEF StartLayout, WalkInv
<1>2. priced'.address_bytes = 0 /\ priced'.remap_savings = 0
  BY <1>1 DEF PriceInv
<1>3. Starts(0)' = {}
  BY DEF Starts
<1>4. UpTo(TrimmedAt, row)' = 0 /\ UpTo(SavingsAt, row)' = 0
  <2>1. \A h : Total(h, {}) = 0
    BY TotalEmpty
  <2> QED
    BY <1>1, <1>3, <2>1 DEF UpTo
<1>5. RangesMatch(row)'
  BY <1>1, <1>3 DEF RangesMatch
<1>6. row' * ref_width' = 0
  <2> DEFINE a == ref_width'
  <2>1. a \in Nat
    BY WordAssumption DEF ShapeTyped
  <2> HIDE DEF a
  <2>2. 0 * a = 0
    BY <2>1
  <2> QED
    BY <1>1, <2>2 DEF a
<1> QED
  BY <1>1, <1>2, <1>4, <1>5, <1>6 DEF PriceInv

(* Price sets the estimate and the ranges of the layout chosen.            *)
LEMMA PriceSets ==
    ASSUME TypeOK, WalkInv, TypesInv, TypesInv', CountInv, PriceInv, Price
    PROVE  PriceInv'
<1> DEFINE n == Len(Rows)
           full == [skip |-> 0, width |-> uint8(address_width)]
           inline_bytes == AddressBytes + count * value_stride
           gross == AddressBytes + count * ref_width + FixedSize
           saved == priced.remap_savings
           refs == n * ref_width  values == n * value_stride
<1>1. /\ UNCHANGED <<staging, tuples, blob, wide_width, options, shape, dicts, directory>>
      /\ wpc = "measure" /\ wpc' = "dictionaries" /\ row = n /\ row' = 0
      /\ ranges' = IF options.trim THEN ranges ELSE FullRanges(full)
      /\ estimate' = IF interned' THEN gross - Min({gross, saved}) ELSE inline_bytes
  BY DEF Price, builder_vars, store, world, FixedSize
<1>2. ShapeTyped /\ n \in Nat /\ RowsCounted /\ directory = <<>>
      /\ interned' \in BOOLEAN
  <2>1. interned' \in BOOLEAN
    BY DEF TypesInv
  <2> QED
    BY <1>1, <2>1, RowsAreCounted DEF TypesInv, WalkInv, RowsCounted
<1>3. /\ count = n /\ refs \in Nat /\ values \in Nat /\ FixedSize \in Nat /\ AddressBytes \in Nat
      /\ value_stride \in Nat /\ ref_width \in Nat /\ address_width \in Nat
  <2>1. count = n
    BY DEF CountInv
  <2>2. /\ count * value_stride \in Nat /\ count * ref_width \in Nat /\ FixedSize \in Nat
        /\ AddressBytes \in Nat /\ value_stride \in Nat /\ ref_width \in Nat
    BY <1>2, PricesNat DEF TypesInv
  <2>3. address_width \in Nat
    BY <1>2 DEF ShapeTyped
  <2> QED
    BY <2>1, <2>2, <2>3
<1>4. saved \in Nat /\ saved <= refs /\ saved = UpTo(SavingsAt, n)
  BY <1>1 DEF PriceInv, TypesInv
<1>5. AddressBytes = Addresses(n)
  BY <1>1, <1>3 DEF PriceInv, AddressBytes, Addresses
<1>6. gross = AddressBytes + refs + FixedSize /\ inline_bytes = AddressBytes + values
  BY <1>3
<1> HIDE DEF gross, inline_bytes, saved, refs, values
<1>7. gross \in Nat /\ saved <= gross
  BY <1>3, <1>4, <1>6
<1>8. Min({gross, saved}) = saved
  <2>1. {gross, saved} \in SUBSET Nat /\ {gross, saved} # {}
    BY <1>4, <1>7
  <2>2. Min({gross, saved}) \in {gross, saved} /\ Min({gross, saved}) <= saved
    BY <2>1, MinOfNats
  <2> QED
    BY <1>4, <1>7, <2>2
<1>9. /\ Savings(n)' = (IF interned' THEN saved ELSE 0)
      /\ Addresses(n)' = AddressBytes
      /\ DictBytes' = (IF interned' THEN FixedSize ELSE 0)
      /\ Payload' = (IF interned' THEN ref_width ELSE value_stride)
      /\ n' = n
  <2>1. Savings(n)' = IF interned' THEN saved ELSE 0
    BY <1>1, <1>4, SameMeasures DEF Savings
  <2>2. Addresses(n)' = AddressBytes
    BY <1>1, <1>5, SameMeasures DEF Addresses
  <2>3. FixedSize' = FixedSize
    BY <1>1 DEF FixedSize, tuple_count, value_stride
  <2>4. DictBytes' = (IF interned' THEN FixedSize ELSE 0)
    BY <2>3 DEF DictBytes
  <2>5. Payload' = (IF interned' THEN ref_width ELSE value_stride)
    BY <1>1, SameMeasures DEF Payload
  <2> QED
    BY <1>1, <2>1, <2>2, <2>4, <2>5, SameMeasures
<1> HIDE DEF n
<1>10. estimate' + Savings(n)' = Addresses(n)' + n' * Payload' + DictBytes'
  <2>1. CASE interned'
    <3>1. n' * Payload' = refs
      BY <1>9, <2>1 DEF refs
    <3>2. estimate' = gross - saved
      BY <1>1, <1>8, <2>1
    <3>3. Savings(n)' = saved /\ DictBytes' = FixedSize
      BY <1>9, <2>1
    <3> QED
      BY <1>3, <1>4, <1>6, <1>7, <1>9, <3>1, <3>2, <3>3
  <2>2. CASE ~interned'
    <3>1. n' * Payload' = values
      BY <1>9, <2>2 DEF values
    <3>2. estimate' = inline_bytes
      BY <1>1, <2>2
    <3>3. Savings(n)' = 0 /\ DictBytes' = 0
      BY <1>9, <2>2
    <3> QED
      BY <1>3, <1>6, <1>9, <3>1, <3>2, <3>3
  <2> QED
    BY <2>1, <2>2
<1>11. /\ Written' = 0 /\ Savings(0)' = 0 /\ Addresses(0)' = 0 /\ 0 * Payload' = 0
  <2>1. Written' = 0
    <3>1. Written' = Written
      BY <1>1 DEF Written, BlockBytes, SlotBytes
    <3> QED
      BY <1>2, <3>1, NothingSpent
  <2>2. UpTo(SavingsAt, 0)' = 0 /\ UpTo(TrimmedAt, 0)' = 0
    BY <1>1, SameMeasures, NothingSpent
  <2>3. Savings(0)' = 0
    BY <2>2 DEF Savings
  <2>4. 0 * address_width' = 0
    <3> DEFINE a == address_width'
    <3>1. a \in Nat
      BY <1>1, <1>3, SameMeasures
    <3> HIDE DEF a
    <3>2. 0 * a = 0
      BY <3>1
    <3> QED
      BY <3>2 DEF a
  <2>5. Addresses(0)' = 0
    BY <2>2, <2>4 DEF Addresses
  <2>6. 0 * Payload' = 0
    <3> DEFINE a == Payload'
    <3>1. a \in Nat
      BY <1>2, <1>3, <1>9
    <3> HIDE DEF a
    <3>2. 0 * a = 0
      BY <3>1
    <3> QED
      BY <3>2 DEF a
  <2> QED
    BY <2>1, <2>3, <2>5, <2>6
<1>12. ASSUME AddressFits, NEW k \in Starts(n)
       PROVE  ranges'[RunsTo(k)].width =
                  IF options.trim THEN RangeOf(Run(k - 1)).width ELSE address_width
  <2>1. CASE options.trim
    <3>1. ranges' = ranges
      BY <1>1, <2>1
    <3>2. ranges[RunsTo(k)].width = RangeOf(Run(k - 1)).width
      BY <1>1, <1>12 DEF PriceInv, RangesMatch, n
    <3> QED
      BY <2>1, <3>1, <3>2
  <2>2. CASE ~options.trim
    <3>1. ranges' = [j \in DOMAIN ranges |-> full]
      BY <1>1, <2>2 DEF FullRanges
    <3>2. Len(ranges) = RunsTo(n) /\ DOMAIN ranges = 1..Len(ranges)
      BY <1>1 DEF WalkInv, IsSequence, n
    <3>3. RunsTo(k) \in DOMAIN ranges
      BY <1>1, <1>2, <1>12, <3>2, RunNumbers DEF WalkInv, n, RowsCounted
    <3> DEFINE u == Sizes.uint8  w == address_width
    <3>4. w \in Nat /\ u \in Nat /\ w < u
      <4>1. WordBytes < u /\ WordBytes \in Nat /\ u \in Nat
        BY FormatAssumption, WordAssumption
      <4>2. IF wide THEN w = wide_width ELSE w <= WordBytes
        BY <1>2 DEF ShapeTyped
      <4>3. wide => wide_width < u
        BY <1>12 DEF AddressFits
      <4> HIDE DEF u, w
      <4> QED
        BY <1>3, <4>1, <4>2, <4>3 DEF w
    <3> HIDE DEF u, w
    <3>5. w % u = w
      BY <3>4
    <3>6. full.width = address_width
      BY <3>5 DEF uint8, u, w
    <3> HIDE DEF full
    <3> QED
      BY <2>2, <3>1, <3>3, <3>6
  <2> QED
    BY <2>1, <2>2
<1>13. AddressFits' => RangesMatch(n)'
  <2>1. wpc' # "measure" /\ options' = options /\ (AddressFits' <=> AddressFits)
    BY <1>1, SameMeasures
  <2>2. RangesMatch(Len(Rows))' <=> \A k \in Starts(Len(Rows)) :
            ranges'[RunsTo(k)].width =
                IF options.trim THEN RangeOf(Run(k - 1)).width ELSE address_width
    BY <1>1, <2>1, SameMeasures DEF RangesMatch
  <2> QED
    BY <1>12, <2>1, <2>2 DEF n
<1> QED
  <2>1. row' = 0 /\ wpc' = "dictionaries"
    BY <1>1
  <2>2. Written' + Savings(row)' = Addresses(row)' + row' * Payload' /\ Written' \in Nat
    <3>1. Savings(row)' = 0 /\ Addresses(row)' = 0
      BY <1>11, <2>1 DEF Savings, Addresses
    <3>2. row' * Payload' = 0
      BY <1>11, <2>1
    <3> QED
      BY <1>11, <3>1, <3>2
  <2> QED
    BY <1>10, <1>13, <2>1, <2>2 DEF PriceInv, n

(* What is written after the pricing costs what was priced.                *)
LEMMA WriteCosts ==
    ASSUME TypeOK, WalkInv, TypesInv, PriceInv, WriteRun
    PROVE  PriceInv'
<1> DEFINE e == RunEnd(row)  run == Run(row)  n == e - row  m == Len(directory)
           s == Slot(run, ranges[m + 1])  bytes == SlotBytes(s)
           saved == IF interned THEN MeasuredPlan(run).savings ELSE 0
           w == ranges[m + 1].width
<1>1. /\ UNCHANGED <<staging, tuples, blob, wide_width, options, shape, priced, interned,
                     estimate, ranges, dicts>>
      /\ wpc = "records" /\ row < Len(Rows)
  BY DEF WriteRun, builder_vars, store, world
<1>2. /\ RowsCounted /\ row \in Nat /\ AtBoundary(row) /\ ShapeTyped
      /\ m = RunsTo(row) /\ m \in Nat /\ Len(ranges) \in Nat /\ IsSequence(directory)
      /\ DOMAIN directory = 1..m /\ Len(Rows) \in Nat
  BY <1>1, RowsAreCounted DEF WalkInv, TypesInv, IsSequence, RowsCounted
<1>3. m < Len(ranges)
  BY <1>1, <1>2, OneRunFurther DEF WalkInv
<1>4. wpc' = wpc /\ directory' = Append(directory, s) /\ row' = e
  BY <1>3 DEF WriteRun
<1>5. w \in Nat
  BY <1>2, <1>3 DEF TypesInv, RangesTyped
<1>6. bytes \in Nat /\ saved \in Nat /\ bytes + saved = n * w + n * Payload
  BY <1>1, <1>2, <1>5, SlotIs
<1>7. e \in Nat /\ n \in Nat /\ e = row + n
  <2>1. e \in (row + 1)..Len(Rows)
    BY <1>1, <1>2, RunEndIs
  <2> HIDE DEF e
  <2> QED
    BY <1>2, <2>1
<1> HIDE DEF s, bytes, saved
<1>8. \A k \in 1..Len(Rows) : TrimmedAt[k] \in Nat /\ SavingsAt[k] \in Nat
  BY <1>2, MeasuresNat
<1>9. row + 1 \in 1..Len(Rows) /\ (row + 1) - 1 = row
  BY <1>1, <1>2
<1>10. TrimmedAt[row + 1] = n * RangeOf(run).width
       /\ SavingsAt[row + 1] = MeasuredPlan(run).savings
  BY <1>9 DEF TrimmedAt, SavingsAt
<1>11. /\ UpTo(TrimmedAt, row) \in Nat /\ UpTo(SavingsAt, row) \in Nat
       /\ UpTo(TrimmedAt, e) = UpTo(TrimmedAt, row) + TrimmedAt[row + 1]
       /\ UpTo(SavingsAt, e) = UpTo(SavingsAt, row) + SavingsAt[row + 1]
  BY <1>1, <1>2, <1>8, OneRunMore
<1>12. Savings(row) \in Nat /\ Savings(e) = Savings(row) + saved
  BY <1>10, <1>11 DEF Savings, saved
<1>13. /\ value_stride \in Nat /\ ref_width \in Nat /\ address_width \in Nat /\ Payload \in Nat
  BY <1>2, WordAssumption DEF ShapeTyped, Payload
<1> HIDE DEF e, n
<1>14. Written \in Nat => Written' = Written + bytes /\ Written' \in Nat
  <2> SUFFICES ASSUME Written \in Nat PROVE Written' = Written + bytes
    BY <1>6
  <2> DEFINE h == BlockBytes  g == BlockBytes'  D == 1..m  E == 1..(m + 1)
  <2>1. /\ IsSequence(directory') /\ Len(directory') = m + 1 /\ directory'[m + 1] = s
        /\ \A i \in 1..m : directory'[i] = directory[i]
    BY <1>2, <1>4, AppendAny
  <2>2. DOMAIN directory' = E
    BY <2>1 DEF IsSequence
  <2>3. h = [i \in DOMAIN directory |-> SlotBytes(directory[i])]
        /\ g = [i \in DOMAIN directory' |-> SlotBytes(directory'[i])]
    BY DEF BlockBytes, SlotBytes
  <2>4. \A i \in D : g[i] = h[i] /\ i \in E
    BY <1>2, <2>1, <2>2, <2>3
  <2>5. g[m + 1] = bytes /\ m + 1 \in E /\ E \ {m + 1} = D
    BY <1>2, <2>1, <2>2, <2>3 DEF bytes
  <2>6. \A i \in D : h[i] \in Nat
    BY <1>2, <2>3 DEF DirectoryTyped, TypesInv
  <2>7. IsFiniteSet(D) /\ IsFiniteSet(E)
    BY <1>2, FS_Interval
  <2>8. Written = Total(h, D) /\ Written' = Total(g, E)
    BY <1>2, <2>2 DEF Written
  <2> HIDE DEF h, g, D, E
  <2>9. \A i \in E : i = m + 1 \/ i \in D
    BY <2>5
  <2>10. \A i \in E : g[i] \in Nat
    BY <1>6, <2>4, <2>5, <2>6, <2>9
  <2>11. Total(g, E) = g[m + 1] + Total(g, E \ {m + 1})
    BY <2>5, <2>7, <2>10, TotalRemove
  <2>12. Total(g, D) = Total(h, D)
    BY <2>4, <2>7, TotalAgree
  <2>13. Written' = bytes + Written
    BY <2>5, <2>8, <2>11, <2>12
  <2> HIDE DEF m
  <2> QED
    BY <1>6, <2>13
<1>15. AddressFits => Addresses(row) \in Nat /\ Addresses(e) = Addresses(row) + n * w
  <2> SUFFICES ASSUME AddressFits
               PROVE  Addresses(row) \in Nat /\ Addresses(e) = Addresses(row) + n * w
    OBVIOUS
  <2>1. row + 1 \in Starts(Len(Rows))
    <3>1. row + 1 \in Starts(row + 1)
      BY <1>1, <1>2 DEF AtBoundary
    <3> QED
      BY <1>2, <1>9, <3>1 DEF Starts
  <2>2. RunsTo(row + 1) = m + 1
    BY <1>1, <1>2, RunNumbers
  <2>3. w = IF options.trim THEN RangeOf(run).width ELSE address_width
    BY <1>1, <1>9, <2>1, <2>2 DEF PriceInv, RangesMatch
  <2>4. CASE options.trim
    BY <1>10, <1>11, <2>3, <2>4 DEF Addresses
  <2>5. CASE ~options.trim
    <3>1. (row + n) * address_width = row * address_width + n * address_width
          /\ row * address_width \in Nat
      BY <1>2, <1>7, <1>13, Distributes
    <3> QED
      BY <1>7, <2>3, <2>5, <3>1 DEF Addresses
  <2> QED
    BY <2>4, <2>5
<1>16. e * Payload = row * Payload + n * Payload /\ row * Payload \in Nat /\ n * Payload \in Nat
  BY <1>2, <1>7, <1>13, Distributes
<1>17. ASSUME AddressFits PROVE Written' + Savings(e) = Addresses(e) + e * Payload /\ Written' \in Nat
  <2>1. Written \in Nat /\ Written + Savings(row) = Addresses(row) + row * Payload
    BY <1>1, <1>17 DEF PriceInv
  <2> DEFINE a == n * w  p == n * Payload  q == row * Payload  z == e * Payload
             S == Savings(row)  A == Addresses(row)  S2 == Savings(e)  A2 == Addresses(e)
  <2>2. /\ bytes + saved = a + p /\ z = q + p /\ S2 = S + saved /\ A2 = A + a
        /\ A \in Nat /\ S \in Nat /\ q \in Nat /\ p \in Nat
    BY <1>6, <1>12, <1>15, <1>16, <1>17
  <2>3. a \in Nat
    BY <1>5, <1>7
  <2>4. Written + S = A + q /\ Written' = Written + bytes /\ Written' \in Nat
    BY <1>14, <2>1
  <2> HIDE DEF a, p, q, z, S, A, S2, A2
  <2>5. Written' + S2 = A2 + z
    BY <1>6, <2>1, <2>2, <2>3, <2>4
  <2> QED
    BY <2>4, <2>5 DEF z, S2, A2
<1>18. /\ Savings(row)' = Savings(e) /\ Addresses(row)' = Addresses(e) /\ Payload' = Payload
       /\ Savings(Len(Rows))' = Savings(Len(Rows)) /\ Addresses(Len(Rows))' = Addresses(Len(Rows))
       /\ DictBytes' = DictBytes /\ FixedSize' = FixedSize
  BY <1>1, <1>4, SameMeasures
     DEF Savings, Addresses, Payload, DictBytes, FixedSize, tuple_count, value_stride
<1>19. RangesMatch(Len(Rows))' <=> RangesMatch(Len(Rows))
  BY <1>1, <1>4, SameMeasures DEF RangesMatch
<1> QED
  BY <1>1, <1>4, <1>17, <1>18, <1>19, SameMeasures DEF PriceInv

(* The other steps change neither the price nor the records written.       *)
LEMMA PricesStay ==
    ASSUME PriceInv,
           UNCHANGED <<staging, tuples, blob, wide_width, options, shape, priced, interned,
                       estimate, ranges, directory, row>>,
           \/ wpc' = wpc
           \/ wpc \in {"dictionaries", "records", "directory"} /\ wpc' \notin {"off", "measure"},
           wpc' \in {"records", "directory", "written"} /\ interned =>
               dicts'[Len(dicts')].entry.size = FixedSize
    PROVE  PriceInv'
<1>1. /\ \A i : Savings(i)' = Savings(i) /\ Addresses(i)' = Addresses(i)
      /\ Payload' = Payload /\ DictBytes' = DictBytes /\ FixedSize' = FixedSize
      /\ Len(Rows)' = Len(Rows)
  BY SameMeasures DEF Savings, Addresses, Payload, DictBytes, FixedSize, tuple_count, value_stride
<1>2. Written' = Written
  BY DEF Written, BlockBytes, SlotBytes
<1>3. \A i : RangesMatch(i)' <=> RangesMatch(i)
  BY SameMeasures DEF RangesMatch
<1>4. /\ \A h, i : UpTo(h, i)' = UpTo(h, i)
      /\ TrimmedAt' = TrimmedAt /\ SavingsAt' = SavingsAt /\ ref_width' = ref_width
      /\ (AddressFits' <=> AddressFits)
  BY SameMeasures
<1> QED
  BY <1>1, <1>2, <1>3, <1>4 DEF PriceInv

(* Every step keeps the price of what is written.                          *)
LEMMA NextPrices ==
    /\ TypeOK /\ TypeOK' /\ CountInv
    /\ WalkInv /\ WalkInv' /\ TypesInv /\ TypesInv'
    /\ PriceInv /\ [Next]_vars
    => PriceInv'
<1> SUFFICES ASSUME TypeOK, TypeOK', CountInv, WalkInv, WalkInv', TypesInv, TypesInv',
                    PriceInv, [Next]_vars
             PROVE  PriceInv'
  OBVIOUS
<1>1. CASE Consume
  <2>1. wpc = "off" /\ wpc' = "off" /\ priced' = priced
    BY <1>1 DEF Consume, WalkInv, writer_vars
  <2> QED
    BY <2>1 DEF PriceInv
<1>2. CASE StartLayout
  <2>1. wpc' # "off"
    BY <1>2 DEF StartLayout
  <2> QED
    BY <1>2, <2>1, StartPrices DEF TypesInv
<1>3. CASE MeasureRun
  BY <1>3, MeasurePrices
<1>4. CASE Price
  BY <1>4, PriceSets
<1>5. CASE WriteRun
  BY <1>5, WriteCosts
<1>6. CASE WriteTextDict
  <2>1. /\ UNCHANGED <<staging, tuples, blob, wide_width, options, shape, priced, interned,
                       estimate, ranges, directory, row>>
        /\ wpc = "dictionaries" /\ wpc' = wpc
    BY <1>6 DEF WriteTextDict, builder_vars, store, world
  <2> QED
    BY <2>1, PricesStay
<1>7. CASE EndDictionaries
  <2>1. /\ UNCHANGED <<staging, tuples, blob, wide_width, options, shape, priced, interned,
                       estimate, ranges, directory, row>>
        /\ wpc = "dictionaries" /\ wpc' \in {"records", "thrown"}
    BY <1>7 DEF EndDictionaries, builder_vars, store, world
  <2>2. ASSUME wpc' = "records", interned PROVE dicts'[Len(dicts')].entry.size = FixedSize
    <3> DEFINE d == [entry |-> [offset |-> Padded(pos), size |-> FixedSize],
                     content |-> FixedDict]
    <3>1. dicts' = Append(dicts, d)
      BY <1>7, <2>2 DEF EndDictionaries, PlaceDict, FixedSize
    <3>2. d.entry.size = FixedSize
      OBVIOUS
    <3> HIDE DEF d
    <3>3. Len(dicts') = Len(dicts) + 1 /\ dicts'[Len(dicts) + 1] = d
      BY <3>1, AppendAny DEF TypesInv
    <3> QED
      BY <3>2, <3>3
  <2> QED
    BY <2>1, <2>2, PricesStay
<1>8. CASE EndRecords \/ WriteDirectory \/ SinkFails
  <2>1. /\ UNCHANGED <<staging, tuples, blob, wide_width, options, shape, priced, interned,
                       estimate, ranges, directory, row, dicts>>
        /\ \/ wpc \in {"records", "directory"} /\ wpc' \in {"directory", "out_of_step", "written"}
           \/ wpc \in {"dictionaries", "records", "directory"} /\ wpc' = "thrown"
    BY <1>8 DEF EndRecords, WriteDirectory, SinkFails, builder_vars, store, world, output_vars
  <2>2. wpc' \in {"records", "directory", "written"} /\ interned =>
            dicts'[Len(dicts')].entry.size = FixedSize
    BY <2>1 DEF PriceInv
  <2> QED
    BY <2>1, <2>2, PricesStay
<1>9. CASE UNCHANGED vars
  <2>1. UNCHANGED <<staging, tuples, blob, wide_width, options, shape, priced, interned,
                    estimate, ranges, directory, row, dicts, wpc>>
    BY <1>9 DEF vars, writer_vars, output_vars, builder_vars, store, world
  <2>2. wpc' \in {"records", "directory", "written"} /\ interned =>
            dicts'[Len(dicts')].entry.size = FixedSize
    BY <2>1 DEF PriceInv
  <2> QED
    BY <2>1, <2>2, PricesStay
<1> QED
  BY <1>1, <1>2, <1>3, <1>4, <1>5, <1>6, <1>7, <1>8, <1>9 DEF Next, Writing

(* What all records come to are numbers.                                   *)
LEMMA SavingsNat ==
    ASSUME TypeOK, ShapeTyped, interned \in BOOLEAN
    PROVE  /\ Savings(Len(Rows)) \in Nat /\ Addresses(Len(Rows)) \in Nat
           /\ Len(Rows) * Payload \in Nat
<1> DEFINE n == Len(Rows)  S == Starts(n)
<1>1. n \in Nat
  BY RowsAreCounted DEF RowsCounted
<1>2. \A k \in 1..n : TrimmedAt[k] \in Nat /\ SavingsAt[k] \in Nat
  BY MeasuresNat
<1>3. IsFiniteSet(S) /\ S \subseteq 1..n
  BY <1>1, StartsFinite DEF Starts
<1>4. Total(TrimmedAt, S) \in Nat /\ Total(SavingsAt, S) \in Nat
  <2> HIDE DEF S, n
  <2>1. \A k \in S : TrimmedAt[k] \in Nat /\ SavingsAt[k] \in Nat
    BY <1>2, <1>3
  <2> QED
    BY <1>3, <2>1, TotalNat
<1>5. Payload \in Nat /\ address_width \in Nat
  BY WordAssumption DEF ShapeTyped, Payload
<1>6. \A x, y \in Nat : x * y \in Nat
  OBVIOUS
<1>7. n * Payload \in Nat /\ n * address_width \in Nat
  BY <1>1, <1>5, <1>6
<1> QED
  BY <1>4, <1>7 DEF Savings, Addresses, UpTo

(* The sum of the blocks that the property takes is this one.              *)
LEMMA WrittenSum ==
    ASSUME WalkInv
    PROVE  MapThenSumSet(LAMBDA i : SlotBytes(directory[i]), DOMAIN directory) = Written
<1> DEFINE D == DOMAIN directory  h == BlockBytes
           Rec(g) == g = [s \in SUBSET D |->
               IF s = {} THEN 0
               ELSE SlotBytes(directory[CHOOSE x \in s : TRUE]) + g[s \ {CHOOSE x \in s : TRUE}]]
           iter == CHOOSE g : Rec(g)
<1>1. IsFiniteSet(D)
  BY FS_Interval DEF WalkInv, IsSequence
<1>2. MapThenSumSet(LAMBDA i : SlotBytes(directory[i]), DOMAIN directory) = iter[D]
  BY DEF MapThenSumSet, MapThenFoldSet
<1>3. h = [i \in D |-> SlotBytes(directory[i])]
  BY DEF BlockBytes
<1>4. iter[D] = Total(h, D)
  <2> HIDE DEF h
  <2>1. PICK g : Solves(g, h, D)
    BY <1>1, PartialExists
  <2>2. Rec(g)
    BY <1>3, <2>1 DEF Solves, Pick
  <2> HIDE DEF D
  <2>3. Rec(iter)
    BY <2>2
  <2>4. Sums(iter, h, D)
    BY <1>3, <2>3 DEF Sums, Pick
  <2>5. D \in SUBSET D /\ \A y \in D : h[y] = h[y]
    OBVIOUS
  <2> HIDE DEF iter
  <2> QED
    BY <1>1, <2>4, <2>5, TotalUnique
<1> QED
  BY <1>2, <1>4 DEF Written

----------------------------------------------------------------------------
(* The types and the shape of the builder hold throughout a build.         *)
LEMMA BuilderHolds == Spec => [](TypeOK /\ Shape)
<1>1. Init => TypeOK /\ Shape
  BY InitType DEF Init
<1>2. TypeOK /\ Shape /\ [Next]_vars => TypeOK' /\ Shape'
  BY NextType, BuilderSteps
<1> QED
  BY <1>1, <1>2, PTL DEF Spec

(* The walks of choose_layout and write_image split the records into the   *)
(* same runs, so neither throw about partition ranges out of step          *)
(* (builder.hpp:928, 990) can happen, whatever partitions the client's     *)
(* records are in.                                                         *)
THEOREM WalksStayInStep == Spec => []WalksInStep
<1>1. WalkInv => WalksInStep
  BY DEF WalkInv, WalksInStep
<1> QED
  BY <1>1, InitWalk, NextWalk, BuilderHolds, PTL DEF Spec

(* Type correctness of the writer, for every schema and every layout: it   *)
(* has no more ranges, dictionaries or slots than the records and the      *)
(* fields account for, and every position and price is a number.           *)
THEOREM WriterTypeCorrect == Spec => []WriterTypeOK
<1>1. TypeOK /\ WalkInv /\ TypesInv => WriterTypeOK
  <2> SUFFICES ASSUME TypeOK, WalkInv, TypesInv PROVE WriterTypeOK
    OBVIOUS
  <2>1. row \in 0..Len(Rows) /\ row \in Nat /\ Len(Rows) \in Nat
    BY RowsAreCounted DEF WalkInv, RowsCounted
  <2>2. Len(directory) <= Len(Rows)
    <3>1. CASE directory = <<>>
      BY <2>1, <3>1, EmptySequence
    <3>2. CASE directory # <<>>
      <4>1. Len(directory) = RunsTo(row)
        BY <3>2 DEF WalkInv
      <4> QED
        BY <2>1, <4>1, StartsFinite
    <3> QED
      BY <3>1, <3>2
  <2> QED
    BY <2>1, <2>2 DEF WriterTypeOK, WalkInv, TypesInv, RangesTyped
<1> QED
  BY <1>1, InitWalk, NextWalk, InitTypes, NextTypes, BuilderHolds, PTL DEF Spec

(* The last partition of the records is not the last one of a word, whose  *)
(* span use_dense computes as 0.                                           *)
LastPartitionFits ==
    directory # <<>> => WrittenPartitions[Len(directory)] # WordSize - 1

(* use_dense keeps a dense directory under the ceiling of the options,     *)
(* whatever partitions are written, unless the span wraps around.          *)
THEOREM DenseIsBounded == Spec => [](LastPartitionFits => DenseBounded)
<1>1. Init => DenseInv
  BY DEF Init, DenseInv
<1>2. WalkInv /\ TypesInv /\ DenseInv => (LastPartitionFits => DenseBounded)
  <2> SUFFICES ASSUME WalkInv, TypesInv, DenseInv, LastPartitionFits, file # None, file[1].foot.dense
               PROVE  file[1].foot.dir_count <= options.max_dense_slots
    BY DEF DenseBounded
  <2> DEFINE p == WrittenPartitions[Len(directory)]
             ceiling == options.max_dense_slots
  <2>1. /\ p \in Word /\ p # WordSize - 1
        /\ use_dense(ceiling, WrittenPartitions) /\ file[1].foot.dir_count = p + 1
    BY DEF DenseInv, LastPartitionFits
  <2>2. Len(WrittenPartitions) = Len(directory)
    BY PartitionsWritten DEF TypesInv
  <2>3. Plus(p, 1) <= ceiling
    BY <2>1, <2>2 DEF use_dense
  <2> HIDE DEF p, ceiling
  <2>4. Plus(p, 1) = p + 1
    <3>1. WordSize \in Nat /\ p \in 0..(WordSize - 1)
      BY <2>1, WeightNat DEF Word
    <3> DEFINE m == WordSize
    <3>2. m \in Nat /\ p + 1 \in 0..(m - 1)
      BY <2>1, <3>1
    <3> HIDE DEF m
    <3>3. (p + 1) % m = p + 1
      BY <3>2
    <3> QED
      BY <3>3 DEF Plus, m
  <2> QED
    BY <2>1, <2>3, <2>4 DEF ceiling
<1> QED
  BY <1>1, <1>2, NextDense, InitWalk, NextWalk, InitTypes, NextTypes, BuilderHolds, PTL DEF Spec

(* The cost model that decides between the two layouts charges exactly     *)
(* what the layout written takes, remap tables and trimmed addresses and   *)
(* the dictionary included, unless a byte address is so long that its      *)
(* width does not fit 8 bits.                                              *)
THEOREM PriceIsPaid == Spec => [](AddressFits => PricedAsWritten)
<1>1. Init => DenseInv /\ CountInv /\ PriceInv
  <2> SUFFICES ASSUME Init PROVE DenseInv /\ CountInv /\ PriceInv
    OBVIOUS
  <2>1. /\ file = None /\ wpc = "off" /\ count = 0 /\ staging = NoStaging
        /\ priced = [address_bytes |-> 0, remap_savings |-> 0]
    BY DEF Init, BuilderInit
  <2>2. Len(Rows) = 0
    BY <2>1 DEF Rows, NoStaging
  <2> QED
    BY <2>1, <2>2 DEF DenseInv, CountInv, PriceInv
<1>2. TypeOK /\ WalkInv /\ TypesInv /\ DenseInv /\ PriceInv => (AddressFits => PricedAsWritten)
  <2> SUFFICES ASSUME TypeOK, WalkInv, TypesInv, DenseInv, PriceInv, AddressFits, file # None
               PROVE  estimate = Written
                                 + (IF interned THEN dicts[Len(dicts)].entry.size ELSE 0)
    BY WrittenSum DEF PricedAsWritten
  <2> DEFINE n == Len(Rows)
             S == Savings(n)  A == Addresses(n)  p == n * Payload  D == DictBytes
  <2>1. wpc = "written" /\ row = n
    BY DEF DenseInv, WalkInv
  <2>2. estimate + S = A + p + D /\ Written + S = A + p /\ Written \in Nat
    BY <2>1 DEF PriceInv
  <2>3. D = IF interned THEN dicts[Len(dicts)].entry.size ELSE 0
    BY <2>1 DEF PriceInv, DictBytes
  <2>4. ShapeTyped /\ estimate \in Nat /\ interned \in BOOLEAN
    BY <2>1 DEF TypesInv
  <2>5. S \in Nat /\ A \in Nat /\ p \in Nat
    BY <2>4, SavingsNat
  <2>6. D \in Nat
    BY <2>4, PricesNat DEF TypesInv, DictBytes
  <2> HIDE DEF S, A, p, D
  <2>7. estimate = Written + D
    BY <2>2, <2>4, <2>5, <2>6
  <2> QED
    BY <2>3, <2>7
<1>3. CountInv /\ Shape /\ TypeOK /\ TypeOK' /\ [Next]_vars => CountInv'
  BY NextCount, BuilderSteps
<1> QED
  BY <1>1, <1>2, <1>3, NextPrices, NextDense, InitWalk, NextWalk, InitTypes, NextTypes,
     BuilderHolds, PTL DEF Spec
=============================================================================
