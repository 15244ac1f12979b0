-------------------------- MODULE RoundTripProofs --------------------------
(***************************************************************************)
(* What a client commits is what the table reads back: for every schema of *)
(* at most 65536 text fields, every build of one record at a time and      *)
(* every layout.                                                           *)
(*                                                                         *)
(* RoundTrip speaks of the opened file alone, so it is not inductive:      *)
(* nothing in it says how the file came to be.  RecordsInv follows the     *)
(* records there.  A setter leaves no more bytes than its field declares   *)
(* (RawInv) within the range measured for it (CoverInv); a staged row      *)
(* means what was committed (MeansInv); the widths are measured once       *)
(* (ShapeInv); the dictionaries hold the texts and the encoded tuples      *)
(* (DictsInv); each record of a slot leads to the tuple of its row         *)
(* (CarriesInv); and the file is made of these (ContentsInv).              *)
(*                                                                         *)
(* The rest is about one state, in which the file is finished.  Places in  *)
(* the image and rows are one to one (PlacesAreRows), and what the table   *)
(* reads at a place is the key (KeyReads) and the fields (FieldReads) of   *)
(* its row.                                                                *)
(***************************************************************************)
EXTENDS WrittenImageProofs

----------------------------------------------------------------------------
(* Words, and the bytes of an encoded tuple.                               *)

(* A word's arithmetic wraps around at most once.                          *)
LEMMA WrapsOnce ==
    ASSUME NEW x \in Int
    PROVE  /\ 0 <= x /\ x < WordSize => x % WordSize = x
           /\ 0 - WordSize <= x /\ x < 0 => x % WordSize = x + WordSize
           /\ WordSize <= x /\ x < 2 * WordSize => x % WordSize = x - WordSize
<1> DEFINE W == WordSize
<1>1. W \in Nat \ {0}
  BY WordFacts
<1> HIDE DEF W
<1>2. 0 <= x /\ x < W => x % W = x
  BY <1>1
<1>3. 0 - W <= x /\ x < 0 => x % W = x + W
  BY <1>1
<1>4. W <= x /\ x < 2 * W => x % W = x - W
  BY <1>1
<1> QED
  BY <1>2, <1>3, <1>4 DEF W

(* The distance of a value from the smallest one is no longer than that of *)
(* the largest, in unsigned and in signed order, and adding the smallest   *)
(* one back gives the value.                                               *)
LEMMA DistanceHolds ==
    ASSUME NEW f \in Fields, NEW lo \in Word, NEW a \in Word, NEW hi \in Word,
           ~ValueLess(f, a, lo), ~ValueLess(f, hi, a)
    PROVE  /\ Minus(hi, lo) \in Word /\ Minus(a, lo) \in 0..Minus(hi, lo)
           /\ Plus(Minus(a, lo), lo) = a
<1>1. WordSize \in Nat \ {0} /\ Word = 0..(WordSize - 1)
  BY WordFacts DEF Word
<1> DEFINE W == WordSize
<1> HIDE DEF W
<1>2. W \in Nat \ {0} /\ lo \in 0..(W - 1) /\ a \in 0..(W - 1) /\ hi \in 0..(W - 1)
  BY <1>1 DEF W
<1>3. \A x \in Int : /\ 0 <= x /\ x < W => x % W = x
                     /\ 0 - W <= x /\ x < 0 => x % W = x + W
                     /\ W <= x /\ x < 2 * W => x % W = x - W
  BY WrapsOnce DEF W
<1>4. \/ lo <= a /\ a <= hi
      \/ /\ (IF 2 * lo < W THEN lo ELSE lo - W) <= (IF 2 * a < W THEN a ELSE a - W)
         /\ (IF 2 * a < W THEN a ELSE a - W) <= (IF 2 * hi < W THEN hi ELSE hi - W)
  BY <1>2 DEF ValueLess, SignedLess, Signed, W
<1> DEFINE x == (a - lo) % W  y == (hi - lo) % W
<1>5. x = (IF lo <= a THEN a - lo ELSE (a - lo) + W) /\ y = (IF lo <= hi THEN hi - lo ELSE (hi - lo) + W)
  <2>1. a - lo \in Int /\ hi - lo \in Int
    BY <1>2
  <2> QED
    BY <1>2, <1>3, <2>1
<1> HIDE DEF x, y
<1>6. x \in 0..(W - 1) /\ y \in 0..(W - 1) /\ x <= y
  BY <1>2, <1>4, <1>5
<1>7. (x + lo) % W = a
  <2>1. x + lo \in Int
    BY <1>2, <1>6
  <2>2. CASE lo <= a
    <3>1. x + lo = a
      BY <1>2, <1>5, <2>2
    <3> QED
      BY <1>2, <1>3, <3>1
  <2>3. CASE ~(lo <= a)
    <3>1. x + lo = a + W
      BY <1>2, <1>5, <2>3
    <3> QED
      BY <1>2, <1>3, <3>1
  <2> QED
    BY <2>2, <2>3
<1> QED
  BY <1>1, <1>6, <1>7 DEF Minus, Plus, x, y, W

(* The digits below position m make up the remainder at m.                 *)
LEMMA RemainderStep ==
    ASSUME NEW v \in Nat, NEW m \in Nat, m < WordBytes
    PROVE  /\ Digit(v, m) \in Byte
           /\ v % Weight[m + 1] = Digit(v, m) * Weight[m] + (v % Weight[m])
<1> DEFINE B == ByteBase  w == Weight[m]  W == Weight[m + 1]
           q == v \div w  r == v % w  d == q % B  p == q \div B  s == d * w + r
<1>1. B \in Nat \ {0} /\ w \in Nat \ {0} /\ W = B * w /\ W \in Nat \ {0}
  BY WeightNat
<1> HIDE DEF B, w, W
<1>2. q \in Nat /\ r \in Nat /\ r < w /\ v = q * w + r
  BY <1>1, Quotient
<1> HIDE DEF q, r
<1>3. p \in Nat /\ d \in Nat /\ d < B /\ q = p * B + d
  BY <1>1, <1>2, Quotient
<1> HIDE DEF p, d
<1>4. v = p * W + s /\ s \in Nat
  BY <1>1, <1>2, <1>3
<1>5. s < W
  <2>1. (d + 1) * w <= B * w
    BY <1>1, <1>3, TimesAtLeast
  <2>2. (d + 1) * w = d * w + w
    BY <1>1, <1>3
  <2>3. d * w \in Nat
    BY <1>1, <1>3
  <2> DEFINE dw == d * w  u == (d + 1) * w
  <2> HIDE DEF dw, u
  <2>4. dw \in Nat /\ u = dw + w /\ u <= W /\ s = dw + r
    BY <1>1, <2>1, <2>2, <2>3 DEF dw, u
  <2> HIDE DEF s
  <2> QED
    BY <1>1, <1>2, <2>4
<1> HIDE DEF s
<1>6. v % W = s
  BY <1>1, <1>3, <1>4, <1>5, OneQuotient, SMTT(30)
<1>7. d \in 0..(B - 1)
  BY <1>1, <1>3
<1> QED
  BY <1>6, <1>7 DEF s, d, q, r, w, W, B, Digit, Byte

(* load_uint finds the value whose bytes were stored.                      *)
LEMMA DigitSum ==
    ASSUME NEW n \in Nat, n <= WordBytes, NEW v \in Nat, v < Weight[n]
    PROVE  load_uint([b \in 1..n |-> Digit(v, b - 1)]) = v
<1> DEFINE h == [b \in 1..n |-> Digit(v, b - 1) * Weight[b - 1]]
           S == {m \in Nat : m <= n => Total(h, 1..m) = v % Weight[m]}
<1>1. WordBytes \in Nat /\ \A k \in 0..WordBytes : Weight[k] \in Nat \ {0}
  BY WeightNat
<1>2. \A b \in 1..n : h[b] \in Nat
  <2> SUFFICES ASSUME NEW b \in 1..n PROVE h[b] \in Nat
    OBVIOUS
  <2>1. b - 1 \in Nat /\ b - 1 < WordBytes /\ b - 1 \in 0..WordBytes
    BY <1>1
  <2>2. Digit(v, b - 1) \in Nat
    <3>1. Digit(v, b - 1) \in Byte
      BY <2>1, RemainderStep
    <3>2. Byte \subseteq Nat
      BY WeightNat DEF Byte
    <3> QED
      BY <3>1, <3>2
  <2>3. Weight[b - 1] \in Nat
    BY <1>1, <2>1
  <2> QED
    BY <2>2, <2>3
<1>3. 0 \in S
  <2>1. 1..0 = {} /\ Weight[0] = 1 /\ v % 1 = 0
    BY WeightNat
  <2> QED
    BY <2>1, TotalEmpty
<1>4. ASSUME NEW m \in Nat, m \in S PROVE m + 1 \in S
  <2> SUFFICES ASSUME m + 1 <= n PROVE Total(h, 1..(m + 1)) = v % Weight[m + 1]
    OBVIOUS
  <2>1. m < WordBytes /\ Total(h, 1..m) = v % Weight[m]
    BY <1>1, <1>4
  <2>2. IsFiniteSet(1..(m + 1)) /\ m + 1 \in 1..(m + 1) /\ (1..(m + 1)) \ {m + 1} = 1..m
    <3>1. 1 \in Int /\ m + 1 \in Int
      OBVIOUS
    <3>2. IsFiniteSet(1..(m + 1))
      BY <3>1, FS_Interval
    <3> QED
      BY <3>2
  <2>3. \A b \in 1..(m + 1) : h[b] \in Nat
    BY <1>2
  <2>4. h[m + 1] = Digit(v, m) * Weight[m]
    OBVIOUS
  <2> HIDE DEF h
  <2>5. Total(h, 1..(m + 1)) = h[m + 1] + Total(h, 1..m)
    <3> DEFINE all == 1..(m + 1)
    <3>1. IsFiniteSet(all) /\ m + 1 \in all /\ \A b \in all : h[b] \in Nat
      BY <2>2, <2>3
    <3>2. Total(h, all) = h[m + 1] + Total(h, all \ {m + 1})
      <4> HIDE DEF all
      <4> QED
        BY <3>1, TotalRemove
    <3> QED
      BY <2>2, <3>2
  <2> QED
    BY <2>1, <2>4, <2>5, RemainderStep
<1>5. n \in S
  <2> HIDE DEF S
  <2> QED
    BY <1>3, <1>4, NatSetInduction
<1>6. Total(h, 1..n) = v % Weight[n]
  BY <1>5
<1>7. v % Weight[n] = v
  <2> DEFINE W == Weight[n]
  <2>1. W \in Nat \ {0} /\ v < W
    BY <1>1
  <2> HIDE DEF W
  <2>2. v % W = v
    BY <2>1
  <2> QED
    BY <2>2 DEF W
<1> DEFINE bytes == [b \in 1..n |-> Digit(v, b - 1)]
<1>8. DOMAIN bytes = 1..n /\ [b \in DOMAIN bytes |-> bytes[b] * Weight[b - 1]] = h
  OBVIOUS
<1>9. IsFiniteSet(1..n)
  <2>1. 1 \in Int /\ n \in Int
    OBVIOUS
  <2> QED
    BY <2>1, FS_Interval
<1> HIDE DEF h, bytes
<1>10. load_uint(bytes) = Total(h, 1..n)
  BY <1>8, <1>9, LoadIsTotal
<1> QED
  BY <1>6, <1>7, <1>10 DEF bytes

(* Fields are numbers, and so are their widths.                            *)
LEMMA FieldWidthsNat == Fields \subseteq Nat /\ \A h \in Fields : FieldWidth(h) \in Nat
<1>1. Fields \subseteq Nat
  BY BuilderAssumption
<1>2. 1..WordBytes \subseteq Nat
  BY WordAssumption
<1> QED
  BY <1>1, <1>2, FieldWidthRange

(* Fields do not overlap: a later one starts where the earlier has ended.  *)
LEMMA FieldsApart ==
    ASSUME NEW align \in BOOLEAN, NEW f \in Fields, NEW g \in Fields, f < g
    PROVE  LET o == FieldOffsets(align) IN o[f] + FieldWidth(f) <= o[g]
<1> DEFINE o == FieldOffsets(align)
           S == {n \in Nat : f + 1 + n \in Fields => o[f] + FieldWidth(f) <= o[f + 1 + n]}
<1>1. /\ o \in [Fields -> Nat]
      /\ \A h \in Fields : h # 0 => h - 1 \in Fields /\ o[h - 1] + FieldWidth(h - 1) <= o[h]
  BY OffsetsFollow
<1> HIDE DEF o
<1>2. /\ Fields \subseteq Nat /\ f \in Nat /\ g \in Nat
      /\ \A h \in Fields : FieldWidth(h) \in Nat
  BY FieldWidthsNat
<1>3. 0 \in S
  <2>1. f + 1 + 0 = f + 1 /\ f + 1 # 0 /\ (f + 1) - 1 = f
    BY <1>2
  <2> QED
    BY <1>1, <2>1
<1>4. ASSUME NEW n \in Nat, n \in S PROVE n + 1 \in S
  <2> SUFFICES ASSUME f + 1 + (n + 1) \in Fields PROVE o[f] + FieldWidth(f) <= o[f + 1 + (n + 1)]
    OBVIOUS
  <2> DEFINE h == f + 1 + (n + 1)  e == f + 1 + n
  <2>1. h # 0 /\ h - 1 = e
    BY <1>2
  <2>2. e \in Fields /\ o[e] + FieldWidth(e) <= o[h]
    BY <1>1, <2>1
  <2>3. o[f] + FieldWidth(f) <= o[e]
    BY <1>4, <2>2
  <2>4. o[f] \in Nat /\ o[e] \in Nat /\ o[h] \in Nat /\ FieldWidth(e) \in Nat /\ FieldWidth(f) \in Nat
    BY <1>1, <1>2, <2>2
  <2> HIDE DEF h, e
  <2>5. o[f] + FieldWidth(f) <= o[h]
    BY <2>2, <2>3, <2>4
  <2> QED
    BY <2>5 DEF h
<1>5. \A n \in Nat : n \in S
  <2> HIDE DEF S
  <2> QED
    BY <1>3, <1>4, NatSetInduction
<1>6. g - (f + 1) \in Nat /\ f + 1 + (g - (f + 1)) = g
  BY <1>2
<1>7. o[f] + FieldWidth(f) <= o[g]
  <2> DEFINE n == g - (f + 1)
  <2>1. n \in Nat /\ f + 1 + n = g
    BY <1>6
  <2> HIDE DEF n
  <2> QED
    BY <1>5, <2>1
<1> QED
  BY <1>7 DEF o

(* What choose_layout derives from the fields and the tuples.              *)
LastField == Max(Fields)
Offsets == FieldOffsets(options.align)
ShapeMeasured ==
    /\ shape.descs = [f \in Fields |-> Desc(f, Offsets[f])]
    /\ value_stride = Offsets[LastField] + FieldWidth(LastField)
    /\ ref_width = width_for(Max({0, tuple_count - 1}))

(* What is stored of field f of tuple t, counted from 0.                   *)
Stored(t, f) == store_uint(FieldWidth(f), Minus(tuples[t + 1][f], Bias(f)))

(* The bytes of a field in an encoded tuple are those of the value stored: *)
(* no other field is over them, and they lie inside the stride.            *)
LEMMA FieldBytes ==
    ASSUME ShapeMeasured, options.align \in BOOLEAN, NEW t, NEW f \in Fields,
           NEW b \in 1..FieldWidth(f)
    PROVE  encode_tuple(t)[Offsets[f] + b - 1] = Digit(Stored(t, f), b - 1)
<1> DEFINE d(g) == shape.descs[g]
           stored(g) == store_uint(d(g).width, Minus(tuples[t + 1][g], d(g).bias))
           over(x) == {g \in Fields : x \in d(g).offset..(d(g).offset + d(g).width - 1)}
           byte(x, g) == Digit(stored(g), x - d(g).offset)
           x == Offsets[f] + b - 1
<1>1. encode_tuple(t) = [y \in 0..(value_stride - 1) |->
                            IF over(y) = {} THEN 0 ELSE byte(y, Max(over(y)))]
  BY DEF encode_tuple
<1>2. \A g \in Fields : /\ d(g).offset = Offsets[g] /\ d(g).width = FieldWidth(g)
                        /\ d(g).bias = Bias(g)
  BY DEF ShapeMeasured, Desc
<1>3. /\ Offsets \in [Fields -> Nat]
      /\ \A g, h \in Fields : g < h => Offsets[g] + FieldWidth(g) <= Offsets[h]
  <2>1. Offsets \in [Fields -> Nat]
    BY OffsetsFollow DEF Offsets
  <2>2. ASSUME NEW g \in Fields, NEW h \in Fields, g < h
        PROVE  Offsets[g] + FieldWidth(g) <= Offsets[h]
    BY <2>2, FieldsApart DEF Offsets
  <2> QED
    BY <2>1, <2>2
<1>4. Fields \subseteq Nat /\ \A g \in Fields : FieldWidth(g) \in Nat
  BY FieldWidthsNat
<1>5. x \in Nat /\ Offsets[f] <= x /\ x < Offsets[f] + FieldWidth(f) /\ x - Offsets[f] = b - 1
  BY <1>3, <1>4
<1>6. x \in 0..(value_stride - 1)
  <2>1. LastField \in Fields /\ f \in Nat /\ LastField \in Nat /\ f <= LastField
    BY <1>4, FieldIds DEF LastField
  <2>2. Offsets[f] + FieldWidth(f) <= value_stride
    <3>1. CASE f = LastField
      <4>1. value_stride = Offsets[f] + FieldWidth(f)
        BY <3>1 DEF ShapeMeasured
      <4>2. Offsets[f] + FieldWidth(f) \in Nat
        BY <1>3, <1>4
      <4> QED
        BY <4>1, <4>2
    <3>2. CASE f # LastField
      <4>1. f < LastField
        BY <2>1, <3>2
      <4>2. Offsets[f] + FieldWidth(f) <= Offsets[LastField]
        BY <1>3, <2>1, <4>1
      <4>3. value_stride = Offsets[LastField] + FieldWidth(LastField)
        BY DEF ShapeMeasured
      <4>4. Offsets[f] \in Nat /\ Offsets[LastField] \in Nat /\ FieldWidth(f) \in Nat
            /\ FieldWidth(LastField) \in Nat
        BY <1>3, <1>4, <2>1
      <4> QED
        BY <4>2, <4>3, <4>4
    <3> QED
      BY <3>1, <3>2
  <2>3. value_stride \in Nat
    BY <1>3, <1>4, <2>1 DEF ShapeMeasured
  <2> HIDE DEF x
  <2> QED
    BY <1>3, <1>4, <1>5, <2>2, <2>3
<1>7. over(x) = {f}
  <2> SUFFICES ASSUME NEW g \in Fields
               PROVE  (x \in Offsets[g]..(Offsets[g] + FieldWidth(g) - 1)) <=> g = f
    BY <1>2
  <2>1. Offsets[g] \in Nat /\ FieldWidth(g) \in Nat /\ g \in Nat /\ f \in Nat /\ Offsets[f] \in Nat
        /\ FieldWidth(f) \in Nat
    BY <1>3, <1>4
  <2>2. CASE g = f
    BY <1>5, <2>1, <2>2
  <2>3. CASE g < f
    <3>1. Offsets[g] + FieldWidth(g) <= Offsets[f]
      BY <1>3, <2>3
    <3> HIDE DEF x
    <3> QED
      BY <1>5, <2>1, <2>3, <3>1
  <2>4. CASE f < g
    <3>1. Offsets[f] + FieldWidth(f) <= Offsets[g]
      BY <1>3, <2>4
    <3> HIDE DEF x
    <3> QED
      BY <1>5, <2>1, <2>4, <3>1
  <2> QED
    BY <2>1, <2>2, <2>3, <2>4
<1>8. Max(over(x)) = f
  <2>1. f \in Nat /\ {f} \in SUBSET (0..f) /\ {f} # {}
    BY <1>4
  <2>2. Max({f}) \in {f}
    BY <2>1, MaxOfNats
  <2> QED
    BY <1>7, <2>2
<1>9. encode_tuple(t)[x] = byte(x, f)
  <2> HIDE DEF x, over, byte
  <2>1. over(x) # {}
    BY <1>7
  <2> QED
    BY <1>1, <1>6, <1>8, <2>1
<1>10. byte(x, f) = Digit(Stored(t, f), b - 1)
  BY <1>2, <1>5 DEF Stored
<1> HIDE DEF byte
<1> QED
  BY <1>9, <1>10

(* load_uint finds in an encoded tuple the value stored for a field.       *)
LEMMA FieldLoads ==
    ASSUME ShapeMeasured, options.align \in BOOLEAN, NEW t, NEW f \in Fields,
           Stored(t, f) \in Nat, Stored(t, f) < Weight[FieldWidth(f)]
    PROVE  load_uint([b \in 1..FieldWidth(f) |-> encode_tuple(t)[Offsets[f] + b - 1]])
              = Stored(t, f)
<1> DEFINE v == Stored(t, f)  n == FieldWidth(f)  e == encode_tuple(t)
<1>1. n \in Nat /\ n <= WordBytes
  BY FieldWidthRange, WordAssumption
<1>2. \A b \in 1..n : e[Offsets[f] + b - 1] = Digit(v, b - 1)
  BY FieldBytes
<1> HIDE DEF v, n, e
<1>3. [b \in 1..n |-> e[Offsets[f] + b - 1]] = [b \in 1..n |-> Digit(v, b - 1)]
  BY <1>2
<1>4. load_uint([b \in 1..n |-> Digit(v, b - 1)]) = v
  BY <1>1, DigitSum DEF v, n
<1> QED
  BY <1>3, <1>4 DEF v, n, e

(* The values a field can take up: a number in its measured range, the id  *)
(* of a text, or no more bytes than were declared.                         *)
FieldSuits(f, x) ==
    /\ IsInteger(f) => x \in Word /\ InRange(f, stats[f], x)
    /\ FieldKind[f] = "text" => x < Len(texts[f]) /\ Len(texts[f]) < WordSize
    /\ ~IsInteger(f) /\ FieldKind[f] # "text" => x < Weight[RawWidth[f]]

(* Such a value fits the width chosen for its field, and adding the bias   *)
(* back to what is stored gives it.                                        *)
LEMMA ValueKept ==
    ASSUME TypeOK, NEW f \in Fields, NEW x \in Nat, FieldSuits(f, x),
           NEW s, s = store_uint(FieldWidth(f), Minus(x, Bias(f)))
    PROVE  s \in Nat /\ s < Weight[FieldWidth(f)] /\ Plus(s, Bias(f)) = x
<1>1. FieldKind[f] \in {"uint", "sint", "f32", "f64", "bytes", "text"} /\ RawWidth[f] \in 0..WordBytes
  BY BuilderAssumption
<1>2. FieldWidth(f) \in 1..WordBytes /\ FieldWidth(f) \in 0..WordBytes
  BY FieldWidthRange, WordAssumption
<1>3. Weight[FieldWidth(f)] \in Nat \ {0} /\ WordSize \in Nat \ {0}
  BY <1>2, WeightNat
<1>4. s \in Nat /\ s < Weight[FieldWidth(f)]
  <2> DEFINE y == Minus(x, Bias(f))  W == Weight[FieldWidth(f)]
  <2>1. y \in Int /\ W \in Nat \ {0}
    <3>1. Bias(f) \in Int
      <4>1. stats[f].min \in Word
        BY DEF TypeOK
      <4>2. stats[f].min \in Nat
        BY <4>1, WordFacts
      <4> QED
        BY <4>2 DEF Bias
    <3>2. x - Bias(f) \in Int
      BY <3>1
    <3> DEFINE z == x - Bias(f)
    <3> HIDE DEF z
    <3>3. z % WordSize \in Int
      BY <1>3, <3>2 DEF z
    <3> QED
      BY <1>3, <3>3 DEF Minus, z
  <2> HIDE DEF y, W
  <2>2. y % W \in Nat /\ y % W < W
    BY <2>1
  <2> QED
    BY <2>2 DEF store_uint, y, W
<1>5. CASE IsInteger(f)
  <2> DEFINE lo == stats[f].min  hi == stats[f].max
  <2>1. x \in Word /\ stats[f].seen /\ ~ValueLess(f, x, lo) /\ ~ValueLess(f, hi, x)
    BY <1>5 DEF FieldSuits, InRange
  <2>2. lo \in Word /\ hi \in Word
    BY DEF TypeOK
  <2>3. Bias(f) = lo /\ FieldWidth(f) = width_for(Minus(hi, lo))
    BY <1>5, <2>1 DEF Bias, FieldWidth, IsInteger
  <2> HIDE DEF lo, hi
  <2>4. /\ Minus(hi, lo) \in Word /\ Minus(x, lo) \in 0..Minus(hi, lo)
        /\ Plus(Minus(x, lo), lo) = x
    BY <2>1, <2>2, DistanceHolds
  <2> DEFINE m == Minus(hi, lo)  v == Minus(x, lo)
  <2>5. m \in Word /\ v \in 0..m
    BY <2>4
  <2> HIDE DEF m, v
  <2>6. store_uint(width_for(m), v) = v
    BY <2>5, WidthHolds
  <2> QED
    BY <1>4, <2>3, <2>4, <2>6 DEF m, v
<1>6. ASSUME Bias(f) = 0, x < WordSize, store_uint(FieldWidth(f), x) = x
      PROVE  Plus(s, Bias(f)) = x
  <2>1. x % WordSize = x
    BY <1>3, <1>6
  <2>2. Minus(x, 0) = x /\ Plus(x, 0) = x
    BY <2>1 DEF Minus, Plus
  <2> QED
    BY <1>6, <2>2
<1>7. CASE FieldKind[f] = "text"
  <2>1. x < Len(texts[f]) /\ Len(texts[f]) < WordSize /\ Bias(f) = 0
    BY <1>7 DEF FieldSuits, Bias, IsInteger
  <2> DEFINE n == Len(texts[f])
  <2>2. n \in Nat
    BY DEF TypeOK
  <2>3. FieldWidth(f) = width_for(Max({0, n - 1}))
    BY <1>7 DEF FieldWidth
  <2> HIDE DEF n
  <2>4. x < n /\ n < WordSize /\ n - 1 \in Nat /\ x \in 0..(n - 1) /\ n - 1 \in 0..(WordSize - 1)
    BY <1>3, <2>1, <2>2 DEF n
  <2> DEFINE m == n - 1
  <2>5. Max({0, m}) = m
    <3>1. m \in Nat /\ {0, m} \in SUBSET (0..m) /\ {0, m} # {}
      BY <2>4
    <3> HIDE DEF m
    <3>2. Max({0, m}) \in {0, m} /\ m <= Max({0, m})
      BY <3>1, MaxOfNats
    <3> QED
      BY <3>1, <3>2
  <2>6. store_uint(width_for(m), x) = x
    <3>1. m \in Word /\ x \in 0..m
      BY <2>4 DEF Word
    <3> HIDE DEF m
    <3> QED
      BY <3>1, WidthHolds
  <2>7. x < WordSize
    BY <1>3, <2>2, <2>4
  <2> QED
    BY <1>4, <1>6, <2>1, <2>3, <2>5, <2>6, <2>7
<1>8. CASE ~IsInteger(f) /\ FieldKind[f] # "text"
  <2>1. x < Weight[RawWidth[f]] /\ Bias(f) = 0 /\ FieldWidth(f) = RawWidth[f]
    BY <1>1, <1>8 DEF FieldSuits, Bias, IsInteger, FieldWidth
  <2> DEFINE w == Weight[FieldWidth(f)]
  <2>2. w \in Nat \ {0} /\ x < w
    BY <1>3, <2>1
  <2>3. w <= WordSize
    BY <1>2, WeightMonotone, WordAssumption DEF WordSize
  <2>4. store_uint(FieldWidth(f), x) = x % w
    BY DEF store_uint
  <2> HIDE DEF w
  <2>5. x % w = x /\ x < WordSize
    BY <1>3, <2>2, <2>3
  <2> QED
    BY <1>4, <1>6, <2>1, <2>4, <2>5
<1> QED
  BY <1>4, <1>5, <1>7, <1>8

(* How many members have a smaller key.                                    *)
Rank(T, k, t) == Cardinality({u \in T : k[u] < k[t]})

(* Ranks by a key that tells the members apart are distinct, and below the *)
(* number of members.                                                      *)
LEMMA RanksApart ==
    ASSUME NEW T, IsFiniteSet(T), NEW k \in [T -> Nat],
           \A t, u \in T : k[t] = k[u] => t = u,
           NEW t \in T
    PROVE  /\ Rank(T, k, t) \in 0..(Cardinality(T) - 1)
           /\ \A u \in T : Rank(T, k, t) = Rank(T, k, u) => t = u
<1> DEFINE B(u) == {x \in T : k[x] < k[u]}
<1>1. \A u \in T : B(u) \in SUBSET T /\ IsFiniteSet(B(u)) /\ Cardinality(B(u)) \in Nat
  BY FS_Subset, FS_CardinalityType
<1>2. ASSUME NEW u \in T, NEW v \in T, k[u] < k[v]
      PROVE  Cardinality(B(u)) < Cardinality(B(v))
  <2>1. B(u) \in SUBSET B(v) /\ u \in B(v) /\ u \notin B(u)
    BY <1>2
  <2>2. IsFiniteSet(B(v)) /\ Cardinality(B(v)) \in Nat /\ Cardinality(B(u)) \in Nat
    BY <1>1
  <2> HIDE DEF B
  <2>3. Cardinality(B(u)) <= Cardinality(B(v))
        /\ (Cardinality(B(u)) = Cardinality(B(v)) => B(u) = B(v))
    BY <2>1, <2>2, FS_Subset
  <2> QED
    BY <2>1, <2>2, <2>3
<1>3. Cardinality(B(t)) < Cardinality(T) /\ Cardinality(T) \in Nat
  <2>1. B(t) \in SUBSET T /\ t \in T /\ t \notin B(t) /\ Cardinality(B(t)) \in Nat
    BY <1>1
  <2> HIDE DEF B
  <2>2. Cardinality(T) \in Nat
    BY FS_CardinalityType
  <2>3. Cardinality(B(t)) <= Cardinality(T) /\ (Cardinality(B(t)) = Cardinality(T) => B(t) = T)
    BY <2>1, FS_Subset
  <2> QED
    BY <2>1, <2>2, <2>3
<1>4. \A u \in T : Rank(T, k, u) = Cardinality(B(u))
  BY DEF Rank
<1>5. ASSUME NEW u \in T, Rank(T, k, t) = Rank(T, k, u) PROVE t = u
  <2>1. Cardinality(B(t)) = Cardinality(B(u)) /\ Cardinality(B(t)) \in Nat
    BY <1>1, <1>4, <1>5
  <2>2. k[t] \in Nat /\ k[u] \in Nat
    OBVIOUS
  <2>3. ~(k[t] < k[u]) /\ ~(k[u] < k[t])
    <3> HIDE DEF B
    <3> QED
      BY <1>2, <2>1
  <2> QED
    BY <2>2, <2>3
<1>6. Rank(T, k, t) \in 0..(Cardinality(T) - 1)
  <2> DEFINE c == Cardinality(B(t))
  <2>1. c \in Nat /\ c < Cardinality(T) /\ Cardinality(T) \in Nat
    BY <1>1, <1>3
  <2> HIDE DEF c
  <2>2. c \in 0..(Cardinality(T) - 1)
    BY <2>1
  <2> QED
    BY <1>4, <2>2 DEF c
<1> QED
  BY <1>5, <1>6

(* A text field has a dictionary of its own.                               *)
LEMMA TextSlots ==
    ASSUME NEW f \in TextFields
    PROVE  /\ text_slot(f) \in 0..(Cardinality(TextFields) - 1)
           /\ \A g \in TextFields : text_slot(f) = text_slot(g) => f = g
           /\ (CHOOSE g \in TextFields : text_slot(g) = text_slot(f)) = f
<1> DEFINE k == [g \in TextFields |-> g]
<1>1. TextFields \in SUBSET Fields /\ IsFiniteSet(TextFields) /\ TextFields \in SUBSET Nat
  <2>1. TextFields \in SUBSET Fields /\ IsFiniteSet(Fields) /\ Fields \subseteq Nat
    BY BuilderAssumption, WriterAssumption DEF TextFields
  <2> QED
    BY <2>1, FS_Subset
<1>2. k \in [TextFields -> Nat] /\ \A t, u \in TextFields : k[t] = k[u] => t = u
  BY <1>1
<1>3. \A g \in TextFields : text_slot(g) = Rank(TextFields, k, g)
  <2> SUFFICES ASSUME NEW g \in TextFields PROVE text_slot(g) = Rank(TextFields, k, g)
    OBVIOUS
  <2>1. {u \in TextFields : k[u] < k[g]} = {u \in TextFields : u < g}
    OBVIOUS
  <2> QED
    BY <2>1 DEF Rank, text_slot
<1> HIDE DEF k
<1>4. /\ Rank(TextFields, k, f) \in 0..(Cardinality(TextFields) - 1)
      /\ \A u \in TextFields : Rank(TextFields, k, f) = Rank(TextFields, k, u) => f = u
  BY <1>1, <1>2, RanksApart
<1>5. \A g \in TextFields : text_slot(f) = text_slot(g) => f = g
  BY <1>3, <1>4
<1>6. (CHOOSE g \in TextFields : text_slot(g) = text_slot(f)) = f
  <2> DEFINE m == text_slot(f)
  <2>1. \A g \in TextFields : (text_slot(g) = m) <=> g = f
    BY <1>5
  <2> HIDE DEF m
  <2>2. (CHOOSE g \in TextFields : text_slot(g) = m) = f
    BY <2>1
  <2> QED
    BY <2>2 DEF m
<1> QED
  BY <1>3, <1>4, <1>5, <1>6

(* The local index of a tuple of a run is below the number of its tuples,  *)
(* and the remap table maps it back.                                       *)
LEMMA RemapBack ==
    ASSUME NEW n \in Nat, NEW run \in SUBSET (1..n), NEW t \in TuplesIn(run)
    PROVE  /\ LocalIndex(run, t) \in 0..(Cardinality(TuplesIn(run)) - 1)
           /\ RemapTable(run)[LocalIndex(run, t)] = t
<1> DEFINE T == TuplesIn(run)  k == [u \in T |-> FirstSeen(run, u)]
<1>1. IsFiniteSet(T)
  <2>1. 1 \in Int /\ n \in Int
    OBVIOUS
  <2>2. IsFiniteSet(run)
    BY <2>1, FS_Interval, FS_Subset
  <2> DEFINE h == [x \in run |-> Rows[x].tuple]
  <2>3. h \in Surjection(run, T)
    BY DEF TuplesIn, Surjection
  <2> QED
    BY <2>2, <2>3, FS_Surjection
<1>2. \A u \in T : FirstSeen(run, u) \in run /\ Rows[FirstSeen(run, u)].tuple = u
  <2> SUFFICES ASSUME NEW u \in T
               PROVE  FirstSeen(run, u) \in run /\ Rows[FirstSeen(run, u)].tuple = u
    OBVIOUS
  <2> DEFINE S == {x \in run : Rows[x].tuple = u}
  <2>1. S \in SUBSET Nat /\ S # {}
    <3>1. run \in SUBSET Nat
      OBVIOUS
    <3>2. \E x \in run : Rows[x].tuple = u
      BY DEF TuplesIn
    <3> QED
      BY <3>1, <3>2
  <2>2. Min(S) \in S
    BY <2>1, MinOfNats
  <2> QED
    BY <2>2 DEF FirstSeen
<1> HIDE DEF T
<1>3. k \in [T -> Nat] /\ \A u, v \in T : k[u] = k[v] => u = v
  <2>1. run \in SUBSET Nat
    OBVIOUS
  <2>2. \A u \in T : FirstSeen(run, u) \in Nat
    BY <1>2, <2>1
  <2>3. \A u \in T : k[u] = FirstSeen(run, u)
    OBVIOUS
  <2>4. k \in [T -> Nat]
    BY <2>2
  <2> HIDE DEF k
  <2> QED
    BY <1>2, <2>3, <2>4
<1>4. \A u \in T : LocalIndex(run, u) = Rank(T, k, u)
  <2> SUFFICES ASSUME NEW u \in T PROVE LocalIndex(run, u) = Rank(T, k, u)
    OBVIOUS
  <2>1. {v \in T : k[v] < k[u]} = {v \in T : FirstSeen(run, v) < FirstSeen(run, u)}
    OBVIOUS
  <2> QED
    BY <2>1 DEF Rank, LocalIndex, T
<1> HIDE DEF k
<1>5. t \in T
  BY DEF T
<1>6. /\ Rank(T, k, t) \in 0..(Cardinality(T) - 1)
      /\ \A u \in T : Rank(T, k, t) = Rank(T, k, u) => t = u
  BY <1>1, <1>3, <1>5, RanksApart
<1> DEFINE m == LocalIndex(run, t)
<1>7. m \in 0..(Cardinality(T) - 1) /\ \A u \in T : (LocalIndex(run, u) = m) <=> u = t
  BY <1>4, <1>5, <1>6
<1> HIDE DEF m
<1>8. (CHOOSE u \in T : LocalIndex(run, u) = m) = t
  BY <1>5, <1>7
<1>9. RemapTable(run)[m] = CHOOSE u \in T : LocalIndex(run, u) = m
  BY <1>7 DEF RemapTable, T
<1> QED
  BY <1>7, <1>8, <1>9 DEF m, T

----------------------------------------------------------------------------
(* What each step of a build keeps.                                        *)

(* A tuple holds no more bytes in a raw field than it declares.            *)
RawFits(t) ==
    \A f \in Fields :
        ~IsInteger(f) /\ FieldKind[f] # "text" => t[f] < Weight[RawWidth[f]]

RawInv == RawFits(slots) /\ \A i \in 1..Len(tuples) : RawFits(tuples[i])

(* Every call of the client keeps it, because the setters do.              *)
LEMMA NextRaw == TypeOK /\ RawInv /\ [BuilderNext]_builder_vars => RawInv'
<1> SUFFICES ASSUME TypeOK, RawInv, [BuilderNext]_builder_vars PROVE RawInv'
  OBVIOUS
<1>1. RawFits(ZeroSlots)
  <2> SUFFICES ASSUME NEW f \in Fields PROVE 0 < Weight[RawWidth[f]]
    BY DEF RawFits, ZeroSlots
  <2>1. RawWidth[f] \in 0..WordBytes
    BY BuilderAssumption
  <2> QED
    BY <2>1, WeightNat
<1>2. CASE (slots' = slots \/ slots' = ZeroSlots) /\ tuples' = tuples
  BY <1>1, <1>2 DEF RawInv, RawFits
<1>3. ASSUME NEW h \in Handles, NEW f \in Fields, NEW v \in FieldValues[f], SetField(h, f, v)
      PROVE  RawInv'
  <2>1. tuples' = tuples
    BY <1>3 DEF SetField, store
  <2>2. RawFits(slots')
    <3> SUFFICES ASSUME NEW g \in Fields, ~IsInteger(g), FieldKind[g] # "text"
                 PROVE  slots'[g] < Weight[RawWidth[g]]
      BY DEF RawFits
    <3>1. slots[g] < Weight[RawWidth[g]] /\ slots \in [Fields -> Nat]
      BY DEF RawInv, RawFits, TypeOK, TupleType
    <3>2. CASE g # f
      <4>1. slots'[g] = slots[g]
        BY <1>3, <3>1, <3>2, BuilderAssumption DEF SetField
      <4> QED
        BY <3>1, <4>1
    <3>3. CASE g = f
      <4>1. FieldKind[f] \in {"f32", "f64", "bytes"} /\ FieldKind[f] \notin {"uint", "sint"}
            /\ FieldKind[f] # "text"
        BY <3>3, BuilderAssumption DEF IsInteger
      <4>2. slots' = [slots EXCEPT ![f] = v]
        BY <1>3, <4>1 DEF SetField
      <4>3. v \in 0..(Weight[RawWidth[f]] - 1) /\ RawWidth[f] \in 0..WordBytes
        BY <4>1, BuilderAssumption
      <4>4. Weight[RawWidth[f]] \in Nat
        BY <4>3, WeightNat
      <4>5. v < Weight[RawWidth[f]]
        BY <4>3, <4>4
      <4> QED
        BY <3>1, <3>3, <4>2, <4>5
    <3> QED
      BY <3>2, <3>3
  <2> QED
    BY <2>1, <2>2 DEF RawInv, RawFits
<1>4. ASSUME NEW t, t = intern_tuple, tuples' = t.tuples, slots' = slots PROVE RawInv'
  <2>1. t.tuples = tuples \/ t.tuples = Append(tuples, slots)
    BY <1>4 DEF intern_tuple
  <2>2. tuples \in Seq(TupleType) /\ slots \in TupleType
    BY DEF TypeOK
  <2>3. \A i \in 1..Len(Append(tuples, slots)) : RawFits(Append(tuples, slots)[i])
    <3>1. \A i \in 1..Len(Append(tuples, slots)) :
             Append(tuples, slots)[i] = slots \/ (i \in 1..Len(tuples)
                                                  /\ Append(tuples, slots)[i] = tuples[i])
      BY <2>2
    <3> QED
      BY <3>1 DEF RawInv
  <2> QED
    BY <1>4, <2>1, <2>3 DEF RawInv, RawFits
<1>5. ASSUME NEW h \in Handles, commit(h) PROVE RawInv'
  <2>1. tuples' = intern_tuple.tuples /\ slots' = slots
    BY <1>5 DEF commit, StoreTuple, record
  <2> QED
    BY <1>4, <2>1
<1>6. ASSUME NEW h \in Handles, CommitRefused(h) PROVE RawInv'
  <2>1. tuples' = intern_tuple.tuples /\ slots' = slots
    BY <1>6 DEF CommitRefused, StoreTuple, record
  <2> QED
    BY <1>4, <2>1
<1>7. CASE finish
  <2>1. UNCHANGED <<tuples, slots>>
    BY <1>7 DEF finish, record
  <2> QED
    BY <1>2, <2>1
<1>8. ASSUME NEW kind \in ClientStagings, set_staging(kind) PROVE RawInv'
  BY <1>2, <1>8 DEF set_staging, record
<1>9. ASSUME NEW h \in Handles, NEW k, begin_record(h, k) \/ begin_record_at(h, k)
             \/ begin_record_at_wide(h, k)
      PROVE  RawInv'
  BY <1>2, <1>9 DEF begin_record, begin_record_at, BeginNarrow, begin_record_at_wide
<1>10. CASE UNCHANGED builder_vars \/ Throws
  BY <1>2, <1>10 DEF builder_vars, Throws, store, record
<1> QED
  BY <1>3, <1>5, <1>6, <1>7, <1>8, <1>9, <1>10
     DEF BuilderNext, SetRejected, CommitRejected, SetStagingRejected, BeginRejected,
         FinishRejected

(* What StartLayout measures stays, because the client is done.            *)
ShapeInv == wpc # "off" => ShapeMeasured

(* Every step keeps it: StartLayout sets it, and no later one changes what *)
(* it is about.                                                            *)
LEMMA NextShape == WalkInv /\ ShapeInv /\ [Next]_vars => ShapeInv'
<1> SUFFICES ASSUME WalkInv, ShapeInv, [Next]_vars PROVE ShapeInv'
  OBVIOUS
<1>1. CASE Consume
  <2>1. wpc' = "off"
    BY <1>1 DEF Consume, WalkInv, writer_vars
  <2> QED
    BY <2>1 DEF ShapeInv
<1>2. ASSUME UNCHANGED <<stats, texts, tuples>>
      PROVE  /\ \A f : FieldWidth(f)' = FieldWidth(f) /\ Bias(f)' = Bias(f)
             /\ tuple_count' = tuple_count
  BY <1>2 DEF FieldWidth, Bias, tuple_count
<1>3. ASSUME UNCHANGED <<stats, texts, tuples>>
      PROVE  /\ \A a : FieldOffsets(a)' = FieldOffsets(a)
             /\ \A f, x : Desc(f, x)' = Desc(f, x)
  BY <1>2, <1>3 DEF FieldOffsets, Desc
<1>4. ASSUME UNCHANGED <<stats, texts, tuples>>
      PROVE  Offsets' = FieldOffsets(options'.align)
  <2>1. Offsets' = FieldOffsets(options.align)'
    BY DEF Offsets
  <2> QED
    BY <1>2, <1>4, <2>1 DEF FieldOffsets
<1>5. CASE StartLayout
  <2> DEFINE offsets == FieldOffsets(options'.align)
  <2>1. UNCHANGED <<stats, texts, tuples>>
    BY <1>5 DEF StartLayout, builder_vars, store, record
  <2>2. /\ shape'.descs = [f \in Fields |-> Desc(f, offsets[f])]
        /\ shape'.value_stride = offsets[LastField] + FieldWidth(LastField)
        /\ shape'.ref_width = width_for(Max({0, tuple_count - 1}))
    BY <1>5 DEF StartLayout, LastField
  <2>3. offsets = Offsets'
    BY <1>4, <2>1
  <2> HIDE DEF offsets
  <2>4. shape'.descs = [f \in Fields |-> Desc(f, Offsets'[f])]
    BY <2>2, <2>3
  <2> QED
    BY <1>2, <2>1, <2>2, <2>3, <2>4
       DEF ShapeInv, ShapeMeasured, Desc, Bias, FieldWidth, value_stride, ref_width, tuple_count
<1>6. ASSUME UNCHANGED <<stats, texts, tuples, options, shape>>, ShapeMeasured
      PROVE  ShapeMeasured'
  <2>1. Offsets' = Offsets
    BY <1>4, <1>6 DEF Offsets
  <2>2. shape'.descs = [f \in Fields |-> Desc(f, Offsets[f])]
    BY <1>6 DEF ShapeMeasured
  <2> QED
    BY <1>2, <1>6, <2>1, <2>2
       DEF ShapeMeasured, Desc, Bias, FieldWidth, value_stride, ref_width, tuple_count
<1>7. CASE UNCHANGED <<stats, texts, tuples, options, shape>> /\ (wpc = "off" => wpc' = "off")
  BY <1>6, <1>7 DEF ShapeInv
<1>8. CASE MeasureRun \/ Price \/ WriteTextDict \/ EndDictionaries \/ WriteRun \/ EndRecords
           \/ WriteDirectory \/ SinkFails
  BY <1>7, <1>8
     DEF MeasureRun, Price, WriteTextDict, EndDictionaries, WriteRun, EndRecords, WriteDirectory,
         SinkFails, builder_vars, store, record
<1>9. CASE UNCHANGED vars
  BY <1>7, <1>9 DEF vars, writer_vars, builder_vars, store, record
<1> QED
  BY <1>1, <1>5, <1>8, <1>9 DEF Next, Writing

(* How many fields are texts: each has a dictionary.                       *)
TextCount == Cardinality(TextFields)

(* What is encoded depends on the tuples and the shape alone.              *)
LEMMA SameEncoding ==
    ASSUME UNCHANGED <<tuples, shape>>
    PROVE  \A t : encode_tuple(t)' = encode_tuple(t)
BY DEF encode_tuple, value_stride

(* The tuples as bytes.                                                    *)
Elements == [t \in 0..(tuple_count - 1) |-> encode_tuple(t)]

(* The dictionaries written so far: the texts of each field in field order,*)
(* which take up room in the file, and the tuples of an interned image.    *)
TextsWritten(f) ==
    /\ dicts[text_slot(f) + 1].content.texts = texts[f]
    /\ Len(texts[f]) <= pos

DictsInv ==
    /\ wpc \in {"off", "measure"} => dicts = <<>>
    /\ \A f \in TextFields : text_slot(f) < Len(dicts) => TextsWritten(f)
    /\ wpc \in {"records", "directory", "written"} =>
          /\ Len(dicts) = TextCount + (IF interned THEN 1 ELSE 0)
          /\ interned => dicts[TextCount + 1].content.elements = Elements

(* Every step keeps them.                                                  *)
LEMMA NextDicts ==
    /\ TypeOK /\ WalkInv /\ TypesInv /\ TypesInv' /\ DictsInv /\ [Next]_vars
    => DictsInv'
<1> SUFFICES ASSUME TypeOK, WalkInv, TypesInv, TypesInv', DictsInv, [Next]_vars PROVE DictsInv'
  OBVIOUS
<1>1. pos \in Nat /\ pos' \in Nat /\ IsSequence(dicts) /\ Len(dicts) \in Nat /\ TextCount \in Nat
  BY TextFieldsCounted DEF TypesInv, IsSequence, TextCount
<1>2. \A f : text_slot(f)' = text_slot(f)
  BY DEF text_slot
<1>3. ASSUME UNCHANGED <<tuples, shape>>
      PROVE  Elements' = Elements
  BY <1>3, SameEncoding DEF Elements, tuple_count
<1>4. ASSUME dicts' = <<>>, wpc' \notin {"records", "directory", "written"} PROVE DictsInv'
  <2>1. Len(dicts') = 0 /\ \A f \in TextFields : text_slot(f) \in Nat
    BY <1>4, TextSlots
  <2> QED
    BY <1>4, <2>1 DEF DictsInv
<1>5. ASSUME UNCHANGED <<dicts, texts, tuples, shape, interned>>, pos <= pos',
             wpc' \notin {"off", "measure"} \/ wpc' = wpc,
             wpc' \in {"records", "directory", "written"} =>
                wpc \in {"records", "directory", "written"}
      PROVE  DictsInv'
  <2>1. ASSUME NEW f \in TextFields, text_slot(f) < Len(dicts) PROVE TextsWritten(f)'
    <3>1. TextsWritten(f) /\ Len(texts[f]) \in Nat
      BY <2>1, TypeOK DEF DictsInv, TypeOK, TextFields
    <3>2. Len(texts[f]) <= pos'
      BY <1>1, <1>5, <3>1 DEF TextsWritten
    <3> QED
      BY <1>2, <1>5, <3>1, <3>2 DEF TextsWritten
  <2> QED
    BY <1>3, <1>5, <2>1 DEF DictsInv, text_slot
<1>6. CASE Consume \/ StartLayout \/ MeasureRun
  <2>1. dicts' = dicts /\ wpc \in {"off", "measure"} /\ wpc' \in {"off", "measure"}
    BY <1>6 DEF Consume, StartLayout, MeasureRun, output_vars, writer_vars, WalkInv
  <2> QED
    BY <1>4, <2>1 DEF DictsInv
<1>7. CASE Price
  <2>1. dicts' = dicts /\ wpc = "measure" /\ wpc' = "dictionaries"
    BY <1>7 DEF Price
  <2> QED
    BY <1>4, <2>1 DEF DictsInv
<1>8. CASE WriteTextDict
  <2> DEFINE g == CHOOSE x \in TextFields : text_slot(x) = Len(dicts)
             n == Len(dicts)  e == [entry |-> [offset |-> Padded(pos), size |-> serialized_size(g)],
                                    content |-> BlobDict(g)]
  <2>1. /\ wpc = "dictionaries" /\ wpc' = "dictionaries" /\ n < TextCount
        /\ dicts' = Append(dicts, e) /\ pos' = Padded(pos) + serialized_size(g)
        /\ UNCHANGED <<texts, tuples, shape, interned>>
    BY <1>8 DEF WriteTextDict, PlaceDict, TextCount, builder_vars, store, record
  <2>2. g \in TextFields
    BY <1>1, <2>1, NextTextField DEF TextCount
  <2>3. \A f \in TextFields : text_slot(f) = n => f = g
    BY TextSlots
  <2>4. e.content.texts = texts[g]
    BY DEF BlobDict
  <2>5. /\ Padded(pos) \in Nat /\ pos <= Padded(pos)
        /\ serialized_size(g) \in Nat /\ Len(texts[g]) <= serialized_size(g)
        /\ Len(texts[g]) \in Nat
    <3>1. Padded(pos) \in Nat /\ pos <= Padded(pos)
      BY <1>1, PaddedNat
    <3>2. serialized_size(g) \in Nat /\ Len(texts[g]) <= serialized_size(g)
      BY <2>2, DictSize
    <3>3. Len(texts[g]) \in Nat
      BY <2>2 DEF TypeOK, TextFields
    <3> QED
      BY <3>1, <3>2, <3>3
  <2>6. pos <= pos' /\ Len(texts[g]) <= pos'
    BY <1>1, <2>1, <2>5
  <2> HIDE DEF e, g
  <2>7. Len(dicts') = n + 1 /\ dicts'[n + 1] = e /\ \A i \in 1..n : dicts'[i] = dicts[i]
    BY <1>1, <2>1, AppendAny
  <2>8. ASSUME NEW f \in TextFields, text_slot(f) < n + 1 PROVE TextsWritten(f)'
    <3>1. text_slot(f) \in Nat
      BY TextSlots
    <3>2. CASE text_slot(f) = n
      <4>1. f = g
        BY <2>3, <3>2
      <4>2. dicts'[text_slot(f) + 1].content.texts = texts'[f]
        BY <2>1, <2>4, <2>7, <3>2, <4>1
      <4> QED
        BY <1>2, <2>1, <2>6, <4>1, <4>2 DEF TextsWritten
    <3>3. CASE text_slot(f) # n
      <4>1. text_slot(f) < n /\ text_slot(f) + 1 \in 1..n
        BY <1>1, <2>8, <3>1, <3>3
      <4>2. TextsWritten(f) /\ Len(texts[f]) \in Nat
        BY <4>1 DEF DictsInv, TypeOK, TextFields
      <4>3. Len(texts[f]) <= pos'
        BY <1>1, <2>6, <4>2 DEF TextsWritten
      <4> QED
        BY <1>2, <2>1, <2>7, <4>1, <4>2, <4>3 DEF TextsWritten
    <3> QED
      BY <3>2, <3>3
  <2> QED
    BY <2>1, <2>7, <2>8 DEF DictsInv, text_slot
<1>9. CASE EndDictionaries
  <2> DEFINE n == Len(dicts)
             e == [entry |-> [offset |-> Padded(pos), size |-> FixedSize], content |-> FixedDict]
  <2>1. /\ wpc = "dictionaries" /\ n = TextCount
        /\ UNCHANGED <<texts, tuples, shape, interned>>
    BY <1>9 DEF EndDictionaries, TextCount, builder_vars, store, record
  <2>2. ASSUME pos <= pos', \A i \in 1..n : dicts'[i] = dicts[i], NEW f \in TextFields
        PROVE  TextsWritten(f)'
    <3>1. text_slot(f) \in Nat /\ text_slot(f) < n /\ text_slot(f) + 1 \in 1..n
      BY <1>1, <2>1, TextSlots DEF TextCount
    <3>2. TextsWritten(f) /\ Len(texts[f]) \in Nat
      BY <3>1 DEF DictsInv, TypeOK, TextFields
    <3>3. Len(texts[f]) <= pos'
      BY <1>1, <2>2, <3>2 DEF TextsWritten
    <3> QED
      BY <1>2, <2>1, <2>2, <3>1, <3>2, <3>3 DEF TextsWritten
  <2>3. CASE wpc' = "thrown" /\ UNCHANGED <<pos, dicts>>
    <3>1. pos <= pos'
      BY <1>1, <2>3
    <3> QED
      BY <1>5, <2>1, <2>3, <3>1
  <2>4. CASE ~interned /\ wpc' = "records" /\ pos' = Padded(pos) /\ UNCHANGED dicts
    <3>1. pos <= pos'
      BY <1>1, <2>4, PaddedNat
    <3>2. \A f \in TextFields : TextsWritten(f)'
      BY <2>2, <2>4, <3>1
    <3> QED
      BY <1>1, <2>1, <2>4, <3>2 DEF DictsInv
  <2>5. CASE /\ interned /\ wpc' = "records" /\ dicts' = Append(dicts, e)
             /\ pos' = Padded(Padded(pos) + FixedSize)
    <3>1. FixedSize \in Nat
      <4>1. ShapeTyped /\ priced \in [address_bytes : Nat, remap_savings : Nat]
        BY <2>1 DEF TypesInv
      <4> QED
        BY <4>1, PricesNat
    <3>2. Padded(pos) \in Nat /\ pos <= Padded(pos)
      BY <1>1, PaddedNat
    <3> DEFINE p == Padded(pos) + FixedSize
    <3>3. p \in Nat /\ pos <= p
      BY <1>1, <3>1, <3>2
    <3> HIDE DEF p
    <3>4. p <= Padded(p) /\ pos' = Padded(p) /\ Padded(p) \in Nat
      BY <2>5, <3>3, PaddedNat DEF p
    <3>5. pos <= pos'
      BY <1>1, <3>3, <3>4
    <3>6. e.content.elements = Elements
      BY DEF FixedDict, Elements
    <3> HIDE DEF e
    <3>7. Len(dicts') = n + 1 /\ dicts'[n + 1] = e /\ \A i \in 1..n : dicts'[i] = dicts[i]
      BY <1>1, <2>5, AppendAny
    <3>8. \A f \in TextFields : TextsWritten(f)'
      BY <2>2, <3>5, <3>7
    <3>9. TextCount' = TextCount /\ Elements' = Elements
      BY <1>3, <2>1 DEF TextCount
    <3> QED
      BY <1>1, <2>1, <2>5, <3>6, <3>7, <3>8, <3>9 DEF DictsInv
  <2> QED
    BY <1>9, <2>3, <2>4, <2>5 DEF EndDictionaries, PlaceDict, FixedSize
<1>10. CASE WriteRun
  <2>1. /\ UNCHANGED <<dicts, texts, tuples, shape, interned>> /\ wpc = "records"
        /\ wpc' \in {"records", "out_of_step"}
    BY <1>10 DEF WriteRun, builder_vars, store, record
  <2>2. pos <= pos'
    <3> DEFINE s == Slot(Run(row), ranges[Len(directory) + 1])
    <3>1. ShapeTyped /\ interned \in BOOLEAN
      BY <2>1 DEF TypesInv
    <3>2. row \in Nat /\ row < Len(Rows)
      BY <1>10, RowsAreCounted DEF WriteRun, WalkInv, RowsCounted
    <3>3. CASE Len(directory) < Len(ranges)
      <4>1. Len(directory) + 1 \in 1..Len(ranges)
        BY <3>3 DEF WalkInv, IsSequence
      <4>2. ranges[Len(directory) + 1].width \in Nat
        BY <4>1 DEF TypesInv, RangesTyped
      <4>3. SlotBytes(s) \in Nat
        BY <3>1, <3>2, <4>2, SlotIs
      <4>4. pos' = pos + SlotBytes(s)
        BY <1>10, <3>3 DEF WriteRun
      <4> HIDE DEF s
      <4> QED
        BY <1>1, <4>3, <4>4
    <3>4. CASE ~(Len(directory) < Len(ranges))
      BY <1>1, <1>10, <3>4 DEF WriteRun
    <3> QED
      BY <3>3, <3>4
  <2> QED
    BY <1>5, <2>1, <2>2
<1>11. CASE EndRecords
  <2>1. pos <= pos'
    BY <1>1, <1>11, PaddedNat DEF EndRecords
  <2>2. /\ UNCHANGED <<dicts, texts, tuples, shape, interned>> /\ wpc = "records"
        /\ wpc' \in {"directory", "out_of_step"}
    BY <1>11 DEF EndRecords, builder_vars, store, record
  <2> QED
    BY <1>5, <2>1, <2>2
<1>12. CASE WriteDirectory
  <2>1. pos <= pos'
    BY <1>12, ImageSizeNat
  <2>2. /\ UNCHANGED <<dicts, texts, tuples, shape, interned>> /\ wpc = "directory"
        /\ wpc' = "written"
    BY <1>12 DEF WriteDirectory, builder_vars, store, record
  <2> QED
    BY <1>5, <2>1, <2>2
<1>13. CASE SinkFails \/ UNCHANGED vars
  <2>1. /\ UNCHANGED <<dicts, texts, tuples, shape, interned, pos>>
        /\ wpc' = wpc \/ wpc' = "thrown"
    BY <1>13 DEF SinkFails, vars, writer_vars, output_vars, builder_vars, store, record
  <2> QED
    BY <1>1, <1>5, <2>1
<1> QED
  BY <1>6, <1>7, <1>8, <1>9, <1>10, <1>11, <1>12, <1>13 DEF Next, Writing

(* Record x of a slot refers to tuple t: inline, by its id, or through the *)
(* remap table of the slot.                                                *)
Refers(d, x, t) ==
    LET payload == d.block.records[x].payload
    IN  IF ~interned THEN payload = Elements[t]
        ELSE IF d.entry.schema_id = 0 THEN payload = t
        ELSE payload \in 0..(d.entry.remap_count - 1) /\ d.block.remap[payload] = t

(* Slot d refers to the tuples of the rows from k on.                      *)
Carries(d, k) ==
    \A x \in 0..(d.entry.count - 1) : Refers(d, x, Rows[k + x].tuple)

CarriedAt(k) == Carries(directory[RunsTo(k)], k)

(* The records of a slot refer to the tuples of their rows.                *)
CarriesInv == \A k \in Starts(row) : wpc \notin {"off", "measure"} => CarriedAt(k)

(* The ids of an interned image fit a word.                                *)
LEMMA IdsAreWords ==
    ASSUME TypeOK, tuple_count <= MaxDictEntries
    PROVE  tuple_count \in Nat /\ tuple_count \in Word
<1>1. RemapEntrySize \in 0..WordBytes /\ RemapEntrySize \in Nat /\ RemapEntrySize <= WordBytes
      /\ WordBytes \in Nat
  BY LayoutAssumption, WordAssumption
<1>2. Weight[RemapEntrySize] \in Nat /\ WordSize \in Nat
  BY <1>1, WeightNat
<1>3. Weight[RemapEntrySize] <= WordSize
  BY <1>1, WeightMonotone DEF WordSize
<1>4. tuple_count \in Nat
  BY DEF TypeOK, tuple_count
<1> QED
  BY <1>2, <1>3, <1>4 DEF MaxDictEntries, Word

(* The tuple of a staged row.                                              *)
LEMMA RowTuple ==
    ASSUME TypeOK, NEW k \in 1..Len(Rows)
    PROVE  Rows[k].tuple \in 0..(tuple_count - 1)
<1>1. Rows[k] \in RowType(staging.kind, Len(tuples))
  BY DEF TypeOK, Rows
<1>2. CASE staging.kind = "memory"
  BY <1>1, <1>2 DEF RowType, tuple_count
<1>3. CASE staging.kind # "memory"
  BY <1>1, <1>3 DEF RowType, tuple_count
<1> QED
  BY <1>2, <1>3

(* The slot that WriteRun makes of a run refers to the tuples of its rows. *)
LEMMA SlotCarries ==
    ASSUME TypeOK, ShapeTyped, ShapeMeasured, interned \in BOOLEAN,
           interned => tuple_count <= MaxDictEntries,
           NEW i \in Nat, i < Len(Rows), NEW range
    PROVE  Carries(Slot(Run(i), range), i + 1)
<1> DEFINE s == Slot(Run(i), range)
           n == RunEnd(i) - i
           D == Cardinality(TuplesIn(Run(i)))
           p == plan_remap(options.remap, ref_width, D, n)
           remapped == interned /\ p.local # 0
           width == IF remapped THEN p.local ELSE ref_width
           payload(t) == IF ~interned THEN encode_tuple(t)
                         ELSE store_uint(width, IF remapped THEN LocalIndex(Run(i), t) ELSE t)
<1>1. RowsCounted /\ Len(Rows) \in Nat
  BY RowsAreCounted DEF RowsCounted
<1>2. /\ Min(Run(i)) = i + 1 /\ Cardinality(Run(i)) = n /\ n \in Nat /\ D \in Nat
      /\ Run(i) \in SUBSET (1..Len(Rows)) /\ Run(i) = (i + 1)..RunEnd(i) /\ RunEnd(i) \in Nat
  <2>1. RunEnd(i) \in (i + 1)..Len(Rows)
    BY <1>1, RunEndIs
  <2> QED
    BY <1>1, <2>1, RunIs DEF Run
<1>3. /\ s.entry.count = n
      /\ s.entry.schema_id = IF remapped THEN p.local ELSE 0
      /\ s.entry.remap_count = IF remapped THEN D ELSE 0
      /\ s.block.remap = IF remapped THEN RemapTable(Run(i)) ELSE <<>>
  BY <1>2 DEF Slot
<1>4. \A x \in 0..(n - 1) : s.block.records[x].payload = payload(Rows[(i + 1) + x].tuple)
  <2>1. s.block.records = [x \in 0..(n - 1) |->
            [value |-> s.block.records[x].value, bytes |-> s.block.records[x].bytes,
             payload |-> payload(Rows[(i + 1) + x].tuple)]]
    BY <1>2 DEF Slot
  <2> HIDE DEF s, payload
  <2> QED
    BY <2>1
<1>5. D \in 0..tuple_count /\ (p.local # 0 => p.local = width_for(D - 1))
  <2>1. Describes(s, range, i + 1)
    BY SlotDescribes
  <2>2. \/ p = [local |-> 0, savings |-> 0]
        \/ p.local = width_for(D - 1)
    BY DEF plan_remap
  <2>3. TuplesIn(Run(i)) \subseteq 0..(tuple_count - 1)
    BY <1>2, RowTuple DEF TuplesIn
  <2>4. tuple_count \in Nat
    BY DEF TypeOK, tuple_count
  <2>5. IsFiniteSet(0..(tuple_count - 1)) /\ Cardinality(0..(tuple_count - 1)) = tuple_count
    <3> DEFINE m == tuple_count
    <3>0. m \in Nat
      BY <2>4
    <3> HIDE DEF m
    <3>1. CASE m = 0
      BY <3>1, FS_EmptySet DEF m
    <3>2. CASE m # 0
      <4>1. 0 \in Int /\ m - 1 \in Int /\ 0 <= m - 1 /\ (m - 1) - 0 + 1 = m
        BY <3>0, <3>2
      <4>2. IsFiniteSet(0..(m - 1)) /\ Cardinality(0..(m - 1)) = m
        BY <4>1, FS_Interval
      <4> QED
        BY <4>2 DEF m
    <3> QED
      BY <3>1, <3>2
  <2>6. D <= tuple_count
    <3> DEFINE T == TuplesIn(Run(i))  S == 0..(tuple_count - 1)
    <3>1. T \in SUBSET S /\ IsFiniteSet(S) /\ Cardinality(S) = tuple_count
      BY <2>3, <2>5
    <3> HIDE DEF T, S
    <3>2. Cardinality(T) <= Cardinality(S)
      BY <3>1, FS_Subset
    <3> QED
      BY <3>1, <3>2 DEF T
  <2> HIDE DEF p, D
  <2>7. p.local # 0 => p.local = width_for(D - 1)
    BY <2>2
  <2> QED
    BY <1>2, <2>4, <2>6, <2>7
<1> SUFFICES ASSUME NEW x \in 0..(n - 1) PROVE Refers(s, x, Rows[(i + 1) + x].tuple)
  BY <1>3 DEF Carries
<1> DEFINE k == (i + 1) + x  t == Rows[k].tuple
<1>6. k \in Run(i) /\ k \in 1..Len(Rows)
  BY <1>2
<1>7. t \in 0..(tuple_count - 1) /\ t \in TuplesIn(Run(i))
  <2> HIDE DEF k
  <2> QED
    BY <1>6, RowTuple DEF TuplesIn
<1>8. s.block.records[x].payload = payload(t)
  BY <1>4
<1> HIDE DEF t
<1>9. CASE ~interned
  <2>1. Elements[t] = encode_tuple(t)
    BY <1>7 DEF Elements
  <2> HIDE DEF s
  <2> QED
    BY <1>8, <1>9, <2>1 DEF Refers, t
<1>10. ASSUME interned, NEW m \in 0..tuple_count, m # 0, NEW v \in 0..(m - 1)
       PROVE  store_uint(width_for(m - 1), v) = v
  <2>1. tuple_count \in Nat /\ tuple_count \in Word /\ WordSize \in Nat
    BY <1>10, IdsAreWords, WordFacts
  <2>2. m - 1 \in Word
    BY <1>10, <2>1 DEF Word
  <2> DEFINE a == m - 1
  <2>3. a \in Word /\ v \in 0..a
    BY <2>2
  <2> HIDE DEF a
  <2>4. store_uint(width_for(a), v) = v
    BY <2>3, WidthHolds
  <2> QED
    BY <2>4 DEF a
<1>11. CASE interned /\ ~remapped
  <2>1. payload(t) = store_uint(ref_width, t)
    BY <1>11
  <2>2. ref_width = width_for(Max({0, tuple_count - 1})) /\ tuple_count \in Nat
    BY DEF ShapeMeasured, TypeOK, tuple_count
  <2> DEFINE m == tuple_count - 1
  <2>3. m \in Nat /\ tuple_count # 0 /\ tuple_count \in 0..tuple_count
    BY <1>7, <2>2
  <2>4. Max({0, m}) = m
    <3>1. m \in Nat /\ {0, m} \in SUBSET (0..m) /\ {0, m} # {}
      BY <2>3
    <3> HIDE DEF m
    <3>2. Max({0, m}) \in {0, m} /\ m <= Max({0, m})
      BY <3>1, MaxOfNats
    <3> QED
      BY <3>1, <3>2
  <2>5. store_uint(width_for(m), t) = t
    BY <1>7, <1>10, <1>11, <2>3
  <2>6. s.block.records[x].payload = t
    BY <1>8, <2>1, <2>2, <2>4, <2>5
  <2>7. s.entry.schema_id = 0
    BY <1>3, <1>11
  <2> HIDE DEF s
  <2> QED
    BY <1>11, <2>6, <2>7 DEF Refers, t
<1>12. CASE interned /\ remapped
  <2> DEFINE l == LocalIndex(Run(i), t)
  <2>1. l \in 0..(D - 1) /\ RemapTable(Run(i))[l] = t
    BY <1>1, <1>2, <1>7, RemapBack
  <2> HIDE DEF l, D
  <2>2. D # 0
    BY <1>5, <2>1
  <2>3. store_uint(width_for(D - 1), l) = l
    BY <1>5, <1>10, <1>12, <2>1, <2>2
  <2>4. payload(t) = store_uint(p.local, l)
    BY <1>12 DEF l
  <2>5. s.block.records[x].payload = l
    <3>1. p.local = width_for(D - 1)
      BY <1>5, <1>12
    <3> HIDE DEF p, payload, s
    <3> QED
      BY <1>8, <2>3, <2>4, <3>1
  <2>6. s.entry.schema_id # 0 /\ s.entry.remap_count = D /\ s.block.remap = RemapTable(Run(i))
    BY <1>3, <1>12 DEF D
  <2> HIDE DEF s
  <2> QED
    BY <1>12, <2>1, <2>5, <2>6 DEF Refers, t
<1> QED
  BY <1>9, <1>11, <1>12

(* A slot keeps carrying what it does.                                     *)
LEMMA CarriedStays ==
    ASSUME UNCHANGED <<staging, tuples, shape, interned>>,
           NEW k, Carries(directory'[RunsTo(k)], k)
    PROVE  CarriedAt(k)'
<1>1. RunsTo(k)' = RunsTo(k) /\ Rows' = Rows /\ Elements' = Elements
  BY SameWalk, SameEncoding DEF Rows, Elements, tuple_count
<1> QED
  BY <1>1 DEF CarriedAt, Carries, Refers

(* Every step keeps it: a slot is written with the tuples and the remap    *)
(* plan of its own run.                                                    *)
LEMMA NextCarries ==
    TypeOK /\ WalkInv /\ TypesInv /\ ShapeInv /\ SlotsInv /\ CarriesInv /\ [Next]_vars
    => CarriesInv'
<1> SUFFICES ASSUME TypeOK, WalkInv, TypesInv, ShapeInv, SlotsInv, CarriesInv, [Next]_vars
             PROVE  CarriesInv'
  OBVIOUS
<1>1. RowsCounted /\ Len(Rows) \in Nat
  BY RowsAreCounted DEF RowsCounted
<1>2. CASE wpc' \in {"off", "measure"}
  BY <1>2 DEF CarriesInv
<1>3. CASE Price
  <2>1. row' = 0
    BY <1>3 DEF Price
  <2>2. Starts(0)' = {}
    BY DEF Starts
  <2> QED
    BY <2>1, <2>2 DEF CarriesInv, Starts
<1>4. CASE /\ UNCHANGED <<staging, tuples, shape, interned, directory, row>>
           /\ wpc \notin {"off", "measure"}
  <2>1. /\ \A i : Starts(i)' = Starts(i) /\ RunsTo(i)' = RunsTo(i)
    BY <1>4 DEF Starts, RunsTo, PartitionOfRow, KeyOfRow, Rows
  <2>2. ASSUME NEW k \in Starts(row) PROVE CarriedAt(k)'
    <3>1. Carries(directory'[RunsTo(k)], k)
      BY <1>4, <2>2 DEF CarriesInv, CarriedAt
    <3> QED
      BY <1>4, <3>1, CarriedStays
  <2> QED
    BY <1>4, <2>1, <2>2 DEF CarriesInv
<1>5. CASE WriteRun
  <2> DEFINE e == RunEnd(row)  m == Len(directory)  r == ranges[m + 1]
             s == Slot(Run(row), r)
  <2>1. /\ UNCHANGED <<staging, tuples, shape, interned>>
        /\ wpc = "records" /\ row < Len(Rows)
    BY <1>5 DEF WriteRun, builder_vars, store, world
  <2>2. row \in Nat /\ AtBoundary(row) /\ IsSequence(directory) /\ m = RunsTo(row) /\ m \in Nat
        /\ Len(ranges) = RunsTo(Len(Rows))
    BY <1>1, <2>1 DEF WalkInv, IsSequence
  <2>3. /\ Starts(e) = Starts(row) \cup {row + 1}
        /\ RunsTo(row) < RunsTo(Len(Rows))
    BY <1>1, <2>1, <2>2, OneRunFurther
  <2>4. RunsTo(row + 1) = m + 1 /\ \A k \in Starts(row) : RunsTo(k) \in 1..m
    BY <1>1, <2>1, <2>2, RunNumbers
  <2>5. m < Len(ranges)
    BY <2>2, <2>3
  <2>6. directory' = Append(directory, s) /\ row' = e /\ wpc' = wpc
    BY <1>5, <2>5 DEF WriteRun
  <2>7. Carries(s, row + 1)
    <3>1. /\ ShapeTyped /\ ShapeMeasured /\ interned \in BOOLEAN
          /\ interned => tuple_count <= MaxDictEntries
      BY <2>1 DEF TypesInv, ShapeInv, SlotsInv
    <3> QED
      BY <2>1, <2>2, <3>1, SlotCarries
  <2> HIDE DEF s
  <2>8. directory'[m + 1] = s /\ \A i \in 1..m : directory'[i] = directory[i]
    BY <2>2, <2>6, AppendAny
  <2>9. ASSUME NEW k \in Starts(e)
        PROVE  Carries(directory'[RunsTo(k)], k)
    <3>1. CASE k \in Starts(row)
      <4>1. CarriedAt(k)
        BY <2>1, <3>1 DEF CarriesInv
      <4> QED
        BY <2>4, <2>8, <3>1, <4>1 DEF CarriedAt
    <3>2. CASE k = row + 1
      BY <2>4, <2>7, <2>8, <3>2
    <3> QED
      BY <2>3, <3>1, <3>2
  <2>10. Starts(row)' = Starts(e)
    BY <2>1, <2>6 DEF Starts, PartitionOfRow, KeyOfRow, Rows
  <2>11. \A k \in Starts(row)' : CarriedAt(k)'
    BY <2>1, <2>9, <2>10, CarriedStays
  <2> QED
    BY <2>11 DEF CarriesInv
<1>6. CASE EndDictionaries \/ WriteTextDict \/ EndRecords \/ WriteDirectory \/ SinkFails
  BY <1>4, <1>6 DEF EndDictionaries, WriteTextDict, EndRecords, WriteDirectory, SinkFails,
                    builder_vars, store, output_vars
<1>7. CASE StartLayout \/ MeasureRun
  BY <1>2, <1>7 DEF StartLayout, MeasureRun
<1>8. CASE Consume
  <2>1. wpc' = "off"
    BY <1>8 DEF Consume, WalkInv, writer_vars
  <2> QED
    BY <1>2, <2>1
<1>9. CASE UNCHANGED vars
  <2>1. CASE wpc \in {"off", "measure"}
    BY <1>2, <1>9, <2>1 DEF vars, writer_vars
  <2>2. CASE wpc \notin {"off", "measure"}
    BY <1>4, <1>9, <2>2 DEF vars, writer_vars, output_vars, builder_vars, store
  <2> QED
    BY <2>1, <2>2
<1> QED
  BY <1>3, <1>5, <1>6, <1>7, <1>8, <1>9 DEF Next, Writing

(* What the schema and the dictionaries of the finished file say.          *)
ContentsAs(f) ==
    /\ f.schema.fields = shape.descs
    /\ f.schema.mode = IF interned THEN "interned" ELSE "inline"
    /\ interned => f.schema.value_dict = TextCount
    /\ f.schema.address_span =
          IF mode \in {"explicit", "explicit_wide"} THEN 0 ELSE AddressSpan
    /\ f.dicts = [i \in 0..(Len(dicts) - 1) |-> dicts[i + 1].content]

ContentsInv == file # None => ContentsAs(file[1])

(* Every step keeps it: only WriteDirectory makes a file.                  *)
LEMMA NextContents == FileInv /\ WalkInv /\ ContentsInv /\ [Next]_vars => ContentsInv'
<1> SUFFICES ASSUME FileInv, WalkInv, ContentsInv, [Next]_vars PROVE ContentsInv'
  OBVIOUS
<1>1. CASE WriteDirectory
  <2> DEFINE f == file'[1]
  <2>1. UNCHANGED <<mode, shape, interned, dicts>>
    BY <1>1 DEF WriteDirectory, builder_vars, world
  <2>2. /\ f.schema = Schema(Widths)
        /\ f.dicts = [i \in 0..(Len(dicts) - 1) |-> dicts[i + 1].content]
    BY <1>1 DEF WriteDirectory, Some, Widths, UsesDense
  <2>3. ContentsAs(f)
    BY <2>2 DEF ContentsAs, Schema, TextCount
  <2> HIDE DEF f
  <2>4. TextCount' = TextCount
    BY DEF TextCount
  <2>5. ContentsAs(file[1])' <=> ContentsAs(f)
    BY <2>1, <2>4 DEF ContentsAs, f
  <2> QED
    BY <2>3, <2>5 DEF ContentsInv
<1>2. CASE UNCHANGED <<file, mode, shape, interned, dicts>>
  BY <1>2 DEF ContentsInv, ContentsAs, TextCount
<1>3. CASE wpc # "written" /\ file' = file
  <2>1. file = None
    BY <1>3 DEF FileInv
  <2> QED
    BY <1>3, <2>1 DEF ContentsInv
<1>4. CASE Consume
  <2>1. wpc = "off" /\ file' = file
    BY <1>4 DEF Consume, WalkInv, writer_vars
  <2> QED
    BY <1>3, <2>1
<1>5. CASE StartLayout \/ MeasureRun \/ Price \/ WriteTextDict \/ EndDictionaries \/ WriteRun
           \/ EndRecords \/ SinkFails
  BY <1>3, <1>5
     DEF StartLayout, MeasureRun, Price, WriteTextDict, EndDictionaries, WriteRun, EndRecords,
         SinkFails, output_vars
<1>6. CASE UNCHANGED vars
  BY <1>2, <1>6 DEF vars, writer_vars, output_vars, builder_vars, world
<1> QED
  BY <1>1, <1>4, <1>5, <1>6 DEF Next, Writing

----------------------------------------------------------------------------
(* Reading the file back.                                                  *)

(* Slot s of the file is the i-th written, that of the run from row k on.  *)
SlotHolds(s, i, k) ==
    /\ s \in DOMAIN Out /\ i \in 1..Len(directory) /\ k \in 1..Len(Rows)
    /\ Out[s] = directory[i].entry
    /\ file[1].blocks[Out[s].offset] = directory[i].block
    /\ k \in Starts(Len(Rows)) /\ i = RunsTo(k)
    /\ Describes(directory[i], ranges[i], k) /\ Covers(ranges[i], Run(k - 1))

(* Record x of slot s is that of row n.                                    *)
RowAt(s, x, n) ==
    \E i \in 1..Len(directory), k \in 1..Len(Rows) :
        /\ SlotHolds(s, i, k)
        /\ x \in 0..(directory[i].entry.count - 1) /\ n = k + x

(* Every record is that of a row.                                          *)
LEMMA RecordsHaveRows ==
    ASSUME Finished, NEW s \in DOMAIN Out, NEW x \in 0..(Out[s].count - 1)
    PROVE  \E n \in 1..Len(Rows) : RowAt(s, x, n)
<1>1. Out[s].count # 0
  <2>1. EntryTyped(Out[s])
    BY SlotsOfFile
  <2>2. Out[s].count \in Nat
    BY <2>1 DEF EntryTyped, Word
  <2> QED
    BY <2>2
<1>2. PICK i \in DOMAIN directory : /\ Out[s] = directory[i].entry
                                    /\ file[1].blocks[Out[s].offset] = directory[i].block
  BY <1>1, BlocksFound
<1>3. i \in 1..Len(directory)
  BY FinishedIs
<1>4. PICK k \in Starts(Len(Rows)) : /\ i = RunsTo(k) /\ k \in 1..Len(Rows)
                                     /\ Describes(directory[i], ranges[i], k)
                                     /\ Covers(ranges[i], Run(k - 1))
  BY <1>3, SlotOfRun
<1>5. SlotHolds(s, i, k)
  BY <1>2, <1>3, <1>4 DEF SlotHolds
<1>6. RecordOf(i, k, x)
  BY <1>2, <1>3, <1>4, RecordsOfRun
<1>7. k + x \in 1..Len(Rows) /\ x \in 0..(directory[i].entry.count - 1)
  BY <1>2, <1>6 DEF RecordOf
<1> QED
  BY <1>3, <1>4, <1>5, <1>7 DEF RowAt

(* The run that a row is in starts at the last start up to it.             *)
LEMMA RunOfRow ==
    ASSUME Finished, NEW n \in 1..Len(Rows)
    PROVE  \E k \in Starts(Len(Rows)) :
              k \in 1..n /\ n - k \in 0..((RunEnd(k - 1) - (k - 1)) - 1)
<1> DEFINE S == Starts(n)  k == Max(S)  e == RunEnd(k - 1)
<1>1. RowsCounted /\ Len(Rows) \in Nat /\ n \in Nat /\ n <= Len(Rows)
  BY FinishedIs
<1>2. S \in SUBSET (0..n) /\ 1 \in S
  BY <1>1 DEF Starts
<1>3. k \in S /\ \A y \in S : y <= k
  BY <1>1, <1>2, MaxOfNats
<1>4. k \in 1..n /\ k \in Starts(Len(Rows))
  BY <1>1, <1>3 DEF Starts
<1> HIDE DEF k
<1>5. k - 1 \in Nat /\ k - 1 < Len(Rows) /\ (k - 1) + 1 = k
  BY <1>1, <1>4
<1>6. e \in ((k - 1) + 1)..Len(Rows) /\ AtBoundary(e)
  BY <1>1, <1>5, RunEndIs
<1>7. e \in Nat /\ k <= e
  BY <1>1, <1>5, <1>6
<1> HIDE DEF e
<1>8. n <= e
  <2> SUFFICES ASSUME e < n PROVE FALSE
    BY <1>1, <1>7
  <2>1. e + 1 \in Starts(e + 1)
    BY <1>1, <1>6 DEF AtBoundary
  <2>2. e + 1 \in 1..n
    BY <1>1, <1>7
  <2>3. e + 1 \in S
    BY <2>1, <2>2 DEF Starts
  <2>4. e + 1 <= k
    BY <1>3, <2>3
  <2> QED
    BY <1>1, <1>4, <1>7, <2>4
<1>9. n - k \in 0..((e - (k - 1)) - 1)
  BY <1>1, <1>4, <1>7, <1>8
<1> QED
  BY <1>4, <1>9 DEF e

(* Every slot written is one of the file.                                  *)
LEMMA SlotInFile ==
    ASSUME Finished, NEW i \in 1..Len(directory)
    PROVE  \E s \in DOMAIN Out : Out[s] = directory[i].entry
<1>0. i = Len(directory) \/ i < Len(directory)
  <2>1. Len(directory) \in Nat
    BY FinishedIs
  <2> QED
    BY <2>1
<1>1. /\ Len(directory) \in Nat /\ DOMAIN directory = 1..Len(directory)
      /\ WalkInv /\ DirectoryTyped
  BY FinishedIs DEF Finished
<1>2. \A j \in DOMAIN directory : Entries[j] = directory[j].entry
  BY DirectoryOfWords
<1>3. CASE ~UsesDense
  <2>1. Out = [s \in 0..(Len(directory) - 1) |-> Entries[s + 1]]
    BY <1>3 DEF Out, SlotsOut
  <2>2. i - 1 \in 0..(Len(directory) - 1) /\ (i - 1) + 1 = i
    BY <1>1
  <2>3. Out[i - 1] = Entries[(i - 1) + 1] /\ i - 1 \in DOMAIN Out
    BY <2>1, <2>2
  <2> QED
    BY <1>1, <1>2, <2>2, <2>3
<1>4. CASE UsesDense
  <2> DEFINE p == Entries[i].partition  q == WrittenPartitions[Len(directory)]
  <2>1. Out = DenseSlots
    BY <1>4 DEF Out, SlotsOut
  <2>2. Len(directory) \in 1..Len(directory)
    BY <1>1
  <2>3. p = directory[i].entry.partition /\ q = directory[Len(directory)].entry.partition
    BY <1>1, <1>2, <2>2 DEF WrittenPartitions
  <2>4. p \in Nat /\ q \in Nat
    <3>1. EntryTyped(directory[i].entry) /\ EntryTyped(directory[Len(directory)].entry)
      BY <2>2, SlotFits
    <3> QED
      BY <2>3, <3>1, WeightNat DEF EntryTyped, Word
  <2>5. p <= q
    <3>1. CASE i = Len(directory)
      BY <2>3, <2>4, <3>1
    <3>2. CASE i < Len(directory)
      <4>1. p < q
        BY <2>2, <2>3, <3>2, SlotsRise
      <4> QED
        BY <2>4, <4>1
    <3> HIDE DEF p, q
    <3> QED
      BY <1>0, <3>1, <3>2
  <2>6. DOMAIN DenseSlots = 0..q
    BY DEF DenseSlots
  <2>7. p \in DOMAIN Out
    BY <2>1, <2>4, <2>5, <2>6
  <2> DEFINE j == CHOOSE y \in DOMAIN directory : Entries[y].partition = p
  <2>8. j \in DOMAIN directory /\ Entries[j].partition = p
    BY <1>1
  <2>9. Out[p] = Entries[j]
    BY <1>1, <2>1, <2>6, <2>7 DEF DenseSlots
  <2>10. j = i
    <3> HIDE DEF j
    <3>1. j \in 1..Len(directory) /\ directory[j].entry.partition = p
      BY <1>1, <1>2, <2>8
    <3>2. ~(i < j) /\ ~(j < i)
      BY <2>3, <2>4, <3>1, SlotsRise
    <3> QED
      BY <1>1, <3>1, <3>2
  <2> QED
    BY <1>1, <1>2, <2>7, <2>9, <2>10
<1> QED
  BY <1>3, <1>4

(* Every row has a record in some slot.                                    *)
LEMMA RowsHaveRecords ==
    ASSUME Finished, NEW n \in 1..Len(Rows)
    PROVE  \E s \in DOMAIN Out, x \in Nat : RowAt(s, x, n)
<1>1. PICK k \in Starts(Len(Rows)) :
         k \in 1..n /\ n - k \in 0..((RunEnd(k - 1) - (k - 1)) - 1)
  BY RunOfRow
<1> DEFINE i == RunsTo(k)
<1>2. /\ RowsCounted /\ Len(Rows) \in Nat /\ row = Len(Rows) /\ n \in Nat
      /\ Len(directory) = RunsTo(Len(Rows)) /\ AtBoundary(Len(Rows))
      /\ DOMAIN directory = 1..Len(directory)
  BY FinishedIs DEF Finished, WalkInv, AtBoundary
<1>3. k \in 1..Len(Rows)
  BY <1>1, <1>2
<1>4. i \in 1..Len(directory)
  BY <1>1, <1>2, RunNumbers
<1>5. DescribedAt(k)
  BY <1>1, <1>2 DEF Finished, SlotsInv
<1>6. CoveredAt(k)
  BY <1>1, <1>2 DEF Finished, RangesInv
<1>7. PICK s \in DOMAIN Out : Out[s] = directory[i].entry
  BY <1>4, SlotInFile
<1>8. file[1].blocks[Out[s].offset] = directory[i].block
  BY <1>2, <1>4, <1>7, BlockOf, DirectoryOfWords
<1>9. SlotHolds(s, i, k)
  BY <1>1, <1>3, <1>4, <1>5, <1>6, <1>7, <1>8 DEF SlotHolds, DescribedAt, CoveredAt
<1>10. n - k \in 0..(directory[i].entry.count - 1)
  BY <1>1, <1>5 DEF DescribedAt, Describes
<1>11. k + (n - k) = n /\ n - k \in Nat
  BY <1>1, <1>2
<1>12. RowAt(s, n - k, n)
  BY <1>3, <1>4, <1>9, <1>10, <1>11 DEF RowAt
<1> QED
  BY <1>7, <1>11, <1>12

(* What table finds in a slot is what was written there.                   *)
LEMMA SlotAttached ==
    ASSUME Finished, NEW m, m = Attach(file[1]), NEW s, NEW i, NEW k, SlotHolds(s, i, k)
    PROVE  /\ m.address_width = address_width
           /\ slot_partition(m, s) = PartitionOfRow(k)
           /\ slot_count(m, s) = directory[i].entry.count
           /\ m.dir[s].skip = ranges[i].skip /\ m.dir[s].width = ranges[i].width
           /\ m.dir[s].schema_id = directory[i].entry.schema_id
           /\ m.dir[s].remap_count = directory[i].entry.remap_count
           /\ m.dir[s].records = directory[i].block.records
           /\ m.dir[s].remap = directory[i].block.remap
<1> DEFINE f == file[1]  e == dir_slot(f, s)
<1>1. /\ s \in DOMAIN Out /\ i \in 1..Len(directory) /\ k \in 1..Len(Rows)
      /\ Out[s] = directory[i].entry
      /\ f.blocks[Out[s].offset] = directory[i].block
      /\ Describes(directory[i], ranges[i], k)
  BY DEF SlotHolds
<1>2. directory[i].entry.count # 0
  BY <1>1, SlotFits
<1>3. /\ e.partition = (IF UsesDense THEN s ELSE Out[s].partition)
      /\ e.offset = Out[s].offset /\ e.count = Out[s].count
      /\ e.schema_id = Out[s].schema_id /\ e.remap_count = Out[s].remap_count
      /\ e.width = Out[s].width /\ e.skip = Out[s].skip
  BY <1>1, SlotReads
<1>4. /\ f.foot.dense = UsesDense /\ f.foot.dir_count = Cardinality(DOMAIN Out)
      /\ f.schema.address_width = uint8(address_width)
  BY FinishedIs DEF FileWritten, WrittenAs
<1>5. /\ m.address_width = f.schema.address_width /\ m.dense = f.foot.dense
      /\ m.dir = [x \in 0..(f.foot.dir_count - 1) |-> AttachedSlot(f, dir_slot(f, x))]
  BY AttachIs
<1>6. s \in 0..(f.foot.dir_count - 1)
  BY <1>1, <1>4, SlotsOfFile
<1>7. m.dir[s] = AttachedSlot(f, e)
  BY <1>5, <1>6
<1>8. /\ m.dir[s].partition = e.partition /\ m.dir[s].count = e.count
      /\ m.dir[s].width = e.width /\ m.dir[s].skip = e.skip
      /\ m.dir[s].schema_id = e.schema_id /\ m.dir[s].remap_count = e.remap_count
      /\ m.dir[s].records = f.blocks[e.offset].records
      /\ m.dir[s].remap = f.blocks[e.offset].remap
  <2>1. e.count # 0
    BY <1>1, <1>2, <1>3
  <2> HIDE DEF e, f
  <2> QED
    BY <1>7, <2>1 DEF AttachedSlot
<1>9. UsesDense => Out[s].partition = s
  BY <1>1, <1>2, SlotsOfFile
<1>10. m.address_width = address_width
  BY <1>4, <1>5, FinishedIs, Uint8Same
<1>11. slot_partition(m, s) = directory[i].entry.partition
  BY <1>1, <1>3, <1>4, <1>5, <1>8, <1>9 DEF slot_partition
<1> QED
  BY <1>1, <1>3, <1>8, <1>10, <1>11 DEF Describes, slot_count

(* The address of a narrow record is put back together.                    *)
LEMMA NarrowAddress ==
    ASSUME Finished, ~wide, NEW m, m = Attach(file[1]), NEW s, NEW i, NEW k, SlotHolds(s, i, k),
           NEW x \in 0..(directory[i].entry.count - 1)
    PROVE  address_at(m, s, x) = KeyOfRow(k + x).value
<1> DEFINE range == ranges[i]  v == KeyOfRow(k + x).value  d == m.dir[s]
<1>1. /\ d.skip = range.skip /\ d.records = directory[i].block.records
  BY SlotAttached
<1>2. /\ i \in 1..Len(directory) /\ k \in 1..Len(Rows)
      /\ Describes(directory[i], range, k) /\ Covers(range, Run(k - 1))
  BY DEF SlotHolds
<1>3. RecordOf(i, k, x)
  BY <1>2, RecordsOfRun
<1>4. d.records[x].value = StoredValue(range, v)
  BY <1>1, <1>3 DEF RecordOf, StoredAddress, StoredValue
<1>5. /\ range.skip \in Nat /\ range.width \in Nat /\ range.skip + range.width <= address_width
      /\ v < Weight[range.skip + range.width] /\ v % Weight[range.skip] = 0
  BY <1>2, <1>3 DEF Covers, RecordOf
<1>6. /\ address_width <= WordBytes /\ address_width \in Nat /\ WordBytes \in Nat
  BY FinishedIs, WeightNat
<1>7. range.skip + range.width <= WordBytes
  BY <1>5, <1>6
<1>8. v \in Nat /\ v < WordSize /\ WordSize \in Nat
  <2>1. v \in Word
    BY <1>3, RowKeys DEF RecordOf, Finished
  <2> QED
    BY <2>1, WeightNat DEF Word
<1>9. StoredValue(range, v) * Weight[range.skip] = v
  BY <1>5, <1>7, <1>8, StoredExactly
<1>10. CASE range.skip >= WordBytes
  <2>1. StoredValue(range, v) = 0
    BY <1>10 DEF StoredValue
  <2>2. Weight[range.skip] \in Nat
    BY <1>5, <1>6, <1>7, WeightNat
  <2>3. v = 0
    BY <1>9, <2>1, <2>2
  <2> QED
    BY <1>1, <1>10, <2>3 DEF address_at
<1>11. CASE ~(range.skip >= WordBytes)
  <2>1. address_at(m, s, x) = (d.records[x].value * Weight[d.skip]) % WordSize
    BY <1>1, <1>11 DEF address_at
  <2>2. d.records[x].value * Weight[d.skip] = v
    BY <1>1, <1>4, <1>9
  <2>3. v % WordSize = v
    BY <1>8
  <2> QED
    BY <2>1, <2>2, <2>3
<1> QED
  BY <1>10, <1>11

(* So is the address of a wide one.                                        *)
LEMMA WideAddress ==
    ASSUME Finished, LongAddresses, wide, NEW m, m = Attach(file[1]),
           NEW s, NEW i, NEW k, SlotHolds(s, i, k),
           NEW x \in 0..(directory[i].entry.count - 1)
    PROVE  address_into_at(m, s, x) = KeyOfRow(k + x).bytes
<1> DEFINE range == ranges[i]  bytes == KeyOfRow(k + x).bytes  d == m.dir[s]
<1>1. /\ d.skip = range.skip /\ d.width = range.width
      /\ d.records = directory[i].block.records /\ m.address_width = address_width
  BY SlotAttached
<1>2. /\ i \in 1..Len(directory) /\ k \in 1..Len(Rows)
      /\ Describes(directory[i], range, k) /\ Covers(range, Run(k - 1))
  BY DEF SlotHolds
<1>3. RecordOf(i, k, x)
  BY <1>2, RecordsOfRun
<1>4. address_width \in Nat /\ ~(address_width <= WordBytes) /\ address_width = wide_width
  BY FinishedIs, WeightNat DEF ShapeTyped
<1>5. d.records[x].bytes = [b \in 1..range.width |-> bytes[range.skip + b]]
  BY <1>1, <1>3, <1>4 DEF RecordOf, StoredAddress
<1>6. bytes \in [1..address_width -> Byte]
  <2>1. KeyOfRow(k + x) \in KeySpace(KeyWidth)
    BY <1>3, RowKeys DEF RecordOf, Finished
  <2> QED
    BY <1>4, <2>1 DEF KeySpace, KeyWidth
<1>7. /\ range.skip \in Nat /\ range.width \in Nat
      /\ \A b \in 1..address_width :
            bytes[b] # 0 => b \in (range.skip + 1)..(range.skip + range.width)
  BY <1>2, <1>3 DEF Covers, RecordOf
<1>8. address_into_at(m, s, x) =
        [b \in 1..address_width |->
            IF b - range.skip \in 1..range.width THEN d.records[x].bytes[b - range.skip] ELSE 0]
  BY <1>1 DEF address_into_at
<1>9. ASSUME NEW b \in 1..address_width
      PROVE  (IF b - range.skip \in 1..range.width
              THEN d.records[x].bytes[b - range.skip] ELSE 0) = bytes[b]
  <2>0. b \in Nat
    BY <1>4
  <2>1. CASE b - range.skip \in 1..range.width
    <3>1. d.records[x].bytes[b - range.skip] = bytes[range.skip + (b - range.skip)]
      BY <1>5, <2>1
    <3>2. range.skip + (b - range.skip) = b
      BY <1>7, <2>0
    <3> QED
      BY <2>1, <3>1, <3>2
  <2>2. CASE b - range.skip \notin 1..range.width
    <3>1. b \notin (range.skip + 1)..(range.skip + range.width)
      BY <1>7, <2>0, <2>2
    <3> QED
      BY <1>7, <2>2, <3>1
  <2> QED
    BY <2>1, <2>2
<1> QED
  BY <1>6, <1>8, <1>9

(* A record is in a slot of the partition of its row.                      *)
LEMMA RowPlaced ==
    ASSUME Finished, NEW m, m = Attach(file[1]), NEW s, NEW x, NEW n, RowAt(s, x, n)
    PROVE  n \in 1..Len(Rows) /\ slot_partition(m, s) = PartitionOfRow(n)
<1>1. PICK i \in 1..Len(directory), k \in 1..Len(Rows) :
         /\ SlotHolds(s, i, k)
         /\ x \in 0..(directory[i].entry.count - 1) /\ n = k + x
  BY DEF RowAt
<1>2. RecordOf(i, k, x)
  BY <1>1, RecordsOfRun DEF SlotHolds
<1> QED
  BY <1>1, <1>2, SlotAttached DEF RecordOf

(* A record is found under the key of its row.                             *)
LEMMA KeyReads ==
    ASSUME Finished, LongAddresses, NEW m, m = Attach(file[1]),
           NEW s, NEW x, NEW n, RowAt(s, x, n)
    PROVE  /\ n \in 1..Len(Rows)
           /\ KeyAt(m, s, x) = KeyOfRow(n)
           /\ ~wide => address_at(m, s, x) = KeyOfRow(n).value
           /\ slot_partition(m, s) = PartitionOfRow(n)
<1>1. PICK i \in 1..Len(directory), k \in 1..Len(Rows) :
         /\ SlotHolds(s, i, k)
         /\ x \in 0..(directory[i].entry.count - 1) /\ n = k + x
  BY DEF RowAt
<1>2. RecordOf(i, k, x)
  BY <1>1, RecordsOfRun DEF SlotHolds
<1>3. /\ slot_partition(m, s) = PartitionOfRow(n) /\ m.address_width = address_width
      /\ n \in 1..Len(Rows)
  BY <1>1, <1>2, SlotAttached DEF RecordOf
<1> DEFINE key == KeyOfRow(n)
<1>4. /\ key \in KeySpace(KeyWidth) /\ key.partition = PartitionOfRow(n)
      /\ wide => key.value = 0
      /\ ~wide => key.bytes = <<>>
  BY <1>3, RowKeys DEF Finished, PartitionOfRow
<1>5. key = [partition |-> key.partition, value |-> key.value, bytes |-> key.bytes]
  BY <1>4 DEF KeySpace
<1>6. narrow_address(m) <=> ~wide
  BY <1>3, FinishedIs, WeightNat DEF narrow_address
<1>7. CASE wide
  <2>1. address_into_at(m, s, x) = key.bytes
    BY <1>1, <1>7, WideAddress
  <2>2. KeyAt(m, s, x) = WideKey(slot_partition(m, s), address_into_at(m, s, x))
    BY <1>6, <1>7 DEF KeyAt
  <2>3. KeyAt(m, s, x) = key
    BY <1>3, <1>4, <1>5, <1>7, <2>1, <2>2 DEF WideKey
  <2> QED
    BY <1>3, <1>7, <2>3
<1>8. CASE ~wide
  <2>1. address_at(m, s, x) = key.value
    BY <1>1, <1>8, NarrowAddress
  <2>2. KeyAt(m, s, x) = NarrowKey(slot_partition(m, s), address_at(m, s, x))
    BY <1>6, <1>8 DEF KeyAt
  <2>3. KeyAt(m, s, x) = key
    BY <1>3, <1>4, <1>5, <1>8, <2>1, <2>2 DEF NarrowKey
  <2> QED
    BY <1>3, <1>8, <2>1, <2>3
<1> QED
  BY <1>7, <1>8

(* A finished file and all that is known of what it was written from.      *)
Complete ==
    /\ Finished
    /\ RawInv /\ CoverInv /\ MeansInv
    /\ ShapeInv /\ DictsInv /\ CarriesInv /\ ContentsInv

(* The invariants at that point.                                           *)
LEMMA CompleteIs ==
    ASSUME Complete
    PROVE  /\ Finished /\ TypeOK /\ ShapeMeasured /\ file # None /\ ContentsAs(file[1])
           /\ options.align \in BOOLEAN /\ interned \in BOOLEAN /\ ShapeTyped
           /\ Len(dicts) = TextCount + (IF interned THEN 1 ELSE 0)
           /\ interned => dicts[TextCount + 1].content.elements = Elements
           /\ \A f \in TextFields : TextsWritten(f) /\ text_slot(f) \in 0..(TextCount - 1)
           /\ Len(log) = Len(Rows) /\ Len(Rows) \in Nat /\ TextCount \in Nat
<1>1. Finished /\ wpc = "written" /\ TypeOK
  BY DEF Complete, Finished
<1>2. ShapeMeasured /\ file # None /\ ContentsAs(file[1])
  BY <1>1 DEF Complete, ShapeInv, ContentsInv, Finished, FileInv
<1>3. ShapeTyped /\ interned \in BOOLEAN /\ Len(Rows) \in Nat
  BY <1>1, FinishedIs
<1>4. options.align \in BOOLEAN
  BY <1>3, WriterAssumption DEF ShapeTyped
<1>5. TextCount \in Nat
  BY TextFieldsCounted DEF TextCount
<1>6. /\ Len(dicts) = TextCount + (IF interned THEN 1 ELSE 0)
      /\ interned => dicts[TextCount + 1].content.elements = Elements
      /\ \A f \in TextFields : text_slot(f) < Len(dicts) => TextsWritten(f)
  BY <1>1 DEF Complete, DictsInv
<1>7. ASSUME NEW f \in TextFields
      PROVE  TextsWritten(f) /\ text_slot(f) \in 0..(TextCount - 1)
  <2>1. text_slot(f) \in 0..(TextCount - 1)
    BY TextSlots DEF TextCount
  <2>2. TextCount <= Len(dicts)
    BY <1>3, <1>5, <1>6
  <2>3. Len(dicts) \in Nat
    BY <1>3, <1>5, <1>6
  <2>4. text_slot(f) < Len(dicts)
    BY <1>5, <2>1, <2>2, <2>3
  <2> QED
    BY <1>6, <2>1, <2>4
<1>8. Len(log) = Len(Rows)
  BY DEF Complete, CoverInv, Rows
<1> QED
  BY <1>1, <1>2, <1>3, <1>4, <1>5, <1>6, <1>7, <1>8

(* The index of every text dictionary fits the 16 bits of a descriptor.    *)
(* The library asks it of nobody: past it a field names another field's    *)
(* dictionary.                                                             *)
TextFieldsFit == Cardinality(TextFields) <= Sizes.uint16

(* An index below 65536 is stored as it is, any other as a smaller one.    *)
LEMMA Uint16Index ==
    ASSUME NEW v \in Nat
    PROVE  /\ uint16(v) \in 0..v
           /\ v < Sizes.uint16 => uint16(v) = v
<1> DEFINE n == Sizes.uint16
<1>1. n \in Nat \ {0}
  BY FormatAssumption
<1> HIDE DEF n
<1>2. v % n \in Nat /\ v % n < n
  BY <1>1
<1>3. v < n => v % n = v
  BY <1>1
<1>4. v % n <= v
  BY <1>1, <1>2, <1>3
<1> QED
  BY <1>2, <1>3, <1>4 DEF uint16, n

(* The fields and the dictionaries of the image.                           *)
LEMMA ContentsAttached ==
    ASSUME Complete, NEW m, m = Attach(file[1])
    PROVE  /\ m.interned = interned
           /\ interned => m.value_dict = Elements
           /\ m.descs = [f \in Fields |-> Desc(f, Offsets[f])]
           /\ TextFieldsFit => \A f \in TextFields : m.text_dicts[f] = texts[f]
           /\ m.address_span = IF mode \in {"explicit", "explicit_wide"} THEN 0 ELSE AddressSpan
           /\ m.dir_count = Cardinality(DOMAIN Out)
<1> DEFINE f == file[1]
<1>1. /\ f.schema.fields = shape.descs
      /\ f.schema.mode = (IF interned THEN "interned" ELSE "inline")
      /\ interned => f.schema.value_dict = TextCount
      /\ f.schema.address_span =
            (IF mode \in {"explicit", "explicit_wide"} THEN 0 ELSE AddressSpan)
      /\ f.dicts = [i \in 0..(Len(dicts) - 1) |-> dicts[i + 1].content]
  BY CompleteIs DEF ContentsAs
<1>2. /\ shape.descs = [g \in Fields |-> Desc(g, Offsets[g])]
      /\ interned \in BOOLEAN /\ Len(dicts) = TextCount + (IF interned THEN 1 ELSE 0)
      /\ interned => dicts[TextCount + 1].content.elements = Elements
      /\ TextCount \in Nat
      /\ \A g \in TextFields :
            /\ dicts[text_slot(g) + 1].content.texts = texts[g]
            /\ text_slot(g) \in 0..(TextCount - 1)
  BY CompleteIs DEF ShapeMeasured, TextsWritten
<1>3. /\ m.interned = is_interned(f)
      /\ m.value_dict = (IF is_interned(f) THEN f.dicts[f.schema.value_dict].elements ELSE <<>>)
      /\ m.descs = f.schema.fields
      /\ m.text_dicts = [k \in DOMAIN f.schema.fields |->
                            IF f.schema.fields[k].kind = "text"
                            THEN f.dicts[f.schema.fields[k].dict_index].texts ELSE <<>>]
      /\ m.address_span = f.schema.address_span /\ m.dir_count = f.foot.dir_count
  BY DEF Attach
<1>4. f.foot.dir_count = Cardinality(DOMAIN Out)
  BY CompleteIs, FinishedIs DEF FileWritten, WrittenAs
<1>5. is_interned(f) = interned
  BY <1>1, <1>2 DEF is_interned
<1>6. interned => m.value_dict = Elements
  <2> SUFFICES ASSUME interned PROVE m.value_dict = Elements
    OBVIOUS
  <2>1. TextCount \in 0..(Len(dicts) - 1)
    BY <1>2
  <2>2. f.dicts[TextCount] = dicts[TextCount + 1].content
    BY <1>1, <2>1
  <2>3. m.value_dict = f.dicts[f.schema.value_dict].elements
    BY <1>3, <1>5
  <2>4. f.schema.value_dict = TextCount
    BY <1>1
  <2>5. m.value_dict = dicts[TextCount + 1].content.elements
    BY <2>2, <2>3, <2>4
  <2> QED
    BY <1>2, <2>5
<1>7. ASSUME TextFieldsFit, NEW g \in TextFields PROVE m.text_dicts[g] = texts[g]
  <2>1. g \in Fields /\ FieldKind[g] = "text"
    BY DEF TextFields
  <2>2. m.descs[g] = Desc(g, Offsets[g]) /\ g \in DOMAIN f.schema.fields
    <3>1. f.schema.fields = [k \in Fields |-> Desc(k, Offsets[k])]
      BY <1>1, <1>2
    <3>2. m.descs = f.schema.fields
      BY <1>3
    <3> HIDE DEF f
    <3> QED
      BY <2>1, <3>1, <3>2
  <2>3. m.descs[g].kind = "text" /\ m.descs[g].dict_index = text_slot(g)
    <3>1. text_slot(g) \in Nat /\ text_slot(g) < Sizes.uint16
      BY <1>2, <1>7, FormatAssumption DEF TextFieldsFit, TextCount
    <3>2. uint16(text_slot(g)) = text_slot(g)
      BY <3>1, Uint16Index
    <3> QED
      BY <2>1, <2>2, <3>2 DEF Desc
  <2>4. text_slot(g) \in 0..(Len(dicts) - 1)
    BY <1>2
  <2>5. f.dicts[text_slot(g)] = dicts[text_slot(g) + 1].content
    BY <1>1, <2>4
  <2>6. f.schema.fields[g].kind = "text" /\ f.schema.fields[g].dict_index = text_slot(g)
    BY <1>3, <2>3
  <2>7. m.text_dicts[g] = f.dicts[f.schema.fields[g].dict_index].texts
    BY <1>3, <2>2, <2>6
  <2>8. m.text_dicts[g] = dicts[text_slot(g) + 1].content.texts
    BY <2>5, <2>6, <2>7
  <2> QED
    BY <1>2, <2>8
<1> QED
  BY <1>1, <1>2, <1>3, <1>4, <1>5, <1>6, <1>7

(* A record leads to the stored tuple of its row.                          *)
LEMMA TupleReads ==
    ASSUME Complete, NEW m, m = Attach(file[1]), NEW s, NEW x, NEW n, RowAt(s, x, n)
    PROVE  /\ n \in 1..Len(Rows)
           /\ value_base(m, s, x) = Some(encode_tuple(Rows[n].tuple))
<1>1. PICK i \in 1..Len(directory), k \in 1..Len(Rows) :
         /\ SlotHolds(s, i, k)
         /\ x \in 0..(directory[i].entry.count - 1) /\ n = k + x
  BY DEF RowAt
<1>2. Finished /\ TypeOK /\ interned \in BOOLEAN
  BY CompleteIs
<1>3. n \in 1..Len(Rows)
  BY <1>2, RowPlaced
<1> DEFINE d == m.dir[s]  payload == d.records[x].payload  t == Rows[n].tuple
           ref == IF d.schema_id = 0 THEN payload ELSE d.remap[payload]
<1>4. /\ d.schema_id = directory[i].entry.schema_id
      /\ d.remap_count = directory[i].entry.remap_count
      /\ d.records = directory[i].block.records /\ d.remap = directory[i].block.remap
  BY <1>1, <1>2, SlotAttached
<1>5. Refers(directory[i], x, t)
  <2>1. k \in Starts(row) /\ wpc = "written" /\ i = RunsTo(k)
    BY <1>1, <1>2, FinishedIs DEF SlotHolds, Finished
  <2>2. CarriedAt(k)
    BY <2>1 DEF Complete, CarriesInv
  <2> QED
    BY <1>1, <2>1, <2>2 DEF CarriedAt, Carries
<1>6. t \in 0..(tuple_count - 1)
  BY <1>2, <1>3, RowTuple
<1>7. Elements[t] = encode_tuple(t) /\ t \in DOMAIN Elements
  BY <1>6 DEF Elements
<1>8. m.interned = interned /\ (interned => m.value_dict = Elements)
  BY ContentsAttached
<1>9. ~(s >= m.dir_count)
  <2>1. s \in DOMAIN Out /\ m.dir_count = Cardinality(DOMAIN Out)
    BY <1>1, ContentsAttached DEF SlotHolds
  <2>2. DOMAIN Out = 0..(m.dir_count - 1) /\ m.dir_count \in Nat
    BY <1>2, <2>1, SlotsOfFile
  <2> DEFINE c == m.dir_count
  <2>3. s \in 0..(c - 1) /\ c \in Nat
    BY <2>1, <2>2
  <2> HIDE DEF c
  <2>4. ~(s >= c)
    BY <2>3
  <2> QED
    BY <2>4 DEF c
<1>10. CASE ~interned
  <2>1. payload = Elements[t]
    BY <1>4, <1>5, <1>10 DEF Refers
  <2> QED
    BY <1>3, <1>7, <1>8, <1>9, <1>10, <2>1 DEF value_base
<1>11. CASE interned /\ d.schema_id = 0
  <2>1. payload = t /\ ref = t
    BY <1>4, <1>5, <1>11 DEF Refers
  <2> QED
    BY <1>3, <1>7, <1>8, <1>9, <1>11, <2>1 DEF value_base
<1>12. CASE interned /\ d.schema_id # 0
  <2>1. payload \in 0..(d.remap_count - 1) /\ ref = t
    BY <1>4, <1>5, <1>12 DEF Refers
  <2>2. d.remap_count \in Nat
    <3>1. EntryTyped(directory[i].entry)
      BY <1>2, SlotFits
    <3> QED
      BY <1>4, <3>1, WeightNat DEF EntryTyped, Word
  <2>3. ~(payload >= d.remap_count)
    <3> DEFINE room == d.remap_count  place == payload
    <3>1. place \in 0..(room - 1) /\ room \in Nat
      BY <2>1, <2>2
    <3> HIDE DEF room, place
    <3>2. ~(place >= room)
      BY <3>1
    <3> QED
      BY <3>2 DEF room, place
  <2> QED
    BY <1>3, <1>7, <1>8, <1>9, <1>12, <2>1, <2>3 DEF value_base
<1> QED
  BY <1>2, <1>10, <1>11, <1>12

(* What a row's tuple says of a field that was set fits the field.         *)
LEMMA RowSuits ==
    ASSUME Complete, NEW n \in 1..Len(Rows), NEW f \in DOMAIN log[n].written
    PROVE  LET x == tuples[Rows[n].tuple + 1][f]
           IN  /\ f \in Fields /\ x \in Nat /\ FieldSuits(f, x)
               /\ IF FieldKind[f] = "text" THEN texts[f][x + 1] = log[n].written[f]
                                           ELSE x = log[n].written[f]
<1> DEFINE e == log[n]  t == Rows[n].tuple  tuple == tuples[t + 1]  x == tuple[f]
<1>1. TypeOK /\ Len(log) = Len(Rows) /\ Len(Rows) \in Nat
  BY CompleteIs
<1>2. n \in 1..Len(log)
  BY <1>1
<1>3. /\ log \in Seq(EntryType) /\ Covered(stats, e.written)
      /\ TupleMeans(texts, tuple, e.written)
  BY <1>2 DEF Complete, CoverInv, MeansInv, Rows
<1>4. f \in Fields
  <2>1. e \in EntryType
    BY <1>2, <1>3
  <2>2. e.written \in WrittenType
    BY <2>1 DEF EntryType
  <2> QED
    BY <2>2 DEF WrittenType
<1>5. t \in 0..(tuple_count - 1) /\ tuple_count = Len(tuples) /\ tuple_count \in Nat
  BY <1>1, RowTuple DEF tuple_count, TypeOK
<1>6. t + 1 \in 1..Len(tuples)
  BY <1>5
<1>7. tuple \in TupleType /\ RawFits(tuple)
  BY <1>1, <1>6 DEF TypeOK, Complete, RawInv
<1>8. x \in Nat /\ (FieldKind[f] # "text" => x \in Word)
  BY <1>4, <1>7 DEF TupleType
<1>9. IF FieldKind[f] = "text" THEN x < Len(texts[f]) /\ texts[f][x + 1] = e.written[f]
                               ELSE x = e.written[f]
  BY <1>3, <1>4 DEF TupleMeans
<1>10. IsInteger(f) => FieldKind[f] # "text" /\ x \in Word /\ InRange(f, stats[f], x)
  BY <1>3, <1>8, <1>9 DEF Covered, IsInteger
<1>11. ~IsInteger(f) /\ FieldKind[f] # "text" => x < Weight[RawWidth[f]]
  BY <1>4, <1>7 DEF RawFits
<1>12. FieldKind[f] = "text" => Len(texts[f]) < WordSize
  <2> SUFFICES ASSUME FieldKind[f] = "text" PROVE Len(texts[f]) < WordSize
    OBVIOUS
  <2>1. TextsWritten(f)
    BY <1>4, CompleteIs DEF TextFields
  <2>2. Len(texts[f]) <= pos /\ pos < WordSize /\ pos \in Nat
    BY <2>1, CompleteIs DEF TextsWritten, Finished, PlacesInv
  <2>3. Len(texts[f]) \in Nat
    BY <1>1, <1>4 DEF TypeOK
  <2> QED
    BY <2>2, <2>3, WeightNat
<1>13. FieldSuits(f, x)
  BY <1>9, <1>10, <1>11, <1>12 DEF FieldSuits
<1> QED
  BY <1>4, <1>8, <1>9, <1>13

(* Every field that was set reads back as it was set.                      *)
LEMMA FieldReads ==
    ASSUME Complete, TextFieldsFit, NEW m, m = Attach(file[1]),
           NEW s, NEW x, NEW n, RowAt(s, x, n),
           NEW f \in DOMAIN log[n].written
    PROVE  ReadBack(m, s, x, f) = Some(log[n].written[f])
<1> DEFINE t == Rows[n].tuple  v == tuples[t + 1][f]  w == FieldWidth(f)  o == Offsets[f]
           d == m.descs[f]
<1>1. n \in 1..Len(Rows) /\ value_base(m, s, x) = Some(encode_tuple(t))
  BY TupleReads
<1>2. /\ f \in Fields /\ v \in Nat /\ FieldSuits(f, v)
      /\ IF FieldKind[f] = "text" THEN texts[f][v + 1] = log[n].written[f]
                                  ELSE v = log[n].written[f]
  BY <1>1, RowSuits
<1>3. TypeOK /\ ShapeMeasured /\ options.align \in BOOLEAN
  BY CompleteIs
<1>4. Stored(t, f) = store_uint(FieldWidth(f), Minus(v, Bias(f)))
  BY DEF Stored
<1>5. Stored(t, f) \in Nat /\ Stored(t, f) < Weight[w] /\ Plus(Stored(t, f), Bias(f)) = v
  BY <1>2, <1>3, <1>4, ValueKept
<1>6. load_uint([b \in 1..w |-> encode_tuple(t)[o + b - 1]]) = Stored(t, f)
  BY <1>2, <1>3, <1>5, FieldLoads
<1>7. m.descs = [g \in Fields |-> Desc(g, Offsets[g])]
  BY ContentsAttached
<1>8. d.kind = FieldKind[f] /\ d.width = w /\ d.offset = o /\ d.bias = Bias(f)
  BY <1>2, <1>7 DEF Desc
<1>9. f \in DOMAIN m.descs
  BY <1>2, <1>7
<1>10. value_base(m, s, x) # None /\ value_base(m, s, x)[1] = encode_tuple(t)
  BY <1>1 DEF Some, None
<1>11. read_scalar(m, s, x, f, FieldKind[f]) = Some(v)
  <2> DEFINE base == value_base(m, s, x)
             stored == load_uint([b \in 1..d.width |-> base[1][d.offset + b - 1]])
  <2>1. stored = Stored(t, f)
    BY <1>6, <1>8, <1>10
  <2>2. read_scalar(m, s, x, f, FieldKind[f]) = Some(Plus(stored, d.bias))
    BY <1>8, <1>9, <1>10 DEF read_scalar
  <2> QED
    BY <1>5, <1>8, <2>1, <2>2
<1>12. CASE FieldKind[f] # "text"
  BY <1>2, <1>11, <1>12 DEF ReadBack
<1>13. CASE FieldKind[f] = "text"
  <2>1. f \in TextFields
    BY <1>2, <1>13 DEF TextFields
  <2>2. m.text_dicts[f] = texts[f]
    BY <2>1, ContentsAttached
  <2>3. v \in 0..(Len(texts[f]) - 1)
    <3>1. v < Len(texts[f])
      BY <1>2, <1>13 DEF FieldSuits
    <3>2. Len(texts[f]) \in Nat
      BY <1>2, <1>3 DEF TypeOK
    <3> QED
      BY <1>2, <3>1, <3>2
  <2>4. Some(v) # None /\ Some(v)[1] = v
    BY DEF Some, None
  <2>5. text(m, s, x, f) = Some(texts[f][v + 1])
    BY <1>11, <1>13, <2>2, <2>3, <2>4 DEF text
  <2> QED
    BY <1>2, <1>13, <2>5 DEF ReadBack
<1> QED
  BY <1>12, <1>13

(* A slot of the file is that of one run.                                  *)
LEMMA OneRunOfSlot ==
    ASSUME Finished, NEW s, NEW i, NEW k, SlotHolds(s, i, k), NEW j, NEW l, SlotHolds(s, j, l)
    PROVE  i = j /\ k = l
<1>1. /\ i \in 1..Len(directory) /\ j \in 1..Len(directory)
      /\ Out[s] = directory[i].entry /\ Out[s] = directory[j].entry
      /\ k \in 1..Len(Rows) /\ l \in 1..Len(Rows)
      /\ k \in Starts(Len(Rows)) /\ l \in Starts(Len(Rows))
      /\ i = RunsTo(k) /\ j = RunsTo(l)
  BY DEF SlotHolds
<1>2. Len(directory) \in Nat /\ Len(Rows) \in Nat
  BY FinishedIs
<1>3. i = j
  <2>1. directory[i].entry.partition \in Nat
    BY <1>1, SlotFits, WeightNat DEF EntryTyped, Word
  <2>2. directory[i].entry.partition = directory[j].entry.partition
    BY <1>1
  <2> DEFINE u == directory[i].entry.partition  v == directory[j].entry.partition
  <2>3. (i < j => u < v) /\ (j < i => v < u)
    <3>1. i < j => u < v
      BY <1>1, SlotsRise
    <3>2. j < i => v < u
      BY <1>1, SlotsRise
    <3> QED
      BY <3>1, <3>2
  <2>4. u \in Nat /\ u = v
    BY <2>1, <2>2
  <2> HIDE DEF u, v
  <2>5. ~(i < j) /\ ~(j < i)
    BY <2>3, <2>4
  <2> QED
    BY <1>1, <1>2, <2>5
<1>4. ASSUME NEW a \in {k, l}, NEW b \in {k, l}, a < b PROVE FALSE
  <2>1. a \in 1..Len(Rows) /\ b \in 1..Len(Rows) /\ b \in Starts(Len(Rows))
    BY <1>1
  <2>2. Starts(a) \subseteq Starts(b) /\ b \in Starts(b) /\ b \notin Starts(a)
    BY <1>2, <1>4, <2>1 DEF Starts
  <2>3. IsFiniteSet(Starts(b))
    BY <2>1, StartsFinite
  <2>4. RunsTo(a) = RunsTo(b)
    BY <1>1, <1>3
  <2>5. Starts(a) = Starts(b)
    BY <2>2, <2>3, <2>4, FS_Subset DEF RunsTo
  <2> QED
    BY <2>2, <2>5
<1>5. ~(k < l) /\ ~(l < k)
  BY <1>4
<1> QED
  BY <1>1, <1>2, <1>3, <1>5

(* One row is at each place, and each row at one place.                    *)
LEMMA OneRowOfPlace ==
    ASSUME Finished, NEW s, NEW x, NEW n, RowAt(s, x, n), NEW o, RowAt(s, x, o)
    PROVE  n = o
<1>1. PICK i \in 1..Len(directory), k \in 1..Len(Rows) : SlotHolds(s, i, k) /\ n = k + x
  BY DEF RowAt
<1>2. PICK j \in 1..Len(directory), l \in 1..Len(Rows) : SlotHolds(s, j, l) /\ o = l + x
  BY DEF RowAt
<1> QED
  BY <1>1, <1>2, OneRunOfSlot

(* The slots are ordered by partition, so that the key tells the slot.     *)
LEMMA OnePlaceOfRow ==
    ASSUME Finished, NEW s, NEW x, NEW t, NEW y, NEW n, RowAt(s, x, n), RowAt(t, y, n)
    PROVE  s = t /\ x = y
<1> DEFINE m == Attach(file[1])
<1>1. PICK i \in 1..Len(directory), k \in 1..Len(Rows) :
         SlotHolds(s, i, k) /\ x \in 0..(directory[i].entry.count - 1) /\ n = k + x
  BY DEF RowAt
<1>2. PICK j \in 1..Len(directory), l \in 1..Len(Rows) :
         SlotHolds(t, j, l) /\ y \in 0..(directory[j].entry.count - 1) /\ n = l + y
  BY DEF RowAt
<1>3. /\ s \in DOMAIN Out /\ t \in DOMAIN Out
      /\ \A z \in DOMAIN Out : z \in Nat
  <2>1. s \in DOMAIN Out /\ t \in DOMAIN Out
    BY <1>1, <1>2 DEF SlotHolds
  <2>2. Cardinality(DOMAIN Out) \in Nat /\ DOMAIN Out = 0..(Cardinality(DOMAIN Out) - 1)
    BY SlotsOfFile
  <2>3. \A z \in DOMAIN Out : z \in Nat
    BY <2>2
  <2> QED
    BY <2>1, <2>3
<1>4. /\ slot_partition(m, s) = PartitionOfRow(n) /\ slot_partition(m, t) = PartitionOfRow(n)
      /\ PartitionOfRow(n) \in Nat
  <2>1. n \in 1..Len(Rows) /\ slot_partition(m, s) = PartitionOfRow(n)
    BY RowPlaced
  <2>2. slot_partition(m, t) = PartitionOfRow(n)
    BY RowPlaced
  <2>3. PartitionOfRow(n) \in Nat
    BY <2>1, RowKeys, WeightNat DEF Finished, Word
  <2> QED
    BY <2>1, <2>2, <2>3
<1>5. ~(slot_partition(m, s) < slot_partition(m, t))
      /\ ~(slot_partition(m, t) < slot_partition(m, s))
  <2> HIDE DEF m
  <2> QED
    BY <1>4
<1>6. ~(s < t) /\ ~(t < s)
  BY <1>3, <1>5, SlotsInOrder
<1>7. s = t
  BY <1>3, <1>6
<1>8. k = l
  BY <1>1, <1>2, <1>7, OneRunOfSlot
<1>9. directory[i].entry.count \in Nat /\ directory[j].entry.count \in Nat
      /\ Len(Rows) \in Nat
  BY SlotFits, WeightNat, FinishedIs DEF EntryTyped, Word
<1> QED
  BY <1>1, <1>2, <1>7, <1>8, <1>9

----------------------------------------------------------------------------
(* Every place is counted once.                                            *)

(* Where table may look for a record.                                      *)
Places(m) ==
    {p \in (0..(m.dir_count - 1)) \X (0..Len(log)) : p[2] < slot_count(m, p[1])}

(* The places of a slot are those its directory entry counts.              *)
LEMMA PlacesOfSlot ==
    ASSUME Complete, NEW m, m = Attach(file[1])
    PROVE  /\ DOMAIN Out = 0..(m.dir_count - 1)
           /\ \A s \in DOMAIN Out : slot_count(m, s) = Out[s].count /\ Out[s].count \in Nat
<1>1. Finished /\ DOMAIN Out = 0..(m.dir_count - 1)
  BY CompleteIs, ContentsAttached, SlotsOfFile
<1>2. ASSUME NEW s \in DOMAIN Out PROVE slot_count(m, s) = Out[s].count /\ Out[s].count \in Nat
  <2>1. m.dir = [z \in 0..(file[1].foot.dir_count - 1) |-> AttachedSlot(file[1], dir_slot(file[1], z))]
        /\ m.dir_count = file[1].foot.dir_count
    BY AttachIs
  <2>2. m.dir[s] = AttachedSlot(file[1], dir_slot(file[1], s))
    BY <1>1, <2>1
  <2>3. m.dir[s].count = dir_slot(file[1], s).count
    BY <2>2 DEF AttachedSlot
  <2>4. dir_slot(file[1], s).count = Out[s].count
    BY <1>1, SlotReads
  <2>5. EntryTyped(Out[s])
    BY <1>1, SlotsOfFile
  <2> QED
    BY <2>3, <2>4, <2>5, WeightNat DEF slot_count, EntryTyped, Word
<1> QED
  BY <1>1, <1>2

(* These places are those of the rows.                                     *)
LEMMA PlacesAreRows ==
    ASSUME Complete, NEW m, m = Attach(file[1])
    PROVE  /\ \A p \in Places(m) : \E n \in 1..Len(Rows) : RowAt(p[1], p[2], n)
           /\ \A n \in 1..Len(Rows) : \E p \in Places(m) : RowAt(p[1], p[2], n)
<1>1. /\ Finished /\ DOMAIN Out = 0..(m.dir_count - 1) /\ Len(log) = Len(Rows)
      /\ Len(Rows) \in Nat
  BY CompleteIs, ContentsAttached, SlotsOfFile
<1>2. ASSUME NEW s \in DOMAIN Out PROVE slot_count(m, s) = Out[s].count /\ Out[s].count \in Nat
  BY PlacesOfSlot
<1>3. ASSUME NEW p \in Places(m) PROVE \E n \in 1..Len(Rows) : RowAt(p[1], p[2], n)
  <2>1. p[1] \in DOMAIN Out /\ p[2] \in Nat /\ p[2] < slot_count(m, p[1])
    BY <1>1 DEF Places
  <2>2. p[2] \in 0..(Out[p[1]].count - 1)
    BY <1>2, <2>1
  <2> QED
    BY <1>1, <2>1, <2>2, RecordsHaveRows
<1>4. ASSUME NEW n \in 1..Len(Rows) PROVE \E p \in Places(m) : RowAt(p[1], p[2], n)
  <2>1. PICK s \in DOMAIN Out, x \in Nat : RowAt(s, x, n)
    BY <1>1, RowsHaveRecords
  <2>2. PICK i \in 1..Len(directory), k \in 1..Len(Rows) :
           SlotHolds(s, i, k) /\ x \in 0..(directory[i].entry.count - 1) /\ n = k + x
    BY <2>1 DEF RowAt
  <2>3. Out[s] = directory[i].entry
    BY <2>2 DEF SlotHolds
  <2>4. x < slot_count(m, s)
    BY <1>2, <2>2, <2>3
  <2>5. x \in 0..Len(log)
    BY <1>1, <2>2
  <2> DEFINE p == <<s, x>>
  <2>6. p \in Places(m) /\ p[1] = s /\ p[2] = x
    BY <1>1, <2>4, <2>5 DEF Places
  <2> QED
    BY <2>1, <2>6
<1> QED
  BY <1>3, <1>4

(* There are as many.                                                      *)
LEMMA PlacesCounted ==
    ASSUME Complete, NEW m, m = Attach(file[1])
    PROVE  Cardinality(Places(m)) = Len(log)
<1> DEFINE N == Len(Rows)  P == Places(m)
           place == [n \in 1..N |-> CHOOSE p \in P : RowAt(p[1], p[2], n)]
<1>1. Finished /\ N \in Nat /\ Len(log) = N
  BY CompleteIs
<1>2. ASSUME NEW n \in 1..N PROVE place[n] \in P /\ RowAt(place[n][1], place[n][2], n)
  BY PlacesAreRows
<1>3. ASSUME NEW a \in 1..N, NEW b \in 1..N, place[a] = place[b] PROVE a = b
  <2> HIDE DEF place
  <2> QED
    BY <1>1, <1>2, <1>3, OneRowOfPlace
<1>4. ASSUME NEW p \in P PROVE \E n \in 1..N : place[n] = p
  <2>1. PICK n \in 1..N : RowAt(p[1], p[2], n)
    BY PlacesAreRows
  <2>2. place[n] \in P /\ RowAt(place[n][1], place[n][2], n)
    BY <1>2
  <2> HIDE DEF place
  <2>3. place[n][1] = p[1] /\ place[n][2] = p[2]
    BY <1>1, <2>1, <2>2, OnePlaceOfRow
  <2>4. place[n] = <<place[n][1], place[n][2]>> /\ p = <<p[1], p[2]>>
    BY <2>2 DEF Places
  <2> QED
    BY <2>3, <2>4
<1>5. place \in Bijection(1..N, P)
  <2>1. place \in [1..N -> P]
    BY <1>2
  <2> HIDE DEF place
  <2> QED
    BY <1>3, <1>4, <2>1 DEF Bijection, Injection, Surjection, IsInjective
<1>6. ExistsBijection(1..N, P)
  BY <1>5 DEF ExistsBijection
<1>7. Cardinality(P) = N
  BY <1>1, <1>6, FS_CountingElements
<1> QED
  BY <1>1, <1>7

(* The key of an element of a keyed image is the one it was packed from.   *)
LEMMA PackedKeyReads ==
    ASSUME Complete, NEW m, m = Attach(file[1]), NEW s, NEW x, NEW n, RowAt(s, x, n),
           has_key_mapping(m)
    PROVE  key_at(m, s, x) = pack(KeyOfRow(n).partition, KeyOfRow(n).value)
<1> DEFINE p == KeyOfRow(n).partition  v == KeyOfRow(n).value
<1>1. m.address_span = AddressSpan /\ mode \notin {"explicit", "explicit_wide"}
  BY ContentsAttached DEF has_key_mapping
<1>2. ~wide
  BY <1>1 DEF Complete, MeansInv, wide
<1>8. LongAddresses
  BY <1>2 DEF LongAddresses
<1>3. n \in 1..Len(Rows) /\ address_at(m, s, x) = v /\ slot_partition(m, s) = p
  BY <1>2, <1>8, CompleteIs, KeyReads DEF PartitionOfRow
<1>4. p \in Nat /\ v \in Nat /\ v < WordSize /\ WordSize \in Nat \ {0}
  BY <1>3, CompleteIs, RowKeys, WeightNat DEF Finished, Word, PartitionOfRow
<1>5. AddressSpan \in 1..WordSize
  BY BuilderAssumption
<1>6. CASE AddressSpan >= WordSize
  <2>1. AddressSpan = WordSize
    BY <1>4, <1>5, <1>6
  <2>2. (p * WordSize + v) % WordSize = v
    BY <1>4, OneQuotient
  <2>3. key_at(m, s, x) = v
    BY <1>1, <1>3, <1>6 DEF key_at
  <2>4. pack(p, v) = v
    BY <2>1, <2>2 DEF pack
  <2> QED
    BY <2>3, <2>4
<1>7. CASE ~(AddressSpan >= WordSize)
  <2>1. key_at(m, s, x) = (p * AddressSpan + v) % WordSize
    BY <1>1, <1>3, <1>7 DEF key_at
  <2> QED
    BY <2>1 DEF pack
<1> QED
  BY <1>6, <1>7

(* The table opened on a complete file holds every committed record once.  *)
LEMMA CompleteHolds ==
    ASSUME Complete, LongAddresses, TextFieldsFit, NEW m, m = Attach(file[1])
    PROVE  /\ Cardinality(Places(m)) = Len(log)
           /\ \A n \in 1..Len(log) : \E p \in Places(m) : Holds(m, p[1], p[2], log[n])
<1>1. ASSUME NEW n \in 1..Len(log) PROVE \E p \in Places(m) : Holds(m, p[1], p[2], log[n])
  <2>1. n \in 1..Len(Rows)
    BY CompleteIs
  <2>2. PICK p \in Places(m) : RowAt(p[1], p[2], n)
    BY <2>1, PlacesAreRows
  <2>3. KeyOfRow(n) = log[n].key
    BY DEF Complete, MeansInv, KeyOfRow, Rows
  <2>4. KeyAt(m, p[1], p[2]) = log[n].key
    BY <2>2, <2>3, CompleteIs, KeyReads
  <2>5. has_key_mapping(m) =>
           key_at(m, p[1], p[2]) = pack(log[n].key.partition, log[n].key.value)
    BY <2>2, <2>3, PackedKeyReads
  <2>6. \A f \in DOMAIN log[n].written :
           ReadBack(m, p[1], p[2], f) = Some(log[n].written[f])
    BY <2>2, FieldReads
  <2> QED
    BY <2>2, <2>4, <2>5, <2>6 DEF Holds
<1> QED
  BY <1>1, PlacesCounted

----------------------------------------------------------------------------
(* Every build, and the opening that follows it.                           *)

(* What a build of one record at a time keeps true: BuiltInv, and what the *)
(* records, the dictionaries and the file were made from.                  *)
RecordsInv ==
    /\ BuiltInv
    /\ RawInv /\ CoverInv /\ MeansInv
    /\ ShapeInv /\ DictsInv /\ CarriesInv /\ ContentsInv

(* It holds before the first record.                                       *)
LEMMA InitRecords == BuildInit => RecordsInv
<1> SUFFICES ASSUME BuildInit PROVE RecordsInv
  OBVIOUS
<1>1. BuilderInit /\ wpc = "off" /\ row = 0 /\ dicts = <<>> /\ file = None
  BY DEF BuildInit, Init
<1>2. BuiltInv
  BY InitBuilt
<1>3. RawInv
  <2>1. slots = ZeroSlots /\ Len(tuples) = 0
    BY <1>1 DEF BuilderInit
  <2>2. ASSUME NEW f \in Fields PROVE ZeroSlots[f] < Weight[RawWidth[f]]
    <3>1. RawWidth[f] \in 0..WordBytes
      BY BuilderAssumption
    <3> QED
      BY <3>1, WeightNat DEF ZeroSlots
  <2> QED
    BY <2>1, <2>2 DEF RawInv, RawFits
<1>4. CoverInv /\ MeansInv
  BY <1>1 DEF BuilderInit, CoverInv, MeansInv, NoStaging, NoHandle
<1>5. ShapeInv /\ CarriesInv /\ ContentsInv
  BY <1>1 DEF ShapeInv, CarriesInv, ContentsInv
<1>6. DictsInv
  <2>1. Len(dicts) = 0 /\ \A f \in TextFields : text_slot(f) \in Nat
    BY <1>1, TextSlots
  <2> QED
    BY <1>1, <2>1 DEF DictsInv
<1> QED
  BY <1>2, <1>3, <1>4, <1>5, <1>6 DEF RecordsInv

(* Every step of either keeps it.                                          *)
LEMMA NextRecords ==
    ASSUME OneAtATime
    PROVE  RecordsInv /\ [BuildNext]_all_vars => RecordsInv'
<1> SUFFICES ASSUME RecordsInv, [BuildNext]_all_vars PROVE RecordsInv'
  OBVIOUS
<1>1. [Next]_vars
  BY DEF BuildNext, Build, Opening, all_vars
<1>2. /\ BuiltInv /\ TypeOK /\ Shape /\ WalkInv /\ TypesInv /\ SlotsInv /\ FileInv
      /\ RawInv /\ CoverInv /\ MeansInv
      /\ ShapeInv /\ DictsInv /\ CarriesInv /\ ContentsInv
  BY DEF RecordsInv, BuiltInv
<1>3. [BuilderNext]_builder_vars
  BY <1>1, BuilderSteps
<1>4. BuiltInv'
  BY <1>2, NextBuilt
<1>5. TypesInv'
  BY <1>4 DEF BuiltInv
<1>6. RawInv'
  BY <1>2, <1>3, NextRaw
<1>7. CoverInv'
  BY <1>2, <1>3, NextCover
<1>8. MeansInv'
  BY <1>2, <1>3, NextMeans
<1>9. ShapeInv'
  BY <1>1, <1>2, NextShape
<1>10. DictsInv'
  BY <1>1, <1>2, <1>5, NextDicts
<1>11. CarriesInv'
  BY <1>1, <1>2, NextCarries
<1>12. ContentsInv'
  BY <1>1, <1>2, NextContents
<1> QED
  BY <1>4, <1>6, <1>7, <1>8, <1>9, <1>10, <1>11, <1>12 DEF RecordsInv

(* The promise of the library: what a client commits, one record at a      *)
(* time, is in the table it opens, once, under the key it gave, and every  *)
(* field it set reads back as it was set.  The record goes through the     *)
(* staging and its sort, deduplication, the width and the bias chosen for  *)
(* its fields, the trimmed address, the remap table of its partition and   *)
(* the dense or sparse directory.  A byte address is longer than a word    *)
(* and shorter than 256 bytes, the file shorter than 2^64, and a schema    *)
(* has at most 65536 text fields.                                          *)
THEOREM RecordsRoundTrip ==
    OneAtATime /\ TextFieldsFit => (BuildSpec => [](LongAddresses /\ ImageFits => RoundTrip))
<1> SUFFICES ASSUME OneAtATime, TextFieldsFit
             PROVE  BuildSpec => [](LongAddresses /\ ImageFits => RoundTrip)
  OBVIOUS
<1>1. BuildInit => RecordsInv
  BY InitRecords
<1>2. RecordsInv /\ [BuildNext]_all_vars => RecordsInv'
  BY NextRecords
<1>3. RecordsInv => (LongAddresses /\ ImageFits => RoundTrip)
  <2> SUFFICES ASSUME RecordsInv, LongAddresses, ImageFits, status = "ok" PROVE RoundTrip
    BY DEF RoundTrip
  <2>1. wpc = "written" /\ file # None /\ FileWritten
    BY DEF RecordsInv, BuiltInv, OpenedInv, FileInv
  <2>2. pos < WordSize
    BY <2>1 DEF ImageFits, FileWritten, WrittenAs
  <2>3. SortedFlagExact
    BY DEF RecordsInv, BuiltInv, OrderInv
  <2>8. AddressFits
    BY FormatAssumption, WordAssumption DEF LongAddresses, AddressFits
  <2>4. Finished
    BY <2>1, <2>2, <2>3, <2>8 DEF RecordsInv, BuiltInv, Finished
  <2>5. Complete
    BY <2>4 DEF RecordsInv, Complete
  <2>6. image[1] = Attach(file[1])
    BY <2>1 DEF image, Some
  <2> DEFINE m == image[1]
  <2>7. /\ Cardinality(Places(m)) = Len(log)
        /\ \A n \in 1..Len(log) : \E p \in Places(m) : Holds(m, p[1], p[2], log[n])
    BY <2>5, <2>6, CompleteHolds
  <2> QED
    BY <2>7 DEF RoundTrip, Places
<1> QED
  BY <1>1, <1>2, <1>3, PTL DEF BuildSpec

============================================================================
