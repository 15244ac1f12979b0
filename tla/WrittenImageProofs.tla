------------------------- MODULE WrittenImageProofs -------------------------
(***************************************************************************)
(* The image a build leaves behind is one the lookups may assume: for      *)
(* every schema, every build and every layout, whatever was trimmed,       *)
(* remapped or made dense.                                                 *)
(*                                                                         *)
(* The proof follows the records through finish: they are in strict order  *)
(* when the layout starts, each run of them is written with the range that *)
(* was measured for it, each entry of the packed directory is read back as *)
(* it was written, and what is left of an address after trimming is in the *)
(* same order.                                                             *)
(***************************************************************************)
EXTENDS BuildAndOpen, ImageWriterProofs

----------------------------------------------------------------------------
(* The staged rows.                                                        *)

(* The address of a wide build is as many bytes as the first one had, that *)
(* of any other build is none.                                             *)
RowShaped(key) ==
    IF blob = "null" THEN key.bytes = <<>>
                     ELSE key.value = 0 /\ Len(key.bytes) = wide_width

AllShaped == \A i \in 1..Len(staging.rows) : RowShaped(RowKey(staging.kind, staging.rows[i]))

(* What finish finds: rows in order, all of one shape.                     *)
StagedInv ==
    /\ stage = "layout" => staging.sorted
    /\ mode = "undecided" => staging.rows = <<>>
    /\ blob = "dangling" => staging.rows = <<>>
    /\ blob # "null" => /\ mode = "explicit_wide"
                        /\ Len(pending_address) = wide_width /\ pending_address # <<>>
    /\ AllShaped

(* Every call of the client keeps the rows so.                             *)
LEMMA NextStaged ==
    TypeOK /\ Shape /\ StagedInv /\ [BuilderNext]_builder_vars => StagedInv'
<1> SUFFICES ASSUME TypeOK, Shape, StagedInv, [BuilderNext]_builder_vars PROVE StagedInv'
  OBVIOUS
<1>1. CASE UNCHANGED <<staging, stage, mode, blob, wide_width, pending_address>>
  BY <1>1 DEF StagedInv, AllShaped, RowShaped
<1>2. CASE UNCHANGED builder_vars \/ Throws
  BY <1>1, <1>2 DEF builder_vars, Throws, store, world, record
<1>3. staging.kind = "none" => staging.rows = <<>>
  BY DEF Shape, NoStaging
<1>4. ASSUME NEW h \in Handles, NEW wanted \in {"keyed", "explicit"},
             NEW partition, NEW value, BeginNarrow(h, wanted, partition, value)
      PROVE  StagedInv'
  <2>1. /\ stage = "consuming" /\ UNCHANGED <<stage, blob, wide_width, pending_address>>
        /\ mode' = wanted /\ mode \in {"undecided", wanted} /\ blob = "null"
    BY <1>4 DEF BeginNarrow, EnterMode, finished, TypeOK, StagedInv
  <2>4. staging' = staging \/ staging'.rows = <<>>
    BY <1>3, <1>4 DEF BeginNarrow, EnterMode, EmptyStaging, NoStaging
  <2>2. CASE staging' = staging
    BY <2>1, <2>2 DEF StagedInv, AllShaped, RowShaped
  <2>3. CASE staging'.rows = <<>>
    BY <2>1, <2>3 DEF StagedInv, AllShaped
  <2> QED
    BY <2>2, <2>3, <2>4
<1>5. ASSUME NEW h \in Handles, NEW k \in WideKeys, begin_record_at_wide(h, k)
      PROVE  StagedInv'
  <2>1. /\ stage = "consuming" /\ stage' = stage /\ mode' = "explicit_wide"
        /\ Len(pending_address') = wide_width' /\ pending_address' # <<>>
    BY <1>5 DEF begin_record_at_wide, EnterWideMode, finished, TypeOK
  <2>2. CASE mode = "undecided"
    <3>1. staging.rows = <<>> /\ staging'.rows = <<>>
      BY <1>5, <2>2 DEF StagedInv, begin_record_at_wide, EnterWideMode, EmptyStaging, NoStaging
    <3> QED
      BY <2>1, <3>1 DEF StagedInv, AllShaped
  <2>3. CASE mode # "undecided"
    <3>1. UNCHANGED <<staging, blob, wide_width>>
      BY <1>5, <2>3 DEF begin_record_at_wide, EnterWideMode
    <3> QED
      BY <2>1, <2>3, <3>1 DEF StagedInv, AllShaped, RowShaped
  <2> QED
    BY <2>2, <2>3
<1>6. ASSUME NEW h \in Handles, NEW f \in Fields, NEW v \in FieldValues[f], SetField(h, f, v)
      PROVE  StagedInv'
  BY <1>1, <1>6 DEF SetField, store, world
<1>7. ASSUME NEW h \in Handles, commit(h) PROVE StagedInv'
  <2> DEFINE key == CommitKey(handles[h])
             r == Row(staging.kind, key, intern_tuple.id)
             n == Len(staging.rows)
  <2>1. /\ UNCHANGED <<mode, blob, wide_width, pending_address, stage>> /\ stage = "consuming"
        /\ blob # "dangling" /\ handles[h].open
        /\ staging' = push(staging, key, intern_tuple.id)
    BY <1>7 DEF commit, world, record, finished, TypeOK
  <2>2. mode # "undecided"
    BY <2>1 DEF Shape
  <2>3. staging'.kind = staging.kind /\ staging'.rows = Append(staging.rows, r)
    BY <2>1 DEF push, TypeOK
  <2>4. staging.rows \in Seq(RowType(staging.kind, Len(tuples)))
    BY DEF TypeOK
  <2>5. IsSequence(staging.rows)
    BY <2>4 DEF IsSequence
  <2> HIDE DEF r
  <2>6. /\ n \in Nat /\ Len(staging'.rows) = n + 1 /\ staging'.rows[n + 1] = r
        /\ \A i \in 1..n : staging'.rows[i] = staging.rows[i]
    BY <2>3, <2>5, AppendAny DEF IsSequence
  <2>7. RowKey(staging.kind, r) = key
    BY <1>7, RowKeyOfRow DEF r
  <2>8. RowShaped(key)
    BY <2>1 DEF RowShaped, CommitKey, StagedInv, NarrowKey, WideKey
  <2> HIDE DEF key, n
  <2>9. \A i \in 1..Len(staging'.rows) : RowShaped(RowKey(staging'.kind, staging'.rows[i]))
    <3> SUFFICES ASSUME NEW i \in 1..(n + 1)
                 PROVE  RowShaped(RowKey(staging.kind, staging'.rows[i]))
      BY <2>3, <2>6
    <3>1. CASE i = n + 1
      BY <2>6, <2>7, <2>8, <3>1
    <3>2. CASE i # n + 1
      BY <2>6, <3>2 DEF StagedInv, AllShaped, n
    <3> QED
      BY <3>1, <3>2
  <2>10. AllShaped'
    BY <2>1, <2>9 DEF AllShaped, RowShaped
  <2> QED
    BY <2>1, <2>2, <2>10 DEF StagedInv
<1>8. ASSUME NEW h \in Handles, CommitRefused(h) PROVE StagedInv'
  BY <1>1, <1>8 DEF CommitRefused, world, record
<1>9. ASSUME NEW kind \in ClientStagings, set_staging(kind) PROVE StagedInv'
  <2>1. /\ staging'.rows = <<>> /\ staging'.sorted
        /\ UNCHANGED <<mode, wide_width, pending_address, stage>>
        /\ blob' # "null" => blob # "null"
    BY <1>9 DEF set_staging, EmptyStaging, NoStaging, record
  <2> QED
    BY <2>1 DEF StagedInv, AllShaped
<1>10. CASE finish
  <2>1. UNCHANGED <<mode, blob, wide_width, pending_address>>
    BY <1>10, FinishCases DEF finish, record
  <2>2. staging.kind = "none" => Len(Entering.rows) = 0
    BY EnteringType
  <2>3. \A i \in 1..Len(Entering.rows) : RowShaped(RowKey(Entering.kind, Entering.rows[i]))
    BY <2>2, EnteringType DEF StagedInv, AllShaped
  <2>4. (mode = "undecided" \/ blob = "dangling") => Entering.rows = <<>>
    BY EnteringType DEF StagedInv
  <2>5. CASE staging' = Entering /\ (stage' = "layout" => Entering.sorted)
    <3>1. AllShaped'
      BY <2>1, <2>3, <2>5 DEF AllShaped, RowShaped
    <3> QED
      BY <2>1, <2>4, <2>5, <3>1 DEF StagedInv
  <2>6. ASSUME NEW q \in SortingPermutations(Entering),
               staging' = [Entering EXCEPT !.rows = Permuted(@, q), !.sorted = TRUE]
        PROVE  StagedInv'
    <3>1. Entering.rows \in Seq(RowType(Entering.kind, Len(tuples)))
      BY EnteringType
    <3>2. /\ staging'.rows = Permuted(Entering.rows, q) /\ staging'.sorted
          /\ staging'.kind = Entering.kind
      BY <2>6, EnteringType
    <3>3. /\ staging'.rows = [i \in DOMAIN Entering.rows |-> staging'.rows[i]]
          /\ \A i \in DOMAIN Entering.rows : staging'.rows[i] = Entering.rows[q[i]]
      BY <3>2 DEF Permuted
    <3>4. IsSequence(Entering.rows) /\ DOMAIN Entering.rows = 1..Len(Entering.rows)
      BY <3>1 DEF IsSequence
    <3>5. Len(staging'.rows) = Len(Entering.rows)
      BY <3>3, <3>4, SequenceOf
    <3>6. \A i \in 1..Len(Entering.rows) : q[i] \in 1..Len(Entering.rows)
      BY <3>4 DEF SortingPermutations
    <3>7. \A i \in 1..Len(staging'.rows) : RowShaped(RowKey(staging'.kind, staging'.rows[i]))
      BY <2>3, <3>2, <3>3, <3>4, <3>5, <3>6
    <3>8. AllShaped'
      BY <2>1, <3>7 DEF AllShaped, RowShaped
    <3>9. (mode = "undecided" \/ blob = "dangling") => staging'.rows = <<>>
      <4> SUFFICES ASSUME mode = "undecided" \/ blob = "dangling" PROVE staging'.rows = <<>>
        OBVIOUS
      <4>1. Entering.rows = <<>>
        BY <2>4
      <4> QED
        BY <3>3, <4>1
    <3> QED
      BY <2>1, <3>2, <3>8, <3>9 DEF StagedInv
  <2> QED
    BY <1>10, <2>5, <2>6, FinishCases
<1> QED
  BY <1>2, <1>4, <1>5, <1>6, <1>7, <1>8, <1>9, <1>10
     DEF BuilderNext, SetRejected, CommitRejected, SetStagingRejected, BeginRejected,
         FinishRejected, begin_record, begin_record_at

----------------------------------------------------------------------------
(* The keys of the rows.                                                   *)
KeyWidth == IF wide THEN wide_width ELSE 0

(* They are keys of one table.                                             *)
LEMMA RowKeys ==
    ASSUME TypeOK, Shape, StagedInv, NEW k \in 1..Len(Rows)
    PROVE  /\ KeyOfRow(k) \in KeySpace(KeyWidth)
           /\ PartitionOfRow(k) \in Word /\ KeyOfRow(k).value \in Word
           /\ wide => KeyOfRow(k).value = 0
           /\ ~wide => KeyOfRow(k).bytes = <<>>
<1> DEFINE key == KeyOfRow(k)
<1>1. PartitionOfRow(k) \in Word /\ key.value \in Word
  BY RowKeyType
<1>2. key = [partition |-> key.partition, value |-> key.value, bytes |-> key.bytes]
  BY DEF KeyOfRow, RowKey, NarrowKey
<1>3. key.bytes \in Seq(Byte)
  <2>1. Rows[k] \in RowType(staging.kind, Len(tuples))
    BY DEF TypeOK, Rows
  <2>2. CASE staging.kind = "memory"
    BY <2>2 DEF KeyOfRow, RowKey, NarrowKey
  <2>3. CASE staging.kind # "memory"
    BY <2>1, <2>3 DEF RowType, KeyOfRow, RowKey
  <2> QED
    BY <2>2, <2>3
<1>4. RowShaped(key)
  BY DEF StagedInv, AllShaped, Rows, KeyOfRow
<1> HIDE DEF key
<1>5. (wide => key.value = 0) /\ (~wide => key.bytes = <<>>) /\ Len(key.bytes) = KeyWidth
  BY <1>4 DEF RowShaped, wide, KeyWidth
<1>6. key.bytes \in [1..KeyWidth -> Byte]
  BY <1>3, <1>5
<1>7. key.partition \in Nat /\ key.value \in Nat
  BY <1>1, WeightNat DEF Word, PartitionOfRow, key
<1>8. key \in KeySpace(KeyWidth)
  BY <1>2, <1>6, <1>7 DEF KeySpace
<1> QED
  BY <1>1, <1>5, <1>8 DEF key

(* In the layout each row is below every later one.                        *)
LEMMA RowsIncrease ==
    ASSUME TypeOK, Shape, StagedInv, SortedFlagExact, stage = "layout",
           NEW i \in 1..Len(Rows), NEW j \in 1..Len(Rows), i < j
    PROVE  KeyLess(KeyOfRow(i), KeyOfRow(j))
<1> DEFINE n == Len(Rows)
           S == {m \in Nat : i + (m + 1) <= n => KeyLess(KeyOfRow(i), KeyOfRow(i + (m + 1)))}
<1>1. n \in Nat /\ KeyWidth \in Nat
  BY DEF TypeOK, Rows, KeyWidth
<1>2. \A k \in 1..(n - 1) : KeyLess(KeyOfRow(k), KeyOfRow(k + 1))
  <2>1. Increasing(StagedKeys(staging))
    BY DEF StagedInv, SortedFlagExact
  <2>2. /\ Len(StagedKeys(staging)) = n
        /\ \A k \in 1..n : StagedKeys(staging)[k] = KeyOfRow(k)
    <3>1. staging.rows \in Seq(RowType(staging.kind, Len(tuples)))
      BY DEF TypeOK
    <3> QED
      BY <3>1, StagedKeysLen DEF Rows, KeyOfRow
  <2> QED
    BY <1>1, <2>1, <2>2 DEF Increasing
<1> HIDE DEF n
<1>3. 0 \in S
  BY <1>1, <1>2 DEF n
<1>4. ASSUME NEW m \in Nat, m \in S PROVE m + 1 \in S
  <2> SUFFICES ASSUME i + ((m + 1) + 1) <= n
               PROVE  KeyLess(KeyOfRow(i), KeyOfRow(i + ((m + 1) + 1)))
    OBVIOUS
  <2> DEFINE a == i + (m + 1)  b == i + ((m + 1) + 1)
  <2>1. a \in 1..n /\ b \in 1..n /\ b = a + 1 /\ a \in 1..(n - 1)
    BY <1>1
  <2>2. KeyLess(KeyOfRow(i), KeyOfRow(a))
    BY <1>1, <1>4, <2>1
  <2> HIDE DEF a, b
  <2>3. KeyLess(KeyOfRow(a), KeyOfRow(b))
    BY <1>2, <2>1
  <2>4. KeyLess(KeyOfRow(i), KeyOfRow(b))
    BY <1>1, <2>1, <2>2, <2>3, RowKeys, KeyOrder DEF n
  <2> QED
    BY <2>4 DEF b
<1> HIDE DEF S
<1>5. \A m \in Nat : m \in S
  BY <1>3, <1>4, NatSetInduction
<1> DEFINE m == j - (i + 1)
<1>6. m \in Nat /\ i + (m + 1) = j /\ i + (m + 1) <= n
  BY <1>1 DEF n
<1> HIDE DEF m
<1>7. m \in S
  BY <1>5, <1>6
<1>8. KeyLess(KeyOfRow(i), KeyOfRow(i + (m + 1)))
  BY <1>6, <1>7 DEF S
<1> QED
  BY <1>6, <1>8

(* So partitions never go down, and within one the addresses go up.        *)
LEMMA RowsOrdered ==
    ASSUME TypeOK, Shape, StagedInv, SortedFlagExact, stage = "layout",
           NEW i \in 1..Len(Rows), NEW j \in 1..Len(Rows), i < j
    PROVE  /\ PartitionOfRow(i) <= PartitionOfRow(j)
           /\ PartitionOfRow(i) = PartitionOfRow(j) =>
                 IF wide THEN LexLess(KeyOfRow(i).bytes, KeyOfRow(j).bytes)
                         ELSE KeyOfRow(i).value < KeyOfRow(j).value
<1> DEFINE k == KeyOfRow(i)  l == KeyOfRow(j)
<1>1. KeyLess(k, l)
  BY RowsIncrease
<1>2. /\ k.partition \in Nat /\ l.partition \in Nat /\ k.value \in Nat /\ l.value \in Nat
      /\ wide => k.value = 0 /\ l.value = 0
      /\ ~wide => k.bytes = <<>> /\ l.bytes = <<>>
  BY RowKeys DEF KeySpace
<1>3. ~LexLess(<<>>, <<>>)
  BY DEF LexLess
<1> HIDE DEF k, l
<1>4. /\ k.partition <= l.partition
      /\ k.partition = l.partition =>
            IF wide THEN LexLess(k.bytes, l.bytes) ELSE k.value < l.value
  BY <1>1, <1>2, <1>3 DEF KeyLess
<1> QED
  BY <1>4 DEF k, l, PartitionOfRow

----------------------------------------------------------------------------
(* What trimming does to a number.                                         *)

(* A number is a multiple of a divisor and a remainder below it.           *)
LEMMA Quotient ==
    ASSUME NEW v \in Nat, NEW a \in Nat \ {0}
    PROVE  /\ v \div a \in Nat /\ v % a \in Nat /\ v % a < a
           /\ v = (v \div a) * a + (v % a)
<1> DEFINE q == v \div a  r == v % a
<1>1. q \in Nat /\ r \in 0..(a - 1) /\ v = a * q + r
  OBVIOUS
<1> HIDE DEF q, r
<1>2. a * q = q * a
  BY <1>1
<1>3. q \in Nat /\ r \in Nat /\ r < a /\ v = q * a + r
  BY <1>1, <1>2
<1> QED
  BY <1>3 DEF q, r

(* And in one way only.                                                    *)
LEMMA OneQuotient ==
    ASSUME NEW q \in Nat, NEW r \in Nat, NEW a \in Nat \ {0}, r < a
    PROVE  (q * a + r) \div a = q /\ (q * a + r) % a = r
<1> DEFINE v == q * a + r  p == v \div a  s == v % a
<1>1. v \in Nat
  OBVIOUS
<1>2. p \in Nat /\ s \in Nat /\ s < a /\ q * a + r = p * a + s
  BY <1>1, Quotient
<1> HIDE DEF p, s
<1>3. p = q
  <2>1. CASE p < q
    <3>1. (p + 1) * a <= q * a /\ (p + 1) * a = p * a + a
      BY <1>2, <2>1, TimesAtLeast
    <3>2. p * a \in Nat /\ q * a \in Nat
      BY <1>2
    <3> QED
      BY <1>2, <3>1, <3>2
  <2>2. CASE q < p
    <3>1. (q + 1) * a <= p * a /\ (q + 1) * a = q * a + a
      BY <1>2, <2>2, TimesAtLeast
    <3>2. p * a \in Nat /\ q * a \in Nat
      BY <1>2
    <3> QED
      BY <1>2, <3>1, <3>2
  <2> QED
    BY <1>2, <2>1, <2>2
<1>4. s = r
  <2>1. q * a \in Nat
    OBVIOUS
  <2> QED
    BY <1>2, <1>3, <2>1
<1> QED
  BY <1>3, <1>4 DEF p, s

(* The bytes from m up are zero: the word is below the weight of byte m.   *)
LEMMA HighZeros ==
    ASSUME NEW v \in Word, NEW m \in 0..WordBytes,
           \A b \in m..(WordBytes - 1) : Digit(v, b) = 0
    PROVE  v < Weight[m]
<1> DEFINE S == {k \in Nat : k + m <= WordBytes => v < Weight[WordBytes - k]}
<1>1. v \in Nat /\ v < WordSize /\ WordBytes \in Nat
  BY WeightNat DEF Word
<1>2. 0 \in S
  BY <1>1 DEF WordSize
<1>3. ASSUME NEW k \in Nat, k \in S PROVE k + 1 \in S
  <2> SUFFICES ASSUME (k + 1) + m <= WordBytes PROVE v < Weight[WordBytes - (k + 1)]
    OBVIOUS
  <2> DEFINE c == WordBytes - (k + 1)  a == Weight[c]  q == v \div a
  <2>1. c \in m..(WordBytes - 1) /\ c \in Nat /\ c + 1 = WordBytes - k /\ k + m <= WordBytes
    BY <1>1
  <2>2. v < Weight[c + 1]
    BY <1>3, <2>1
  <2> HIDE DEF c
  <2>3. a \in Nat \ {0} /\ Weight[c + 1] = ByteBase * a /\ ByteBase \in Nat \ {0}
    BY <1>1, <2>1, WeightNat
  <2>4. q % ByteBase = 0
    BY <2>1 DEF Digit
  <2> HIDE DEF a
  <2> DEFINE r == v % a
  <2>5. q \in Nat /\ r \in Nat /\ v = q * a + r /\ r < a
    BY <1>1, <2>3, Quotient
  <2> HIDE DEF q, r
  <2>6. q < ByteBase
    <3> SUFFICES ASSUME ByteBase <= q PROVE FALSE
      BY <2>3, <2>5
    <3>1. ByteBase * a <= q * a
      BY <2>3, <2>5, TimesAtLeast
    <3> DEFINE x == q * a  y == ByteBase * a
    <3>2. x \in Nat /\ y \in Nat /\ y <= x /\ v = x + r /\ v < y /\ r \in Nat
      BY <2>2, <2>3, <2>5, <3>1
    <3> HIDE DEF x, y
    <3> QED
      BY <3>2
  <2>7. q = 0 /\ 0 * a = 0
    BY <2>3, <2>4, <2>5, <2>6
  <2>8. v < a
    BY <2>3, <2>5, <2>7
  <2> QED
    BY <2>8 DEF a, c
<1> HIDE DEF S
<1>4. \A k \in Nat : k \in S
  BY <1>2, <1>3, NatSetInduction
<1> DEFINE k == WordBytes - m
<1>5. k \in Nat /\ k + m = WordBytes /\ WordBytes - k = m
  BY <1>1
<1> HIDE DEF k
<1>6. k \in S
  BY <1>4, <1>5
<1> QED
  BY <1>1, <1>5, <1>6 DEF S

(* The bytes below m are zero: the word is a multiple of the weight of m.  *)
LEMMA LowZeros ==
    ASSUME NEW v \in Nat, NEW m \in 0..WordBytes,
           \A b \in 0..(m - 1) : Digit(v, b) = 0
    PROVE  v % Weight[m] = 0
<1> DEFINE S == {k \in Nat : k <= m => v % Weight[k] = 0}
<1>1. WordBytes \in Nat /\ m \in Nat
  BY WeightNat
<1>2. 0 \in S
  BY WeightNat
<1>3. ASSUME NEW k \in Nat, k \in S PROVE k + 1 \in S
  <2> SUFFICES ASSUME k + 1 <= m PROVE v % Weight[k + 1] = 0
    OBVIOUS
  <2> DEFINE a == Weight[k]  q == v \div a  p == q \div ByteBase
  <2>1. /\ a \in Nat \ {0} /\ Weight[k + 1] = ByteBase * a /\ ByteBase \in Nat \ {0}
        /\ Weight[k + 1] \in Nat \ {0}
    BY <1>1, WeightNat
  <2>2. v % a = 0 /\ q % ByteBase = 0
    BY <1>1, <1>3 DEF Digit
  <2> HIDE DEF a
  <2>3. q \in Nat /\ v = q * a
    BY <2>1, <2>2, Quotient
  <2> HIDE DEF q
  <2>4. p \in Nat /\ q = p * ByteBase
    BY <2>1, <2>2, <2>3, Quotient
  <2> HIDE DEF p
  <2>5. v = p * (ByteBase * a) + 0
    BY <2>1, <2>3, <2>4
  <2> DEFINE c == ByteBase * a
  <2>6. c \in Nat \ {0} /\ Weight[k + 1] = c
    BY <2>1
  <2> HIDE DEF c
  <2>7. (p * c + 0) % c = 0
    BY <2>4, <2>6, OneQuotient
  <2> QED
    BY <2>5, <2>6, <2>7 DEF c
<1> HIDE DEF S
<1>4. \A k \in Nat : k \in S
  BY <1>2, <1>3, NatSetInduction
<1> QED
  BY <1>1, <1>4 DEF S

(* What the writer stores of the address of a covered record, an integer.  *)
StoredValue(range, v) ==
    IF range.skip >= WordBytes THEN 0 ELSE store_uint(range.width, v \div Weight[range.skip])

(* Nothing is lost by trimming: the stored integer fits the width, and is  *)
(* the address once shifted back.                                          *)
LEMMA StoredExactly ==
    ASSUME NEW range, range.skip \in Nat, range.width \in Nat,
           range.skip + range.width <= WordBytes,
           NEW v \in Nat, v < Weight[range.skip + range.width], v % Weight[range.skip] = 0
    PROVE  /\ StoredValue(range, v) \in 0..(Weight[range.width] - 1)
           /\ StoredValue(range, v) * Weight[range.skip] = v
<1> DEFINE s == range.skip  w == range.width  a == Weight[s]  b == Weight[w]  q == v \div a
<1>1. /\ s \in Nat /\ w \in Nat /\ s + w <= WordBytes
      /\ WordBytes \in Nat /\ s <= WordBytes /\ w <= WordBytes
  BY WeightNat
<1>2. a \in Nat \ {0} /\ b \in Nat \ {0} /\ Weight[s + w] = b * a
  <2>1. s \in 0..WordBytes /\ w \in 0..WordBytes
    BY <1>1
  <2>2. a \in Nat \ {0} /\ b \in Nat \ {0}
    BY <2>1, WeightNat
  <2>3. s + w = w + s /\ w + s <= WordBytes
    BY <1>1
  <2> HIDE DEF s, w
  <2>4. Weight[w + s] = b * a
    BY <1>1, <2>3, WeightSum DEF a, b
  <2> QED
    BY <2>2, <2>3, <2>4
<1>3. StoredValue(range, v) = IF s >= WordBytes THEN 0 ELSE q % b
  BY DEF StoredValue, store_uint
<1>8. v % a = 0 /\ v < b * a
  BY <1>2
<1> HIDE DEF a, b
<1>9. (v \div a) \in Nat /\ v = (v \div a) * a + (v % a)
  BY <1>2, Quotient
<1>4. q \in Nat /\ v = q * a
  BY <1>2, <1>8, <1>9
<1> HIDE DEF q
<1>5. q < b
  <2> SUFFICES ASSUME b <= q PROVE FALSE
    BY <1>2, <1>4
  <2>1. b * a <= q * a
    BY <1>2, <1>4, TimesAtLeast
  <2> QED
    BY <1>2, <1>4, <1>8, <2>1
<1>6. CASE s >= WordBytes
  <2>1. w = 0
    BY <1>1, <1>6
  <2>2. b = 1
    BY <2>1, WeightNat DEF b
  <2>3. q = 0
    BY <1>4, <1>5, <2>2
  <2>4. v = 0
    BY <1>2, <1>4, <2>3
  <2>5. StoredValue(range, v) = 0
    BY <1>3, <1>6
  <2>6. 0 * a = 0
    BY <1>2
  <2> QED
    BY <1>2, <2>2, <2>4, <2>5, <2>6 DEF a, b
<1>7. CASE ~(s >= WordBytes)
  <2>1. q % b = q
    BY <1>2, <1>4, <1>5
  <2>2. StoredValue(range, v) = q
    BY <1>3, <1>7, <2>1
  <2> QED
    BY <1>2, <1>4, <1>5, <2>2 DEF a, b
<1> QED
  BY <1>6, <1>7

(* The order is kept.                                                      *)
LEMMA StoredOrder ==
    ASSUME NEW range, range.skip \in Nat, range.width \in Nat,
           range.skip + range.width <= WordBytes,
           NEW v \in Nat, v < Weight[range.skip + range.width], v % Weight[range.skip] = 0,
           NEW u \in Nat, u < Weight[range.skip + range.width], u % Weight[range.skip] = 0,
           v < u
    PROVE  StoredValue(range, v) < StoredValue(range, u)
<1> DEFINE a == Weight[range.skip]  x == StoredValue(range, v)  y == StoredValue(range, u)
<1>1. a \in Nat \ {0} /\ Weight[range.width] \in Nat
  BY WeightNat
<1>2. x \in 0..(Weight[range.width] - 1) /\ x * a = v
  BY StoredExactly
<1>3. y \in 0..(Weight[range.width] - 1) /\ y * a = u
  BY StoredExactly
<1> HIDE DEF a, x, y
<1>4. x \in Nat /\ y \in Nat
  BY <1>1, <1>2, <1>3
<1>5. y <= x => u <= v
  BY <1>1, <1>2, <1>3, <1>4, TimesAtLeast
<1> QED
  BY <1>4, <1>5 DEF x, y

----------------------------------------------------------------------------
(* What the layout and the writer leave behind, run by run.                *)

(* A byte address is longer than a word, and its length fits 8 bits.       *)
LongAddresses == wide => wide_width \in (WordBytes + 1)..(Sizes.uint8 - 1)

(* The range holds every byte that an address of the run uses.             *)
Covers(range, run) ==
    /\ range.skip \in Nat /\ range.width \in Nat
    /\ range.skip + range.width <= address_width
    /\ \A j \in run :
          IF wide
          THEN \A b \in 1..address_width :
                  KeyOfRow(j).bytes[b] # 0 => b \in (range.skip + 1)..(range.skip + range.width)
          ELSE /\ KeyOfRow(j).value < Weight[range.skip + range.width]
               /\ KeyOfRow(j).value % Weight[range.skip] = 0

CoveredAt(k) == Covers(ranges[RunsTo(k)], Run(k - 1))

(* The ranges are those of the runs, measured or the whole address.        *)
RangesInv ==
    wpc # "off" =>
        /\ address_width = AddressWidth
        /\ value_stride # 0
        /\ AddressFits =>
              \A k \in Starts(IF wpc = "measure" THEN row ELSE Len(Rows)) : CoveredAt(k)

(* The slot d holds the records from k to the end of their run.            *)
Describes(d, range, k) ==
    /\ d.entry.partition = PartitionOfRow(k)
    /\ d.entry.count = RunEnd(k - 1) - (k - 1)
    /\ d.entry.width = range.width /\ d.entry.skip = range.skip
    /\ d.entry.schema_id \in 0..MaxLocalWidth
    /\ d.entry.remap_count \in 0..tuple_count
    /\ (d.entry.schema_id = 0) <=> (d.entry.remap_count = 0)
    /\ d.entry.schema_id # 0 => interned
    /\ d.block.remap_bytes = d.entry.remap_count * RemapEntrySize
    /\ d.block.stride = range.width
                          + (IF d.entry.schema_id # 0 THEN d.entry.schema_id ELSE Payload)
    /\ \A i \in 0..(d.entry.count - 1) :
          LET stored == StoredAddress(address_width, wide, KeyOfRow(k + i), range)
          IN  /\ d.block.records[i].value = stored.value
              /\ d.block.records[i].bytes = stored.bytes

DescribedAt(k) == Describes(directory[RunsTo(k)], ranges[RunsTo(k)], k)

(* One slot for every run written so far, in their order.                  *)
SlotsInv ==
    /\ \A k \in Starts(row) : wpc \notin {"off", "measure"} => DescribedAt(k)
    /\ \A i \in 1..Len(directory) : \E k \in Starts(row) : i = RunsTo(k)
    /\ wpc \in {"records", "directory", "written"} /\ interned => tuple_count <= MaxDictEntries

(* Their records follow each other in the file.                            *)
PlacesInv ==
    /\ pos \in Nat
    /\ \A i \in 1..Len(directory) :
          /\ directory[i].entry.offset \in Nat /\ SlotBytes(directory[i]) \in Nat \ {0}
          /\ directory[i].entry.offset + SlotBytes(directory[i]) <= pos
          /\ \A j \in 1..(i - 1) :
                directory[j].entry.offset + SlotBytes(directory[j]) <= directory[i].entry.offset

(* The file that was written from them.                                    *)
UsesDense == use_dense(options.max_dense_slots, WrittenPartitions)
Widths == DirWidths(UsesDense)
Out == SlotsOut(UsesDense)

WrittenAs(f) ==
    /\ f.length = pos
    /\ f.foot.dense = UsesDense
    /\ f.foot.dir_count = Cardinality(DOMAIN Out)
    /\ f.schema.dir = Widths
    /\ f.schema.address_width = uint8(address_width)
    /\ f.schema.record_stride = address_width + Payload
    /\ f.schema.address_span \in {0, AddressSpan}
    /\ f.slots = [s \in DOMAIN Out |-> encode_dir_entry(Widths, Out[s])]
    /\ f.blocks = [o \in {Entries[i].offset : i \in DOMAIN directory} |->
                      directory[CHOOSE i \in DOMAIN directory : Entries[i].offset = o].block]

FileWritten == WrittenAs(file[1])

FileInv ==
    /\ file # None => wpc = "written" /\ FileWritten
    /\ wpc = "written" => file # None

----------------------------------------------------------------------------
(* The ranges.                                                             *)

(* A stretch holds what it was taken from and stays below its bound.       *)
LEMMA StretchHolds ==
    ASSUME NEW n \in Nat, NEW used \in SUBSET (0..(n - 1))
    PROVE  LET s == Stretch(used)
           IN  /\ s.skip \in Nat /\ s.width \in Nat /\ s.skip + s.width <= n
               /\ \A b \in used : s.skip <= b /\ b < s.skip + s.width
<1>1. CASE used = {}
  BY <1>1 DEF Stretch
<1>2. CASE used # {}
  <2>1. used \in SUBSET Nat /\ used \in SUBSET (0..n)
    OBVIOUS
  <2> DEFINE low == Min(used)  high == Max(used)
  <2>2. low \in used /\ \A y \in used : low <= y
    BY <1>2, <2>1, MinOfNats
  <2>3. high \in used /\ \A y \in used : y <= high
    BY <1>2, <2>1, MaxOfNats
  <2>4. Stretch(used) = [skip |-> low, width |-> high + 1 - low]
    BY <1>2 DEF Stretch
  <2> HIDE DEF low, high
  <2>5. low \in 0..(n - 1) /\ high \in 0..(n - 1) /\ low <= high
    BY <2>2, <2>3
  <2>6. Stretch(used).skip = low /\ Stretch(used).width = high + 1 - low
    BY <2>4
  <2>7. low + (high + 1 - low) = high + 1
    BY <2>5
  <2> QED
    BY <2>1, <2>2, <2>3, <2>5, <2>6, <2>7
<1> QED
  BY <1>1, <1>2

(* The address width of a narrow build holds every address.                *)
LEMMA AddressBound ==
    ASSUME TypeOK, ~wide, address_width = AddressWidth, NEW k \in 1..Len(Rows)
    PROVE  KeyOfRow(k).value < Weight[address_width] /\ address_width \in 1..WordBytes
<1> DEFINE V == {KeyOfRow(i).value : i \in DOMAIN Rows}  m == Max({0} \cup V)
           W == {w \in 1..WordBytes : w = WordBytes \/ m \div Weight[w] = 0}
           v == KeyOfRow(k).value
<1>1. DOMAIN Rows = 1..Len(Rows)
  BY DEF TypeOK, Rows
<1>2. WordSize \in Nat \ {0} /\ WordBytes \in Nat \ {0} /\ Word = 0..(WordSize - 1)
  BY WeightNat DEF Word
<1>3. V \subseteq Word /\ v \in V
  BY <1>1, RowKeyType
<1>4. m \in Word /\ v <= m
  <2> DEFINE n == WordSize - 1  S == {0} \cup V
  <2>1. n \in Nat /\ S \in SUBSET (0..n) /\ S # {} /\ v \in S
    BY <1>2, <1>3
  <2> HIDE DEF n, S
  <2>2. Max(S) \in S /\ v <= Max(S)
    BY <2>1, MaxOfNats
  <2> QED
    BY <1>2, <2>1, <2>2 DEF n, S
<1>5. address_width = Min(W)
  BY DEF AddressWidth, exact_width_for
<1> HIDE DEF m
<1>6. W \in SUBSET Nat /\ W # {}
  BY <1>2
<1>7. address_width \in W
  BY <1>5, <1>6, MinOfNats
<1>8. m < Weight[address_width]
  <2> DEFINE a == Weight[address_width]  q == m \div a  r == m % a
  <2>1. CASE address_width = WordBytes
    BY <1>2, <1>4, <2>1 DEF WordSize
  <2>2. CASE q = 0
    <3>1. a \in Nat \ {0}
      BY <1>7, WeightNat
    <3>2. m \in Nat
      BY <1>2, <1>4
    <3> HIDE DEF a
    <3>3. q \in Nat /\ r \in Nat /\ r < a /\ m = q * a + r
      BY <3>1, <3>2, Quotient
    <3> HIDE DEF q, r
    <3>4. 0 * a = 0
      BY <3>1
    <3>5. m < a
      BY <2>2, <3>3, <3>4
    <3> QED
      BY <3>5 DEF a
  <2> QED
    BY <1>7, <2>1, <2>2
<1>9. v \in Nat /\ m \in Nat /\ Weight[address_width] \in Nat
  BY <1>2, <1>3, <1>4, <1>7, WeightNat
<1> HIDE DEF v
<1>10. v < Weight[address_width]
  BY <1>4, <1>8, <1>9
<1> QED
  BY <1>7, <1>10 DEF v

(* A number below a weight has no byte from there up.                      *)
LEMMA NoHighByte ==
    ASSUME NEW v \in Nat, NEW m \in 0..WordBytes, v < Weight[m], NEW b \in m..(WordBytes - 1)
    PROVE  Digit(v, b) = 0
<1> DEFINE a == Weight[b]  q == v \div a  r == v % a
<1>1. WordBytes \in Nat /\ ByteBase \in Nat \ {0} /\ b \in 0..WordBytes /\ m \in Nat /\ m <= b
  BY WeightNat
<1>2. a \in Nat \ {0} /\ Weight[m] \in Nat /\ Weight[m] <= a
  BY <1>1, WeightNat, WeightMonotone
<1>3. v < a
  BY <1>2
<1> HIDE DEF a
<1>4. (0 * a + v) \div a = 0 /\ 0 * a + v = v
  BY <1>2, <1>3, OneQuotient
<1>5. q = 0
  BY <1>4
<1> HIDE DEF q
<1>6. q % ByteBase = 0
  BY <1>1, <1>5
<1> QED
  BY <1>6 DEF q, a, Digit

(* The measured range of a run covers the addresses of its records.        *)
LEMMA TrimmedCovers ==
    ASSUME TypeOK, Shape, StagedInv, address_width = AddressWidth,
           NEW run \in SUBSET (1..Len(Rows))
    PROVE  Covers(RangeOf(run), run)
<1> DEFINE range == RangeOf(run)  aw == address_width
<1>1. CASE wide
  <2> DEFINE used == {b \in 0..(aw - 1) : \E a \in {KeyOfRow(k).bytes : k \in run} : a[b + 1] # 0}
  <2>1. aw = wide_width /\ aw \in Nat
    BY <1>1 DEF AddressWidth, TypeOK
  <2>2. range = Stretch(used)
    BY <1>1, <2>1 DEF RangeOf, trim_bytes
  <2>3. used \in SUBSET (0..(aw - 1))
    OBVIOUS
  <2>4. \A j \in run : \A b \in 1..aw : KeyOfRow(j).bytes[b] # 0 => b - 1 \in used
    <3> SUFFICES ASSUME NEW j \in run, NEW b \in 1..aw, KeyOfRow(j).bytes[b] # 0
                 PROVE  b - 1 \in used
      OBVIOUS
    <3>1. b - 1 \in 0..(aw - 1) /\ (b - 1) + 1 = b
      BY <2>1
    <3>2. KeyOfRow(j).bytes[(b - 1) + 1] # 0
      BY <3>1
    <3> QED
      BY <3>1, <3>2
  <2> HIDE DEF used, range, aw
  <2>5. /\ range.skip \in Nat /\ range.width \in Nat /\ range.skip + range.width <= aw
        /\ \A b \in used : range.skip <= b /\ b < range.skip + range.width
    BY <2>1, <2>2, <2>3, StretchHolds
  <2>6. \A j \in run : \A b \in 1..aw :
            KeyOfRow(j).bytes[b] # 0 => b \in (range.skip + 1)..(range.skip + range.width)
    <3> SUFFICES ASSUME NEW j \in run, NEW b \in 1..aw, KeyOfRow(j).bytes[b] # 0
                 PROVE  b \in (range.skip + 1)..(range.skip + range.width)
      OBVIOUS
    <3>1. b - 1 \in used
      BY <2>4
    <3>2. range.skip <= b - 1 /\ b - 1 < range.skip + range.width
      BY <2>5, <3>1
    <3> QED
      BY <2>1, <2>5, <3>2
  <2> QED
    BY <1>1, <2>5, <2>6 DEF Covers, aw, range
<1>2. CASE ~wide
  <2> DEFINE used == {b \in 0..(WordBytes - 1) :
                        \E v \in {KeyOfRow(k).value : k \in run} : Digit(v, b) # 0}
  <2>1. CASE run = {}
    <3>1. used = {}
      BY <2>1
    <3>2. range = [skip |-> 0, width |-> 0]
      BY <1>2, <3>1 DEF RangeOf, trim_bits, Stretch
    <3>3. aw \in Nat
      BY <1>2, WidthRange DEF AddressWidth
    <3> QED
      BY <2>1, <3>2, <3>3 DEF Covers
  <2>2. CASE run # {}
    <3>1. aw \in 1..WordBytes /\ \A k \in run : KeyOfRow(k).value < Weight[aw]
      BY <1>2, <2>2, AddressBound
    <3>2. \A k \in run : KeyOfRow(k).value \in Word /\ KeyOfRow(k).value \in Nat
      BY RowKeyType, WeightNat DEF Word
    <3>3. WordBytes \in Nat /\ aw \in Nat /\ aw \in 0..WordBytes
      BY <3>1, WeightNat
    <3>4. used \in SUBSET (0..(aw - 1))
      <4> SUFFICES ASSUME NEW b \in used PROVE b \in 0..(aw - 1)
        OBVIOUS
      <4>1. PICK k \in run : Digit(KeyOfRow(k).value, b) # 0
        OBVIOUS
      <4>2. b \in 0..(WordBytes - 1)
        OBVIOUS
      <4>3. b \notin aw..(WordBytes - 1)
        BY <3>1, <3>2, <3>3, <4>1, NoHighByte
      <4> QED
        BY <3>3, <4>2, <4>3
    <3>5. range = Stretch(used)
      BY <1>2 DEF RangeOf, trim_bits
    <3>6. \A k \in run : \A b \in 0..(WordBytes - 1) :
              Digit(KeyOfRow(k).value, b) # 0 => b \in used
      OBVIOUS
    <3> HIDE DEF used, range, aw
    <3>7. /\ range.skip \in Nat /\ range.width \in Nat /\ range.skip + range.width <= aw
          /\ \A b \in used : range.skip <= b /\ b < range.skip + range.width
      BY <3>3, <3>4, <3>5, StretchHolds
    <3>8. ASSUME NEW k \in run
          PROVE  /\ KeyOfRow(k).value < Weight[range.skip + range.width]
                 /\ KeyOfRow(k).value % Weight[range.skip] = 0
      <4> DEFINE v == KeyOfRow(k).value  s == range.skip  e == range.skip + range.width
      <4>1. v \in Word /\ v \in Nat
        BY <3>2
      <4>2. s \in 0..WordBytes /\ e \in 0..WordBytes
        BY <3>3, <3>7
      <4>3. \A b \in e..(WordBytes - 1) : Digit(v, b) = 0
        BY <3>3, <3>6, <3>7, <4>2
      <4>4. \A b \in 0..(s - 1) : Digit(v, b) = 0
        BY <3>3, <3>6, <3>7, <4>2
      <4> HIDE DEF v, s, e
      <4>5. v < Weight[e]
        BY <4>1, <4>2, <4>3, HighZeros
      <4>6. v % Weight[s] = 0
        BY <4>1, <4>2, <4>4, LowZeros
      <4> QED
        BY <4>5, <4>6 DEF v, s, e
    <3> QED
      BY <1>2, <3>7, <3>8 DEF Covers, aw, range
  <2> QED
    BY <2>1, <2>2
<1> QED
  BY <1>1, <1>2

(* A width that fits 8 bits is stored as it is.                            *)
LEMMA Uint8Same ==
    ASSUME NEW w \in Nat, w < Sizes.uint8 PROVE uint8(w) = w
BY FormatAssumption DEF uint8

(* So do the numbers that are stored in 8 bits, and the whole address.     *)
LEMMA RangesStored ==
    ASSUME TypeOK, Shape, StagedInv, AddressFits, address_width = AddressWidth,
           NEW run \in SUBSET (1..Len(Rows))
    PROVE  /\ Covers([skip |-> uint8(RangeOf(run).skip), width |-> uint8(RangeOf(run).width)], run)
           /\ Covers([skip |-> 0, width |-> uint8(address_width)], run)
<1>1. address_width \in Nat /\ address_width < Sizes.uint8
  <2>1. WordBytes \in Nat /\ Sizes.uint8 \in Nat /\ WordBytes < Sizes.uint8
    BY WordAssumption, FormatAssumption
  <2>2. CASE wide
    BY <2>1, <2>2 DEF AddressFits, AddressWidth, TypeOK
  <2>3. CASE ~wide
    BY <2>1, <2>3, WidthRange DEF AddressWidth
  <2> QED
    BY <2>2, <2>3
<1> DEFINE range == RangeOf(run)
<1>2. Covers(range, run)
  BY TrimmedCovers
<1>3. /\ range.skip \in Nat /\ range.width \in Nat /\ range.skip + range.width <= address_width
  BY <1>2 DEF Covers
<1>4. Sizes.uint8 \in Nat
  BY FormatAssumption
<1> HIDE DEF range
<1>5. uint8(range.skip) = range.skip /\ uint8(range.width) = range.width
  BY <1>1, <1>3, <1>4, Uint8Same
<1>6. Covers([skip |-> range.skip, width |-> range.width], run)
  BY <1>2 DEF Covers
<1>7. uint8(address_width) = address_width
  BY <1>1, Uint8Same
<1>8. Covers([skip |-> 0, width |-> address_width], run)
  <2>1. 0 + address_width = address_width /\ 0 + 1 = 1
    BY <1>1
  <2>2. CASE wide
    BY <1>1, <2>1, <2>2 DEF Covers
  <2>3. CASE ~wide
    <3>1. \A j \in run : KeyOfRow(j).value < Weight[address_width] /\ KeyOfRow(j).value \in Nat
      BY <2>3, AddressBound, RowKeyType, WeightNat DEF Word
    <3>2. \A v \in Nat : v % Weight[0] = 0
      BY WeightNat
    <3> QED
      BY <1>1, <2>1, <2>3, <3>1, <3>2 DEF Covers
  <2> QED
    BY <2>2, <2>3
<1> QED
  BY <1>5, <1>6, <1>7, <1>8 DEF range

(* The keys of the rows are those of before.                               *)
LEMMA SameKeys ==
    ASSUME UNCHANGED staging
    PROVE  \A i : KeyOfRow(i)' = KeyOfRow(i) /\ PartitionOfRow(i)' = PartitionOfRow(i)
BY DEF Rows, KeyOfRow, PartitionOfRow

(* A covered run stays covered.                                            *)
LEMMA CoverStays ==
    ASSUME UNCHANGED <<staging, blob, wide_width, options, shape>>,
           NEW k, Covers(ranges'[RunsTo(k)], Run(k - 1))
    PROVE  CoveredAt(k)'
<1>1. /\ RunsTo(k)' = RunsTo(k) /\ Run(k - 1)' = Run(k - 1)
      /\ address_width' = address_width /\ wide' = wide
      /\ \A i : KeyOfRow(i)' = KeyOfRow(i)
  BY SameMeasures, SameKeys
<1> QED
  BY <1>1 DEF CoveredAt, Covers

(* What the layout starts with.                                            *)
LEMMA LayoutStarts ==
    ASSUME TypeOK, StartLayout
    PROVE  (address_width = AddressWidth)' /\ value_stride' \in Nat \ {0}
<1> DEFINE offsets == FieldOffsets(options'.align)
           last_field == Max(Fields)
           stride == offsets[last_field] + FieldWidth(last_field)
<1>1. options'.align \in BOOLEAN
  BY WriterAssumption DEF StartLayout
<1>2. offsets \in [Fields -> Nat]
  BY <1>1, OffsetsFollow
<1>3. last_field \in Fields
  BY FieldIds
<1>4. FieldWidth(last_field) \in Nat \ {0}
  BY <1>3, FieldWidthRange, WordAssumption
<1> HIDE DEF offsets, last_field
<1>5. stride \in Nat \ {0}
  BY <1>2, <1>3, <1>4
<1> HIDE DEF stride
<1>6. value_stride' = stride /\ address_width' = AddressWidth
  BY DEF StartLayout, value_stride, address_width, stride, offsets, last_field
<1>7. AddressWidth' = AddressWidth
  BY DEF StartLayout, builder_vars, store, world, AddressWidth, wide, KeyOfRow, Rows
<1> QED
  BY <1>5, <1>6, <1>7

(* Every step keeps the ranges covering.                                   *)
LEMMA NextRanges ==
    /\ TypeOK /\ Shape /\ StagedInv /\ WalkInv
    /\ RangesInv /\ [Next]_vars
    => RangesInv'
<1> SUFFICES ASSUME TypeOK, Shape, StagedInv, WalkInv, RangesInv, [Next]_vars PROVE RangesInv'
  OBVIOUS
<1>1. RowsCounted /\ Len(Rows) \in Nat
  BY RowsAreCounted DEF RowsCounted
<1>2. CASE Consume
  <2>1. wpc' = "off"
    BY <1>2 DEF Consume, WalkInv, writer_vars
  <2> QED
    BY <2>1 DEF RangesInv
<1>3. CASE StartLayout
  <2>1. wpc' = "measure" /\ row' = 0
    BY <1>3 DEF StartLayout, WalkInv
  <2>2. Starts(0)' = {}
    BY DEF Starts
  <2>3. \A k \in Starts(row)' : CoveredAt(k)'
    BY <2>1, <2>2
  <2>4. (address_width = AddressWidth)' /\ value_stride' # 0
    BY <1>3, LayoutStarts
  <2> QED
    BY <2>1, <2>3, <2>4 DEF RangesInv
<1>4. ASSUME UNCHANGED <<staging, blob, wide_width, options, shape>>, wpc # "off",
             AddressFits =>
                 \A k \in Starts(IF wpc' = "measure" THEN row' ELSE Len(Rows)) :
                     Covers(ranges'[RunsTo(k)], Run(k - 1))
      PROVE  RangesInv'
  <2>1. /\ \A i : Starts(i)' = Starts(i)
        /\ Len(Rows)' = Len(Rows) /\ value_stride' = value_stride
    BY <1>4, SameMeasures
  <2>2. AddressWidth' = AddressWidth /\ address_width' = address_width
    BY <1>4 DEF AddressWidth, wide, KeyOfRow, Rows, address_width
  <2>3. AddressFits' <=> AddressFits
    BY <1>4 DEF AddressFits, wide
  <2>4. (IF wpc = "measure" THEN row ELSE Len(Rows))'
            = IF wpc' = "measure" THEN row' ELSE Len(Rows)
    BY <2>1
  <2>5. ASSUME AddressFits,
               NEW k \in Starts(IF wpc' = "measure" THEN row' ELSE Len(Rows))
        PROVE  CoveredAt(k)'
    BY <1>4, <2>5, CoverStays
  <2>6. AddressFits' =>
            \A k \in Starts(IF wpc = "measure" THEN row ELSE Len(Rows))' : CoveredAt(k)'
    BY <2>1, <2>3, <2>4, <2>5 DEF Starts
  <2> QED
    BY <1>4, <2>1, <2>2, <2>6 DEF RangesInv
<1>5. CASE MeasureRun
  <2> DEFINE e == RunEnd(row)  run == Run(row)  range == RangeOf(run)
             r == [skip |-> uint8(range.skip), width |-> uint8(range.width)]
             m == Len(ranges)
  <2>1. /\ UNCHANGED <<staging, blob, wide_width, options, shape>>
        /\ wpc = "measure" /\ wpc' = "measure" /\ row < Len(Rows) /\ row' = e
        /\ ranges' = Append(ranges, r)
    BY <1>5 DEF MeasureRun, RangeOf, builder_vars, store, world
  <2>2. row \in Nat /\ AtBoundary(row) /\ IsSequence(ranges) /\ m = RunsTo(row)
    BY <1>1, <2>1 DEF WalkInv
  <2>3. Starts(e) = Starts(row) \cup {row + 1}
    BY <1>1, <2>1, <2>2, OneRunFurther
  <2>4. RunsTo(row + 1) = m + 1 /\ \A k \in Starts(row) : RunsTo(k) \in 1..m
    BY <1>1, <2>1, <2>2, RunNumbers
  <2> HIDE DEF r
  <2>5. ranges'[m + 1] = r /\ \A i \in 1..m : ranges'[i] = ranges[i]
    BY <2>1, <2>2, AppendAny
  <2>6. ASSUME AddressFits, NEW k \in Starts(e)
        PROVE  Covers(ranges'[RunsTo(k)], Run(k - 1))
    <3>1. CASE k \in Starts(row)
      <4>1. CoveredAt(k)
        BY <2>1, <2>6, <3>1 DEF RangesInv
      <4> QED
        BY <2>4, <2>5, <3>1, <4>1 DEF CoveredAt
    <3>2. CASE k = row + 1
      <4>1. k - 1 = row /\ ranges'[RunsTo(k)] = r
        BY <2>2, <2>4, <2>5, <3>2
      <4>2. run \in SUBSET (1..Len(Rows))
        BY <1>1, <2>1, <2>2, RunIs
      <4>3. address_width = AddressWidth
        BY <2>1 DEF RangesInv
      <4>4. Covers(r, run)
        BY <2>6, <4>2, <4>3, RangesStored DEF r
      <4> QED
        BY <4>1, <4>4
    <3> QED
      BY <2>3, <3>1, <3>2
  <2> QED
    BY <1>4, <2>1, <2>6
<1>6. CASE Price
  <2> DEFINE full == [skip |-> 0, width |-> uint8(address_width)]
  <2>1. /\ UNCHANGED <<staging, blob, wide_width, options, shape>>
        /\ wpc = "measure" /\ wpc' = "dictionaries" /\ row = Len(Rows)
        /\ ranges' = ranges \/ ranges' = FullRanges(full)
    BY <1>6 DEF Price, builder_vars, store, world
  <2>2. IsSequence(ranges) /\ Len(ranges) = RunsTo(Len(Rows)) /\ AtBoundary(Len(Rows))
    BY <2>1 DEF WalkInv
  <2>3. ASSUME AddressFits, NEW k \in Starts(Len(Rows))
        PROVE  Covers(ranges'[RunsTo(k)], Run(k - 1))
    <3>1. CASE ranges' = ranges
      <4>1. CoveredAt(k)
        BY <2>1, <2>3 DEF RangesInv
      <4> QED
        BY <3>1, <4>1 DEF CoveredAt
    <3>2. CASE ranges' = FullRanges(full)
      <4>1. RunsTo(k) \in DOMAIN ranges
        BY <1>1, <2>2, RunNumbers DEF IsSequence
      <4>2. ranges'[RunsTo(k)] = full
        BY <3>2, <4>1 DEF FullRanges
      <4>3. address_width = AddressWidth
        BY <2>1 DEF RangesInv
      <4>4. k - 1 \in Nat /\ k - 1 < Len(Rows)
        BY <1>1 DEF Starts
      <4>5. Run(k - 1) \in SUBSET (1..Len(Rows))
        BY <1>1, <4>4, RunIs
      <4> QED
        BY <2>3, <4>2, <4>3, <4>5, RangesStored
    <3> QED
      BY <2>1, <3>1, <3>2
  <2> QED
    BY <1>4, <2>1, <2>3
<1>7. CASE /\ UNCHANGED <<staging, blob, wide_width, options, shape, ranges, row>>
           /\ (wpc \notin {"off", "measure"} /\ wpc' # "measure") \/ wpc' = wpc
  <2>1. CASE wpc = "off"
    BY <1>7, <2>1 DEF RangesInv
  <2>2. CASE wpc # "off"
    <3>1. ASSUME AddressFits,
                 NEW k \in Starts(IF wpc' = "measure" THEN row' ELSE Len(Rows))
          PROVE  Covers(ranges'[RunsTo(k)], Run(k - 1))
      <4>1. k \in Starts(IF wpc = "measure" THEN row ELSE Len(Rows))
        BY <1>7, <2>2, <3>1
      <4>2. CoveredAt(k)
        BY <2>2, <3>1, <4>1 DEF RangesInv
      <4> QED
        BY <1>7, <4>2 DEF CoveredAt
    <3> QED
      BY <1>4, <1>7, <2>2, <3>1
  <2> QED
    BY <2>1, <2>2
<1>8. CASE WriteRun
  <2>1. /\ UNCHANGED <<staging, blob, wide_width, options, shape, ranges>>
        /\ wpc = "records" /\ wpc' # "measure"
    BY <1>8 DEF WriteRun, builder_vars, store, world
  <2>2. ASSUME AddressFits, NEW k \in Starts(Len(Rows))
        PROVE  Covers(ranges'[RunsTo(k)], Run(k - 1))
    BY <2>1, <2>2 DEF RangesInv, CoveredAt
  <2> QED
    BY <1>4, <2>1, <2>2
<1>9. CASE WriteTextDict \/ EndDictionaries \/ EndRecords \/ WriteDirectory \/ SinkFails
  BY <1>7, <1>9
     DEF WriteTextDict, EndDictionaries, EndRecords, WriteDirectory, SinkFails,
         builder_vars, store, world
<1>10. CASE UNCHANGED vars
  BY <1>7, <1>10 DEF vars, writer_vars, builder_vars, store, world
<1> QED
  BY <1>2, <1>3, <1>5, <1>6, <1>8, <1>9, <1>10 DEF Next, Writing

(* The slot written for a run describes it.                                *)
LEMMA SlotDescribes ==
    ASSUME TypeOK, ShapeTyped, interned \in BOOLEAN,
           NEW i \in Nat, i < Len(Rows), NEW range
    PROVE  Describes(Slot(Run(i), range), range, i + 1)
<1> DEFINE s == Slot(Run(i), range)
           n == RunEnd(i) - i
           D == Cardinality(TuplesIn(Run(i)))
           p == plan_remap(options.remap, ref_width, D, n)
           remapped == interned /\ p.local # 0
<1>1. RowsCounted
  BY RowsAreCounted
<1>2. /\ Min(Run(i)) = i + 1 /\ Cardinality(Run(i)) = n /\ n \in Nat /\ D \in Nat
      /\ Run(i) \in SUBSET (1..Len(Rows)) /\ i + 1 \in Run(i) /\ Len(Rows) \in Nat
  <2>1. i + 1 \in Run(i)
    <3>1. RunEnd(i) \in (i + 1)..Len(Rows)
      BY <1>1, RunEndIs
    <3> QED
      BY <3>1 DEF Run
  <2> QED
    BY <1>1, <2>1, RunIs DEF RowsCounted
<1>3. /\ s.entry.partition = PartitionOfRow(i + 1) /\ s.entry.count = n
      /\ s.entry.width = range.width /\ s.entry.skip = range.skip
      /\ s.entry.schema_id = IF remapped THEN p.local ELSE 0
      /\ s.entry.remap_count = IF remapped THEN D ELSE 0
  BY <1>2 DEF Slot
<1>4. /\ s.block.remap_bytes = s.entry.remap_count * RemapEntrySize
      /\ s.block.stride = range.width
                            + (IF interned THEN IF remapped THEN p.local ELSE ref_width
                                           ELSE value_stride)
  BY <1>2 DEF Slot
<1>5. \A x \in 0..(s.entry.count - 1) :
          LET stored == StoredAddress(address_width, wide, KeyOfRow((i + 1) + x), range)
          IN  s.block.records[x].value = stored.value /\ s.block.records[x].bytes = stored.bytes
  <2>1. s.block.records = [x \in 0..(n - 1) |->
            [value |-> StoredAddress(address_width, wide, KeyOfRow((i + 1) + x), range).value,
             bytes |-> StoredAddress(address_width, wide, KeyOfRow((i + 1) + x), range).bytes,
             payload |-> s.block.records[x].payload]]
    BY <1>2 DEF Slot
  <2> HIDE DEF s
  <2> QED
    BY <1>3, <2>1
<1>6. p.local \in 0..MaxLocalWidth /\ (p.local # 0 => D # 0)
  <2>1. width_for(D - 1) \in 1..WordBytes /\ MaxLocalWidth \in Nat /\ WordBytes \in Nat
    BY WidthRange, LayoutAssumption, WordAssumption
  <2>2. \/ p = [local |-> 0, savings |-> 0]
        \/ p.local = width_for(D - 1) /\ ~(width_for(D - 1) > MaxLocalWidth) /\ D # 0
    BY DEF plan_remap
  <2> HIDE DEF p, D
  <2> QED
    BY <2>1, <2>2
<1>7. D \in 0..tuple_count
  <2> DEFINE m == Len(tuples)
  <2>1. m \in Nat
    BY DEF TypeOK
  <2>2. TuplesIn(Run(i)) \subseteq 0..(m - 1)
    <3>1. ASSUME NEW k \in 1..Len(Rows) PROVE Rows[k].tuple \in 0..(m - 1)
      <4>1. Rows[k] \in RowType(staging.kind, m)
        BY DEF TypeOK, Rows
      <4>2. CASE staging.kind = "memory"
        BY <4>1, <4>2 DEF RowType
      <4>3. CASE staging.kind # "memory"
        BY <4>1, <4>3 DEF RowType
      <4> QED
        BY <4>2, <4>3
    <3> QED
      BY <1>2, <3>1 DEF TuplesIn
  <2> HIDE DEF m
  <2>3. IsFiniteSet(0..(m - 1)) /\ Cardinality(0..(m - 1)) = m
    <3>1. CASE m = 0
      BY <3>1, FS_EmptySet
    <3>2. CASE m # 0
      <4>1. 0 \in Int /\ m - 1 \in Int /\ 0 <= m - 1 /\ (m - 1) - 0 + 1 = m
        BY <2>1, <3>2
      <4> QED
        BY <4>1, FS_Interval
    <3> QED
      BY <3>1, <3>2
  <2>4. D <= m
    <3> DEFINE T == TuplesIn(Run(i))  S == 0..(m - 1)
    <3>1. T \in SUBSET S /\ IsFiniteSet(S) /\ Cardinality(S) = m
      BY <2>2, <2>3
    <3> HIDE DEF T, S
    <3>2. Cardinality(T) <= Cardinality(S)
      BY <3>1, FS_Subset
    <3> QED
      BY <3>1, <3>2 DEF T
  <2> QED
    BY <1>2, <2>1, <2>4 DEF m, tuple_count
<1>8. (i + 1) - 1 = i
  OBVIOUS
<1> HIDE DEF s, p, D, n
<1>9. /\ s.entry.schema_id \in 0..MaxLocalWidth
      /\ s.entry.remap_count \in 0..tuple_count
      /\ (s.entry.schema_id = 0) <=> (s.entry.remap_count = 0)
      /\ s.entry.schema_id # 0 => interned
  <2>1. MaxLocalWidth \in Nat /\ tuple_count \in Nat
    BY LayoutAssumption DEF tuple_count, TypeOK
  <2> QED
    BY <1>3, <1>6, <1>7, <2>1
<1>10. s.block.stride = range.width
                          + (IF s.entry.schema_id # 0 THEN s.entry.schema_id ELSE Payload)
  <2>1. (IF s.entry.schema_id # 0 THEN s.entry.schema_id ELSE Payload)
          = IF interned THEN IF remapped THEN p.local ELSE ref_width ELSE value_stride
    BY <1>3 DEF Payload
  <2> QED
    BY <1>4, <2>1
<1>11. s.entry.count = RunEnd((i + 1) - 1) - ((i + 1) - 1)
  BY <1>3, <1>8 DEF n
<1> QED
  BY <1>3, <1>4, <1>5, <1>9, <1>10, <1>11 DEF Describes, s

(* A described slot stays described.                                       *)
LEMMA DescriptionStays ==
    ASSUME UNCHANGED <<staging, tuples, blob, wide_width, options, shape, interned>>,
           NEW k, Describes(directory'[RunsTo(k)], ranges'[RunsTo(k)], k)
    PROVE  DescribedAt(k)'
<1>1. /\ RunsTo(k)' = RunsTo(k) /\ RunEnd(k - 1)' = RunEnd(k - 1)
      /\ address_width' = address_width /\ wide' = wide /\ Payload' = Payload
      /\ tuple_count' = tuple_count
      /\ PartitionOfRow(k)' = PartitionOfRow(k)
      /\ \A i : KeyOfRow(k + i)' = KeyOfRow(k + i)
  BY SameMeasures, SameKeys DEF Payload, ref_width, value_stride, tuple_count
<1> QED
  BY <1>1 DEF DescribedAt, Describes

(* Every step keeps the slots in line with the runs.                       *)
LEMMA NextSlots ==
    TypeOK /\ WalkInv /\ TypesInv /\ SlotsInv /\ [Next]_vars => SlotsInv'
<1> SUFFICES ASSUME TypeOK, WalkInv, TypesInv, SlotsInv, [Next]_vars PROVE SlotsInv'
  OBVIOUS
<1>1. RowsCounted /\ Len(Rows) \in Nat
  BY RowsAreCounted DEF RowsCounted
<1>2. CASE wpc' \in {"off", "measure"} /\ directory' = directory
  <2>1. directory = <<>>
    BY <1>2
       DEF WalkInv, Next, Consume, Writing, StartLayout, MeasureRun, Price, WriteTextDict,
           EndDictionaries, WriteRun, EndRecords, WriteDirectory, SinkFails, vars, writer_vars
  <2> QED
    BY <1>2, <2>1, EmptySequence DEF SlotsInv
<1>3. CASE Price
  <2>1. row' = 0 /\ directory' = <<>> /\ wpc' = "dictionaries"
    BY <1>3 DEF Price, WalkInv
  <2>2. Starts(0)' = {}
    BY DEF Starts
  <2> QED
    BY <2>1, <2>2, EmptySequence DEF SlotsInv, Starts
<1>4. CASE /\ UNCHANGED <<staging, tuples, blob, wide_width, options, shape, interned,
                          ranges, directory, row>>
           /\ wpc \notin {"off", "measure"}
           /\ wpc' \in {"records", "directory", "written"} /\ interned =>
                 tuple_count <= MaxDictEntries
  <2>1. /\ \A i : Starts(i)' = Starts(i) /\ RunsTo(i)' = RunsTo(i)
    BY <1>4, SameMeasures
  <2>2. ASSUME NEW k \in Starts(row) PROVE DescribedAt(k)'
    BY <1>4, <2>2, DescriptionStays DEF SlotsInv, DescribedAt
  <2>3. Starts(row)' = Starts(row) /\ Len(directory)' = Len(directory)
    BY <1>4, <2>1
  <2>4. \A i \in 1..Len(directory)' : \E k \in Starts(row)' : i = RunsTo(k)'
    BY <2>1, <2>3 DEF SlotsInv
  <2>5. wpc' \in {"records", "directory", "written"} /\ interned' => tuple_count' <= MaxDictEntries
    BY <1>4 DEF tuple_count
  <2> QED
    BY <2>2, <2>3, <2>4, <2>5 DEF SlotsInv
<1>5. CASE WriteRun
  <2> DEFINE e == RunEnd(row)  m == Len(directory)  r == ranges[m + 1]
             s == Slot(Run(row), r)
  <2>1. /\ UNCHANGED <<staging, tuples, blob, wide_width, options, shape, interned, ranges>>
        /\ wpc = "records" /\ row < Len(Rows)
    BY <1>5 DEF WriteRun, builder_vars, store, world
  <2>2. row \in Nat /\ AtBoundary(row) /\ IsSequence(directory) /\ m = RunsTo(row) /\ m \in Nat
        /\ Len(ranges) = RunsTo(Len(Rows))
    BY <1>1, <2>1 DEF WalkInv, IsSequence
  <2>3. /\ Starts(e) = Starts(row) \cup {row + 1}
        /\ RunsTo(row) < RunsTo(Len(Rows))
    BY <1>1, <2>1, <2>2, OneRunFurther
  <2>4. RunsTo(row + 1) = m + 1 /\ \A k \in Starts(row) : RunsTo(k) \in 1..m
    BY <1>1, <2>1, <2>2, RunNumbers
  <2>5. m < Len(ranges)
    BY <2>2, <2>3
  <2>6. directory' = Append(directory, s) /\ row' = e /\ wpc' = wpc
    BY <1>5, <2>5 DEF WriteRun
  <2>7. Describes(s, r, row + 1)
    <3>1. ShapeTyped /\ interned \in BOOLEAN
      BY <2>1 DEF TypesInv
    <3> QED
      BY <2>1, <2>2, <3>1, SlotDescribes
  <2> HIDE DEF s
  <2>8. /\ Len(directory') = m + 1 /\ directory'[m + 1] = s
        /\ \A i \in 1..m : directory'[i] = directory[i]
    BY <2>2, <2>6, AppendAny
  <2>9. ASSUME NEW k \in Starts(e)
        PROVE  Describes(directory'[RunsTo(k)], ranges'[RunsTo(k)], k)
    <3>1. CASE k \in Starts(row)
      <4>1. DescribedAt(k)
        BY <2>1, <3>1 DEF SlotsInv
      <4> QED
        BY <2>1, <2>4, <2>8, <3>1, <4>1 DEF DescribedAt
    <3>2. CASE k = row + 1
      BY <2>1, <2>4, <2>7, <2>8, <3>2
    <3> QED
      BY <2>3, <3>1, <3>2
  <2>10. \A i : Starts(i)' = Starts(i) /\ RunsTo(i)' = RunsTo(i)
    BY <2>1, SameMeasures
  <2>11. Starts(row)' = Starts(e)
    BY <2>1, <2>6 DEF Starts, PartitionOfRow, KeyOfRow, Rows
  <2>12. \A k \in Starts(row)' : DescribedAt(k)'
    BY <2>1, <2>9, <2>11, DescriptionStays
  <2>13. \A i \in 1..Len(directory)' : \E k \in Starts(row)' : i = RunsTo(k)'
    <3> SUFFICES ASSUME NEW i \in 1..(m + 1) PROVE \E k \in Starts(e) : i = RunsTo(k)
      BY <2>8, <2>10, <2>11
    <3>1. CASE i = m + 1
      BY <2>3, <2>4, <3>1
    <3>2. CASE i # m + 1
      <4>1. i \in 1..m
        BY <2>2, <3>2
      <4> QED
        BY <2>3, <4>1 DEF SlotsInv
    <3> QED
      BY <3>1, <3>2
  <2>14. wpc' \in {"records", "directory", "written"} /\ interned' => tuple_count' <= MaxDictEntries
    BY <2>1, <2>6 DEF SlotsInv, tuple_count
  <2> QED
    BY <2>12, <2>13, <2>14 DEF SlotsInv
<1>6. CASE EndDictionaries
  BY <1>4, <1>6 DEF EndDictionaries, builder_vars, store, world
<1>7. CASE WriteTextDict \/ EndRecords \/ WriteDirectory \/ SinkFails
  <2>1. /\ UNCHANGED <<staging, tuples, blob, wide_width, options, shape, interned,
                          ranges, directory, row>>
        /\ wpc \notin {"off", "measure"}
        /\ wpc' \in {"records", "directory", "written"} => wpc \in {"records", "directory", "written"}
    BY <1>7 DEF WriteTextDict, EndRecords, WriteDirectory, SinkFails, builder_vars, store, world,
                output_vars
  <2> QED
    BY <1>4, <2>1 DEF SlotsInv
<1>8. CASE StartLayout \/ MeasureRun
  BY <1>2, <1>8 DEF StartLayout, MeasureRun, output_vars
<1>9. CASE Consume
  <2>1. wpc' = "off" /\ directory' = directory
    BY <1>9 DEF Consume, WalkInv, writer_vars
  <2> QED
    BY <1>2, <2>1
<1>10. CASE UNCHANGED vars
  <2>1. CASE wpc \in {"off", "measure"}
    BY <1>2, <1>10, <2>1 DEF vars, writer_vars, output_vars
  <2>2. CASE wpc \notin {"off", "measure"}
    BY <1>4, <1>10, <2>2 DEF SlotsInv, vars, writer_vars, output_vars, builder_vars, store, world
  <2> QED
    BY <2>1, <2>2
<1> QED
  BY <1>3, <1>5, <1>6, <1>7, <1>8, <1>9, <1>10 DEF Next, Writing

(* A described slot has a record and takes room for it.                    *)
LEMMA SlotSize ==
    ASSUME TypeOK, ShapeTyped, value_stride # 0, NEW k \in 1..Len(Rows),
           NEW d, NEW range, range.width \in Nat, Describes(d, range, k)
    PROVE  /\ d.entry.count \in Nat \ {0} /\ d.entry.remap_count \in Nat
           /\ d.block.stride \in Nat \ {0} /\ d.block.remap_bytes \in Nat
           /\ SlotBytes(d) \in Nat \ {0}
           /\ d.entry.count <= SlotBytes(d) /\ d.entry.remap_count <= SlotBytes(d)
<1> DEFINE c == d.entry.count  st == d.block.stride  rc == d.entry.remap_count
           id == d.entry.schema_id
<1>1. RowsCounted /\ Len(Rows) \in Nat
  BY RowsAreCounted DEF RowsCounted
<1>2. c \in Nat \ {0}
  <2>1. k - 1 \in Nat /\ k - 1 < Len(Rows)
    BY <1>1
  <2>2. RunEnd(k - 1) - (k - 1) \in Nat \ {0}
    BY <1>1, <2>1, RunIs
  <2> QED
    BY <2>2 DEF Describes
<1>3. Payload \in Nat \ {0}
  BY WordAssumption DEF ShapeTyped, Payload
<1>4. id \in Nat /\ st = range.width + (IF id # 0 THEN id ELSE Payload)
  BY LayoutAssumption DEF Describes
<1>5. rc \in Nat /\ d.block.remap_bytes = rc * RemapEntrySize /\ RemapEntrySize \in Nat \ {0}
  <2>1. tuple_count \in Nat
    BY DEF TypeOK, tuple_count
  <2> QED
    BY <2>1, LayoutAssumption, WordAssumption DEF Describes
<1>6. SlotBytes(d) = d.block.remap_bytes + c * st
  BY DEF SlotBytes
<1> HIDE DEF c, st, rc, id
<1>7. st \in Nat \ {0}
  BY <1>3, <1>4
<1> DEFINE records == c * st  table == rc * RemapEntrySize
<1>8. 1 * c <= st * c /\ 1 * c = c /\ st * c = c * st /\ records \in Nat
  BY <1>2, <1>7, TimesAtLeast
<1>9. 1 * rc <= RemapEntrySize * rc /\ 1 * rc = rc /\ RemapEntrySize * rc = rc * RemapEntrySize
      /\ table \in Nat
  BY <1>5, TimesAtLeast
<1>10. c <= records /\ rc <= table /\ SlotBytes(d) = table + records
  BY <1>5, <1>6, <1>8, <1>9
<1> HIDE DEF records, table
<1>11. /\ SlotBytes(d) \in Nat \ {0} /\ c <= SlotBytes(d) /\ rc <= SlotBytes(d)
  BY <1>2, <1>5, <1>8, <1>9, <1>10
<1> QED
  BY <1>2, <1>5, <1>7, <1>9, <1>11 DEF c, st, rc, table

(* Every step leaves the slots one after the other.                        *)
LEMMA NextPlaces ==
    /\ TypeOK /\ WalkInv /\ TypesInv /\ TypesInv' /\ RangesInv /\ PlacesInv
    /\ [Next]_vars
    => PlacesInv'
<1> SUFFICES ASSUME TypeOK, WalkInv, TypesInv, TypesInv', RangesInv, PlacesInv, [Next]_vars
             PROVE  PlacesInv'
  OBVIOUS
<1>1. pos \in Nat /\ pos' \in Nat
  BY DEF TypesInv
<1>2. CASE directory' = <<>>
  BY <1>1, <1>2, EmptySequence DEF PlacesInv
<1>3. CASE directory' = directory /\ pos <= pos'
  <2>1. \A i : SlotBytes(directory[i])' = SlotBytes(directory'[i])
    BY DEF SlotBytes
  <2> SUFFICES ASSUME NEW i \in 1..Len(directory)
               PROVE  /\ directory[i].entry.offset \in Nat /\ SlotBytes(directory[i]) \in Nat \ {0}
                      /\ directory[i].entry.offset + SlotBytes(directory[i]) <= pos'
                      /\ \A j \in 1..(i - 1) :
                            directory[j].entry.offset + SlotBytes(directory[j])
                               <= directory[i].entry.offset
    BY <1>1, <1>3, <2>1 DEF PlacesInv, SlotBytes
  <2> DEFINE a == directory[i].entry.offset  b == SlotBytes(directory[i])
  <2>2. a \in Nat /\ b \in Nat \ {0} /\ a + b <= pos
    BY DEF PlacesInv
  <2>3. \A j \in 1..(i - 1) :
            directory[j].entry.offset + SlotBytes(directory[j]) <= directory[i].entry.offset
    BY DEF PlacesInv
  <2> HIDE DEF a, b
  <2>4. a + b <= pos'
    BY <1>1, <1>3, <2>2
  <2> QED
    BY <2>2, <2>3, <2>4 DEF a, b
<1>4. CASE WriteRun
  <2> DEFINE m == Len(directory)  r == ranges[m + 1]  s == Slot(Run(row), r)  bytes == SlotBytes(s)
  <2>1. RowsCounted /\ Len(Rows) \in Nat
    BY RowsAreCounted DEF RowsCounted
  <2>2. wpc = "records" /\ row < Len(Rows)
    BY <1>4 DEF WriteRun
  <2>3. row \in Nat /\ AtBoundary(row) /\ IsSequence(directory) /\ m = RunsTo(row) /\ m \in Nat
        /\ Len(ranges) = RunsTo(Len(Rows)) /\ Len(ranges) \in Nat
    BY <2>1, <2>2 DEF WalkInv, IsSequence
  <2>4. m < Len(ranges)
    BY <2>1, <2>2, <2>3, OneRunFurther
  <2>5. directory' = Append(directory, s) /\ pos' = pos + bytes
    BY <1>4, <2>4 DEF WriteRun
  <2>6. ShapeTyped /\ interned \in BOOLEAN /\ value_stride # 0 /\ r.width \in Nat
    <3>1. ShapeTyped /\ interned \in BOOLEAN
      BY <2>2 DEF TypesInv
    <3>2. value_stride # 0
      BY <2>2 DEF RangesInv
    <3>3. m + 1 \in 1..Len(ranges)
      BY <2>3, <2>4
    <3>4. r.width \in Nat
      BY <3>3 DEF TypesInv, RangesTyped
    <3> QED
      BY <3>1, <3>2, <3>4
  <2>7. Describes(s, r, row + 1)
    BY <2>2, <2>3, <2>6, SlotDescribes
  <2>8. row + 1 \in 1..Len(Rows)
    BY <2>1, <2>2, <2>3
  <2>9. s.entry.offset = pos
    BY DEF Slot
  <2> HIDE DEF s, r
  <2>10. bytes \in Nat \ {0}
    BY <2>6, <2>7, <2>8, SlotSize
  <2>11. /\ Len(directory') = m + 1 /\ directory'[m + 1] = s
         /\ \A i \in 1..m : directory'[i] = directory[i]
    BY <2>3, <2>5, AppendAny
  <2> DEFINE Off(i) == directory'[i].entry.offset  Size(i) == SlotBytes(directory'[i])
  <2>12. \A i \in 1..m : /\ Off(i) \in Nat /\ Size(i) \in Nat \ {0} /\ Off(i) + Size(i) <= pos
                         /\ \A j \in 1..(i - 1) : Off(j) + Size(j) <= Off(i)
    <3> SUFFICES ASSUME NEW i \in 1..m
                 PROVE  /\ Off(i) \in Nat /\ Size(i) \in Nat \ {0} /\ Off(i) + Size(i) <= pos
                        /\ \A j \in 1..(i - 1) : Off(j) + Size(j) <= Off(i)
      OBVIOUS
    <3>1. directory'[i] = directory[i] /\ \A j \in 1..(i - 1) : directory'[j] = directory[j]
      BY <2>3, <2>11
    <3> QED
      BY <3>1 DEF PlacesInv
  <2>13. Off(m + 1) = pos /\ Size(m + 1) = bytes
    BY <2>9, <2>11
  <2> HIDE DEF Off, Size, m, bytes
  <2>14. ASSUME NEW i \in 1..(m + 1)
         PROVE  /\ Off(i) \in Nat /\ Size(i) \in Nat \ {0} /\ Off(i) + Size(i) <= pos'
                /\ \A j \in 1..(i - 1) : Off(j) + Size(j) <= Off(i)
    <3>1. CASE i = m + 1
      <4>1. Off(i) \in Nat /\ Size(i) \in Nat \ {0} /\ Off(i) + Size(i) <= pos'
        BY <1>1, <2>5, <2>10, <2>13, <3>1
      <4>2. \A j \in 1..(i - 1) : Off(j) + Size(j) <= Off(i)
        BY <2>3, <2>12, <2>13, <3>1 DEF m
      <4> QED
        BY <4>1, <4>2
    <3>2. CASE i # m + 1
      <4>1. i \in 1..m
        BY <2>3, <3>2
      <4>2. pos <= pos'
        BY <1>1, <2>5, <2>10
      <4>3. Off(i) \in Nat /\ Size(i) \in Nat \ {0} /\ Off(i) + Size(i) <= pos
        BY <2>12, <4>1
      <4>4. Off(i) + Size(i) <= pos'
        BY <1>1, <4>2, <4>3
      <4> QED
        BY <2>12, <4>1, <4>3, <4>4
    <3> QED
      BY <3>1, <3>2
  <2>15. \A i : SlotBytes(directory[i])' = SlotBytes(directory'[i])
    BY DEF SlotBytes
  <2>16. \A i \in 1..Len(directory') :
            /\ directory'[i].entry.offset \in Nat /\ SlotBytes(directory[i])' \in Nat \ {0}
            /\ directory'[i].entry.offset + SlotBytes(directory[i])' <= pos'
            /\ \A j \in 1..(i - 1) :
                  directory'[j].entry.offset + SlotBytes(directory[j])' <= directory'[i].entry.offset
    BY <2>11, <2>14, <2>15 DEF Off, Size, m
  <2> QED
    BY <1>1, <2>16 DEF PlacesInv, SlotBytes
<1>5. CASE EndRecords
  <2>1. directory' = directory /\ pos' = Padded(pos)
    BY <1>5 DEF EndRecords
  <2> QED
    BY <1>1, <1>3, <2>1, PaddedNat
<1>6. CASE WriteDirectory
  <2>1. directory' = directory
    BY <1>6 DEF WriteDirectory
  <2>2. pos <= pos'
    BY <1>6, ImageSizeNat
  <2> QED
    BY <1>3, <2>1, <2>2
<1>7. CASE Consume \/ StartLayout \/ MeasureRun \/ SinkFails \/ UNCHANGED vars
  <2>1. directory' = directory /\ pos' = pos
    BY <1>7 DEF Consume, StartLayout, MeasureRun, SinkFails, writer_vars, vars, output_vars
  <2> QED
    BY <1>1, <1>3, <2>1
<1>8. CASE Price \/ WriteTextDict \/ EndDictionaries
  <2>1. directory' = directory /\ wpc \in {"measure", "dictionaries"}
    BY <1>8 DEF Price, WriteTextDict, EndDictionaries
  <2>2. directory = <<>>
    <3>1. CASE wpc = "measure"
      BY <3>1 DEF WalkInv
    <3>2. CASE wpc = "dictionaries"
      <4>1. row = 0 /\ Len(directory) = RunsTo(0) /\ IsSequence(directory)
        BY <3>2 DEF WalkInv
      <4>2. Len(directory) = 0
        BY <4>1, NothingYet, RowsAreCounted
      <4> QED
        BY <4>1, <4>2 DEF IsSequence
    <3> QED
      BY <2>1, <3>1, <3>2
  <2> QED
    BY <1>2, <2>1, <2>2
<1> QED
  BY <1>4, <1>5, <1>6, <1>7, <1>8 DEF Next, Writing

(* What is read off the writer's state for the file stays.                 *)
LEMMA SameFile ==
    ASSUME UNCHANGED <<options, shape, interned, directory>>
    PROVE  /\ (UsesDense' <=> UsesDense) /\ UsesDense' = UsesDense
           /\ Widths' = Widths /\ Out' = Out /\ Payload' = Payload
           /\ Entries' = Entries /\ address_width' = address_width
<1>1. Entries' = Entries
  BY DEF Entries
<1>2. WrittenPartitions' = WrittenPartitions
  BY <1>1 DEF WrittenPartitions
<1>3. UsesDense' = UsesDense
  BY <1>2 DEF UsesDense
<1>4. address_width' = address_width /\ Payload' = Payload
  BY DEF address_width, Payload, ref_width, value_stride
<1>5. Widths' = Widths
  BY <1>1, <1>2, <1>3, <1>4 DEF Widths, DirWidths
<1>6. DenseSlots' = DenseSlots
  BY <1>1, <1>2, <1>4 DEF DenseSlots, GapSlot
<1>7. Out' = Out
  BY <1>1, <1>3, <1>6 DEF Out, SlotsOut
<1> QED
  BY <1>1, <1>3, <1>4, <1>5, <1>7

(* The footer ends the file that the directory was read for.               *)
LEMMA NextFile == FileInv /\ WalkInv /\ [Next]_vars => FileInv'
<1> SUFFICES ASSUME FileInv, WalkInv, [Next]_vars PROVE FileInv'
  OBVIOUS
<1>1. CASE WriteDirectory
  <2> DEFINE f == file'[1]
  <2>1. UNCHANGED <<options, shape, interned, directory>> /\ wpc' = "written"
    BY <1>1 DEF WriteDirectory
  <2>2. file' # None
    BY <1>1 DEF WriteDirectory, Some, None
  <2>3. /\ f.length = pos' /\ f.foot.dense = UsesDense
        /\ f.foot.dir_count = Cardinality(DOMAIN Out)
        /\ f.schema = Schema(Widths)
        /\ f.slots = [s \in DOMAIN Out |-> encode_dir_entry(Widths, Out[s])]
        /\ f.blocks = [o \in {Entries[i].offset : i \in DOMAIN directory} |->
                          directory[CHOOSE i \in DOMAIN directory : Entries[i].offset = o].block]
    BY <1>1 DEF WriteDirectory, Some, UsesDense, Widths, Out, SlotsOut
  <2>4. /\ Schema(Widths).dir = Widths
        /\ Schema(Widths).address_width = uint8(address_width)
        /\ Schema(Widths).record_stride = address_width + Payload
        /\ Schema(Widths).address_span \in {0, AddressSpan}
    BY DEF Schema, Payload
  <2>5. FileWritten'
    <3> DEFINE blocks(e, d) ==
                 [o \in {e[i].offset : i \in DOMAIN d} |->
                     d[CHOOSE i \in DOMAIN d : e[i].offset = o].block]
    <3>1. f.blocks = blocks(Entries, directory)
      BY <2>3
    <3>2. f.blocks = blocks(Entries', directory')
      BY <2>1, <3>1, SameFile
    <3> HIDE DEF f
    <3>3. f.slots = [s \in DOMAIN Out' |-> encode_dir_entry(Widths', Out'[s])]
      BY <2>1, <2>3, SameFile
    <3>4. f.schema.dir = Widths' /\ f.schema.address_width = uint8(address_width')
          /\ f.schema.record_stride = address_width' + Payload'
          /\ f.schema.address_span \in {0, AddressSpan}
      BY <2>1, <2>3, <2>4, SameFile
    <3>5. f.foot.dense = UsesDense' /\ f.foot.dir_count = Cardinality(DOMAIN Out')
          /\ f.length = pos'
      BY <2>1, <2>3, SameFile
    <3> QED
      BY <3>2, <3>3, <3>4, <3>5
         DEF FileWritten, WrittenAs, f, encode_dir_entry, store_uint, uint8
  <2> QED
    BY <2>1, <2>2, <2>5 DEF FileInv
<1>2. CASE file' = file /\ wpc' = wpc
           /\ (wpc # "written" \/ UNCHANGED <<options, shape, interned, directory, pos>>)
  <2>1. CASE wpc # "written"
    BY <1>2, <2>1 DEF FileInv
  <2>2. CASE UNCHANGED <<options, shape, interned, directory, pos>>
    <3>1. FileWritten' <=> FileWritten
      BY <1>2, <2>2, SameFile DEF FileWritten, WrittenAs, encode_dir_entry, store_uint, uint8
    <3> QED
      BY <1>2, <3>1 DEF FileInv
  <2> QED
    BY <1>2, <2>1, <2>2
<1>3. CASE file' = file /\ wpc # "written" /\ wpc' # "written"
  BY <1>3 DEF FileInv
<1>4. CASE Consume
  <2>1. wpc = "off" /\ wpc' = "off" /\ file' = file
    BY <1>4 DEF Consume, WalkInv, writer_vars
  <2> QED
    BY <1>3, <2>1
<1>5. CASE StartLayout \/ MeasureRun \/ Price \/ WriteTextDict \/ EndDictionaries \/ WriteRun
           \/ EndRecords \/ SinkFails
  BY <1>3, <1>5
     DEF StartLayout, MeasureRun, Price, WriteTextDict, EndDictionaries, WriteRun, EndRecords,
         SinkFails, output_vars
<1>6. CASE UNCHANGED vars
  BY <1>2, <1>6 DEF vars, writer_vars, output_vars
<1> QED
  BY <1>1, <1>4, <1>5, <1>6 DEF Next, Writing

----------------------------------------------------------------------------
(* The packed directory.                                                   *)
(* The largest value of a field, 0 when there are no slots.                *)
Most(values) == Max({0} \cup values)

(* The largest of some bounded numbers is within the bound.                *)
LEMMA MostHolds ==
    ASSUME NEW n \in Nat, NEW values \in SUBSET (0..n)
    PROVE  Most(values) \in 0..n /\ \A v \in values : v \in 0..Most(values)
<1> DEFINE S == {0} \cup values
<1>1. S \in SUBSET (0..n) /\ S # {}
  OBVIOUS
<1> HIDE DEF S
<1>2. Max(S) \in S /\ \A v \in S : v <= Max(S)
  BY <1>1, MaxOfNats
<1>3. Max(S) \in 0..n /\ \A v \in S : v \in 0..n
  BY <1>1, <1>2
<1>4. \A v \in S : v \in 0..Max(S)
  BY <1>2, <1>3
<1> QED
  BY <1>3, <1>4 DEF S, Most

(* The width chosen for a word holds every smaller one.                    *)
LEMMA WidthHolds ==
    ASSUME NEW m \in Word, NEW v \in 0..m
    PROVE  store_uint(width_for(m), v) = v
<1> DEFINE W == {w \in NaturalWidths : w = WordBytes \/ m <= Weight[w] - 1}  w == width_for(m)
<1>1. WordSize \in Nat \ {0} /\ m \in Nat /\ m < WordSize /\ v \in Nat /\ v <= m
  BY WeightNat DEF Word
<1>2. w = Min(W)
  BY DEF width_for
<1>3. W \in SUBSET Nat /\ W # {}
  <2>1. WordBytes \in NaturalWidths /\ NaturalWidths \subseteq 1..WordBytes
    BY WordAssumption
  <2>2. WordBytes \in W
    BY <2>1
  <2>3. \A x \in W : x \in Nat
    BY <2>1, WordAssumption
  <2> QED
    BY <2>2, <2>3
<1>4. w \in W /\ w \in 1..WordBytes
  BY <1>2, <1>3, MinOfNats, WidthRange
<1> HIDE DEF w
<1>5. Weight[w] \in Nat \ {0}
  BY <1>4, WeightNat
<1>6. v < Weight[w]
  <2>1. CASE w = WordBytes
    BY <1>1, <2>1 DEF WordSize
  <2>2. CASE m <= Weight[w] - 1
    BY <1>1, <1>5, <2>2
  <2> QED
    BY <1>4, <2>1, <2>2
<1>7. v % Weight[w] = v
  BY <1>1, <1>5, <1>6
<1> QED
  BY <1>7 DEF store_uint, w

(* What the slots written hold, field by field.                            *)
OffsetsOut == {Entries[i].offset : i \in DOMAIN directory}
CountsOut == {Entries[i].count : i \in DOMAIN directory}
RemapsOut == {Entries[i].remap_count : i \in DOMAIN directory}
SkipsOut == {Entries[i].skip : i \in DOMAIN directory}
PartitionsOut == {WrittenPartitions[i] : i \in DOMAIN directory}
TrimmedOut == \E i \in DOMAIN directory : Entries[i].width # address_width

(* An entry the widths of the directory were chosen for.                   *)
Encodable(d) ==
    /\ ~UsesDense => d.partition \in 0..Most(PartitionsOut)
    /\ d.offset \in 0..Most(OffsetsOut)
    /\ d.count \in 0..Most(CountsOut)
    /\ d.remap_count \in 0..Most(RemapsOut) /\ d.remap_count < Weight[RemapEntrySize]
    /\ d.skip \in 0..Most(SkipsOut) /\ d.skip < Sizes.uint8
    /\ d.schema_id \in Nat /\ d.schema_id < Sizes.uint8
    /\ Most(RemapsOut) = 0 => d.schema_id = 0
    /\ d.width \in Nat /\ d.width < Sizes.uint8
    /\ ~TrimmedOut => d.width = address_width

(* The fields are no larger than the format provides for.                  *)
EntriesAreWords ==
    /\ PartitionsOut \subseteq Word /\ OffsetsOut \subseteq Word /\ CountsOut \subseteq Word
    /\ RemapsOut \subseteq Word /\ SkipsOut \subseteq 0..(Sizes.uint8 - 1)

(* Reading an entry back gives what was written, with the number of the    *)
(* slot for the partition of a dense directory.                            *)
LEMMA EntryReadBack ==
    ASSUME EntriesAreWords, UsesDense \in BOOLEAN, NEW d, Encodable(d), NEW s, NEW sch,
           sch.dir = Widths
    PROVE  LET e == decode_dir_entry(directory_layout(sch), encode_dir_entry(Widths, d), s,
                                     address_width)
           IN  /\ e.partition = IF UsesDense THEN s ELSE d.partition
               /\ e.offset = d.offset /\ e.count = d.count /\ e.schema_id = d.schema_id
               /\ e.remap_count = d.remap_count /\ e.width = d.width /\ e.skip = d.skip
<1> DEFINE w == Widths  x == directory_layout(sch)
           raw == encode_dir_entry(Widths, d)
           e == decode_dir_entry(x, raw, s, address_width)
           mp == Most(PartitionsOut)  mo == Most(OffsetsOut)  mc == Most(CountsOut)
           mr == Most(RemapsOut)  ms == Most(SkipsOut)
<1>1. w = [partition |-> IF UsesDense THEN 0 ELSE width_for(mp),
           offset |-> width_for(mo), count |-> width_for(mc),
           schema_id |-> IF mr # 0 THEN 1 ELSE 0,
           remap_count |-> IF mr # 0 THEN width_for(mr) ELSE 0,
           width |-> IF TrimmedOut THEN 1 ELSE 0,
           skip |-> IF ms # 0 THEN 1 ELSE 0]
  BY DEF Widths, DirWidths, make_dir_layout, Most, OffsetsOut, CountsOut, RemapsOut, SkipsOut,
         PartitionsOut, TrimmedOut
<1>2. mp \in Word /\ mo \in Word /\ mc \in Word /\ mr \in Word /\ ms \in Nat
  <2> DEFINE n == WordSize - 1  l == Sizes.uint8 - 1
  <2>1. n \in Nat /\ Word = 0..n /\ l \in Nat
    BY WeightNat, FormatAssumption DEF Word
  <2>2. /\ PartitionsOut \in SUBSET (0..n) /\ OffsetsOut \in SUBSET (0..n)
        /\ CountsOut \in SUBSET (0..n) /\ RemapsOut \in SUBSET (0..n)
        /\ SkipsOut \in SUBSET (0..l)
    BY <2>1 DEF EntriesAreWords
  <2> HIDE DEF n, l
  <2>3. mp \in 0..n /\ mo \in 0..n /\ mc \in 0..n /\ mr \in 0..n /\ ms \in 0..l
    BY <2>1, <2>2, MostHolds
  <2> QED
    BY <2>1, <2>3
<1>3. /\ ~UsesDense => d.partition \in 0..mp
      /\ d.offset \in 0..mo /\ d.count \in 0..mc /\ d.remap_count \in 0..mr /\ d.skip \in 0..ms
      /\ d.remap_count < Weight[RemapEntrySize]
      /\ d.skip < Sizes.uint8 /\ d.schema_id \in Nat /\ d.schema_id < Sizes.uint8
      /\ mr = 0 => d.schema_id = 0
      /\ d.width \in Nat /\ d.width < Sizes.uint8
      /\ ~TrimmedOut => d.width = address_width
  BY DEF Encodable
<1> HIDE DEF mp, mo, mc, mr, ms
<1>4. \A m \in Word : width_for(m) # 0 /\ \A v \in 0..m : store_uint(width_for(m), v) = v
  BY WidthRange, WidthHolds, WordAssumption
<1>5. x = [partition |-> w.partition, offset |-> w.offset, count |-> w.count,
           schema_id |-> IF w.remap_count # 0 THEN 1 ELSE 0, remap_count |-> w.remap_count,
           width |-> w.width, skip |-> w.skip]
  BY DEF directory_layout, make_dir_layout
<1>6. x = w
  BY <1>1, <1>2, <1>4, <1>5
<1>7. /\ raw.partition = store_uint(w.partition, d.partition)
      /\ raw.offset = store_uint(w.offset, d.offset)
      /\ raw.count = store_uint(w.count, d.count)
      /\ raw.schema_id = IF w.schema_id = 0 THEN 0 ELSE uint8(d.schema_id)
      /\ raw.remap_count = store_uint(w.remap_count, d.remap_count)
      /\ raw.width = IF w.width = 0 THEN 0 ELSE uint8(d.width)
      /\ raw.skip = IF w.skip = 0 THEN 0 ELSE uint8(d.skip)
  BY DEF encode_dir_entry
<1>8. /\ e.partition = IF w.partition = 0 THEN s ELSE store_uint(w.partition, raw.partition)
      /\ e.offset = store_uint(w.offset, raw.offset)
      /\ e.count = store_uint(w.count, raw.count)
      /\ e.schema_id = IF w.schema_id = 0 THEN 0 ELSE raw.schema_id
      /\ e.remap_count = IF w.remap_count = 0 THEN 0
                         ELSE uint32(store_uint(w.remap_count, raw.remap_count))
      /\ e.width = IF w.width = 0 THEN address_width ELSE raw.width
      /\ e.skip = IF w.skip = 0 THEN 0 ELSE raw.skip
  BY <1>6 DEF decode_dir_entry
<1>9. /\ w.partition = (IF UsesDense THEN 0 ELSE width_for(mp))
      /\ w.offset = width_for(mo) /\ w.count = width_for(mc)
      /\ w.schema_id = (IF mr # 0 THEN 1 ELSE 0)
      /\ w.remap_count = (IF mr # 0 THEN width_for(mr) ELSE 0)
      /\ w.width = (IF TrimmedOut THEN 1 ELSE 0)
      /\ w.skip = (IF ms # 0 THEN 1 ELSE 0)
  BY <1>1
<1> HIDE DEF w, x, raw, e
<1>10. uint8(d.skip) = d.skip /\ uint8(d.schema_id) = d.schema_id /\ uint8(d.width) = d.width
  <2>1. d.skip \in Nat
    BY <1>2, <1>3, WeightNat DEF Word
  <2> QED
    BY <1>3, <2>1, Uint8Same
<1>11. e.partition = IF UsesDense THEN s ELSE d.partition
  BY <1>2, <1>3, <1>4, <1>7, <1>8, <1>9
<1>12. e.offset = d.offset /\ e.count = d.count
  BY <1>2, <1>3, <1>4, <1>7, <1>8, <1>9
<1>13. e.schema_id = d.schema_id
  BY <1>3, <1>7, <1>8, <1>9, <1>10
<1>14. e.remap_count = d.remap_count
  <2>1. CASE mr = 0
    BY <1>3, <1>8, <1>9, <2>1
  <2>2. CASE mr # 0
    <3> DEFINE v == d.remap_count  a == Weight[RemapEntrySize]
    <3>1. e.remap_count = uint32(v)
      BY <1>2, <1>3, <1>4, <1>7, <1>8, <1>9, <2>2
    <3>2. v \in Nat /\ v < a /\ a \in Nat \ {0}
      BY <1>2, <1>3, WeightNat, LayoutAssumption DEF Word
    <3> HIDE DEF v, a
    <3>3. v % a = v
      BY <3>2
    <3> QED
      BY <3>1, <3>3 DEF uint32, v, a
  <2> QED
    BY <2>1, <2>2
<1>15. e.width = d.width
  BY <1>3, <1>7, <1>8, <1>9, <1>10
<1>16. e.skip = d.skip
  <2>1. ms = 0 => d.skip = 0
    BY <1>3
  <2> QED
    BY <1>7, <1>8, <1>9, <1>10, <2>1
<1> QED
  BY <1>11, <1>12, <1>13, <1>14, <1>15, <1>16 DEF e, x, raw

----------------------------------------------------------------------------
(* The slots of a finished file.                                           *)

(* finish has written a file of less than 2^64 bytes.                      *)
Finished ==
    /\ TypeOK /\ Shape /\ StagedInv /\ SortedFlagExact
    /\ WalkInv /\ TypesInv /\ RangesInv /\ SlotsInv /\ PlacesInv /\ FileInv
    /\ AddressFits /\ wpc = "written" /\ pos < WordSize

(* What the invariants say of it.                                          *)
LEMMA FinishedIs ==
    ASSUME Finished
    PROVE  /\ stage = "layout" /\ row = Len(Rows) /\ Len(Rows) \in Nat /\ RowsCounted
           /\ Len(directory) \in Nat /\ DOMAIN directory = 1..Len(directory)
           /\ ShapeTyped /\ DirectoryTyped /\ value_stride # 0 /\ interned \in BOOLEAN
           /\ address_width \in Nat /\ address_width < Sizes.uint8
           /\ LongAddresses /\ wide => WordBytes < address_width
           /\ ~wide => address_width <= WordBytes
           /\ FileWritten
<1>1. RowsCounted /\ Len(Rows) \in Nat
  BY RowsAreCounted DEF RowsCounted, Finished
<1>2. ShapeTyped /\ DirectoryTyped /\ interned \in BOOLEAN
  BY DEF Finished, TypesInv
<1>3. stage = "layout" /\ row = Len(Rows) /\ IsSequence(directory)
  BY DEF Finished, WalkInv
<1>4. Len(directory) \in Nat /\ DOMAIN directory = 1..Len(directory)
  BY <1>3 DEF IsSequence
<1>5. value_stride # 0
  BY DEF Finished, RangesInv
<1>6. wide => address_width = wide_width /\ wide_width < Sizes.uint8
  BY <1>2 DEF ShapeTyped, Finished, AddressFits
<1>7. ~wide => address_width <= WordBytes
  BY <1>2 DEF ShapeTyped
<1>8. address_width \in Nat
  BY <1>2 DEF ShapeTyped
<1>9. WordBytes \in Nat /\ Sizes.uint8 \in Nat /\ WordBytes < Sizes.uint8
  BY WordAssumption, FormatAssumption
<1>10. address_width < Sizes.uint8
  BY <1>6, <1>7, <1>8, <1>9
<1>12. LongAddresses /\ wide => WordBytes < address_width
  BY <1>6, <1>9 DEF LongAddresses
<1>11. FileWritten
  BY DEF Finished, FileInv
<1> QED
  BY <1>1, <1>2, <1>3, <1>4, <1>5, <1>7, <1>8, <1>10, <1>11, <1>12

(* Every slot written is that of a run, and its range covers the run.      *)
LEMMA SlotOfRun ==
    ASSUME Finished, NEW i \in 1..Len(directory)
    PROVE  \E k \in Starts(Len(Rows)) :
              /\ i = RunsTo(k) /\ k \in 1..Len(Rows)
              /\ Describes(directory[i], ranges[i], k)
              /\ Covers(ranges[i], Run(k - 1))
<1>1. row = Len(Rows) /\ Len(Rows) \in Nat
  BY FinishedIs
<1>2. PICK k \in Starts(row) : i = RunsTo(k)
  BY DEF Finished, SlotsInv
<1>3. k \in 1..Len(Rows)
  BY <1>1, <1>2 DEF Starts
<1>4. DescribedAt(k)
  BY <1>2 DEF Finished, SlotsInv
<1>5. CoveredAt(k)
  BY <1>1, <1>2 DEF Finished, RangesInv
<1> QED
  BY <1>1, <1>2, <1>3, <1>4, <1>5 DEF DescribedAt, CoveredAt

(* Its fields have the sizes the format has room for.                      *)
EntryTyped(e) ==
    /\ e.partition \in Word /\ e.offset \in Word /\ e.count \in Word
    /\ e.remap_count \in Word /\ e.remap_count < Weight[RemapEntrySize]
    /\ e.schema_id \in Nat /\ e.schema_id < Sizes.uint8
    /\ (e.schema_id = 0) <=> (e.remap_count = 0)
    /\ e.width \in Nat /\ e.skip \in Nat /\ e.skip + e.width <= address_width

(* Every slot written is such an entry, and has records.                   *)
LEMMA SlotFits ==
    ASSUME Finished, NEW i \in 1..Len(directory)
    PROVE  EntryTyped(directory[i].entry) /\ directory[i].entry.count # 0
<1> DEFINE d == directory[i]  e == d.entry
<1>1. PICK k \in Starts(Len(Rows)) : /\ i = RunsTo(k) /\ k \in 1..Len(Rows)
                                     /\ Describes(d, ranges[i], k)
                                     /\ Covers(ranges[i], Run(k - 1))
  BY SlotOfRun
<1>2. TypeOK /\ ShapeTyped /\ value_stride # 0 /\ ranges[i].width \in Nat
  BY <1>1, FinishedIs DEF Finished, Covers
<1>3. /\ e.count \in Nat \ {0} /\ e.remap_count \in Nat /\ SlotBytes(d) \in Nat \ {0}
      /\ e.count <= SlotBytes(d) /\ e.remap_count <= SlotBytes(d)
  BY <1>1, <1>2, SlotSize
<1>4. e.offset \in Nat /\ e.offset + SlotBytes(d) <= pos /\ pos \in Nat /\ pos < WordSize
  BY DEF Finished, PlacesInv
<1> DEFINE size == SlotBytes(d)  o == e.offset  c == e.count  r == e.remap_count
<1>5. WordSize \in Nat \ {0} /\ Word = 0..(WordSize - 1)
  BY WeightNat DEF Word
<1>6. o \in Word /\ c \in Word /\ r \in Word
  <2> HIDE DEF size, o, c, r
  <2>1. o \in Nat /\ c \in Nat /\ r \in Nat /\ o + size <= pos /\ c <= size /\ r <= size
        /\ size \in Nat
    BY <1>3, <1>4 DEF size, o, c, r
  <2>2. o < WordSize /\ c < WordSize /\ r < WordSize
    BY <1>4, <1>5, <2>1
  <2> QED
    BY <1>5, <2>1, <2>2
<1>7. e.partition \in Word
  BY DEF Finished, TypesInv, DirectoryTyped
<1>8. /\ e.schema_id \in 0..MaxLocalWidth /\ (e.schema_id = 0 <=> e.remap_count = 0)
      /\ e.schema_id # 0 => interned
      /\ e.remap_count \in 0..tuple_count
      /\ e.width = ranges[i].width /\ e.skip = ranges[i].skip
  BY <1>1 DEF Describes
<1>9. e.schema_id \in Nat /\ e.schema_id < Sizes.uint8
  <2>1. /\ MaxLocalWidth \in 1..RemapEntrySize /\ RemapEntrySize \in 1..WordBytes
        /\ WordBytes \in Nat /\ Sizes.uint8 \in Nat /\ WordBytes < Sizes.uint8
    BY LayoutAssumption, WordAssumption, FormatAssumption
  <2> QED
    BY <1>8, <2>1
<1>10. e.remap_count < Weight[RemapEntrySize]
  <2>1. Weight[RemapEntrySize] \in Nat \ {0}
    BY WeightNat, LayoutAssumption
  <2>2. tuple_count \in Nat
    BY <1>2 DEF TypeOK, tuple_count
  <2>3. CASE e.remap_count = 0
    BY <2>1, <2>3
  <2>4. CASE e.remap_count # 0
    <3>1. interned
      BY <1>8, <2>4
    <3>2. tuple_count <= Weight[RemapEntrySize] - 1
      BY <3>1 DEF Finished, SlotsInv, MaxDictEntries
    <3> QED
      BY <1>8, <2>1, <2>2, <3>2
  <2> QED
    BY <2>3, <2>4
<1>11. e.width \in Nat /\ e.skip \in Nat /\ e.skip + e.width <= address_width
  BY <1>1, <1>8 DEF Covers
<1> QED
  BY <1>3, <1>6, <1>7, <1>8, <1>9, <1>10, <1>11 DEF EntryTyped

(* The gap slots of a dense directory, too.                                *)
LEMMA GapFits ==
    ASSUME Finished, NEW p \in Word
    PROVE  EntryTyped(GapSlot(p)) /\ GapSlot(p).count = 0
<1>1. address_width \in Nat
  BY FinishedIs
<1>2. 0 \in Word /\ 0 < Weight[RemapEntrySize] /\ 0 < Sizes.uint8
  BY WeightNat, LayoutAssumption, FormatAssumption DEF Word
<1> QED
  BY <1>1, <1>2 DEF GapSlot, EntryTyped

(* The widths of the directory are chosen for every slot written.          *)
LEMMA DirectoryOfWords ==
    Finished => EntriesAreWords /\ \A i \in DOMAIN directory : Entries[i] = directory[i].entry
<1> SUFFICES ASSUME Finished
             PROVE  EntriesAreWords /\ \A i \in DOMAIN directory : Entries[i] = directory[i].entry
  OBVIOUS
<1>1. DOMAIN directory = 1..Len(directory)
  BY FinishedIs
<1>2. \A i \in DOMAIN directory : Entries[i] = directory[i].entry
  BY DEF Entries
<1>3. \A i \in DOMAIN directory : WrittenPartitions[i] = Entries[i].partition
  BY DEF WrittenPartitions
<1>4. \A i \in DOMAIN directory : EntryTyped(Entries[i])
  BY <1>1, <1>2, SlotFits
<1>5. \A e : EntryTyped(e) => /\ e.partition \in Word /\ e.offset \in Word /\ e.count \in Word
                              /\ e.remap_count \in Word /\ e.skip \in 0..(Sizes.uint8 - 1)
  <2> SUFFICES ASSUME NEW e, EntryTyped(e) PROVE e.skip \in 0..(Sizes.uint8 - 1)
    BY DEF EntryTyped
  <2>1. e.width \in Nat /\ e.skip \in Nat /\ e.skip + e.width <= address_width
    BY DEF EntryTyped
  <2>2. address_width \in Nat /\ address_width < Sizes.uint8 /\ Sizes.uint8 \in Nat
    BY FinishedIs, FormatAssumption
  <2> QED
    BY <2>1, <2>2
<1>6. PartitionsOut \subseteq Word
  BY <1>3, <1>4, <1>5 DEF PartitionsOut
<1>7. OffsetsOut \subseteq Word /\ CountsOut \subseteq Word
  BY <1>4, <1>5 DEF OffsetsOut, CountsOut
<1>8. RemapsOut \subseteq Word /\ SkipsOut \subseteq 0..(Sizes.uint8 - 1)
  BY <1>4, <1>5 DEF RemapsOut, SkipsOut
<1> QED
  BY <1>2, <1>6, <1>7, <1>8 DEF EntriesAreWords

(* A typed slot no larger than the largest one is encodable.               *)
LEMMA TypedEncodable ==
    ASSUME Finished, NEW e, EntryTyped(e),
           ~UsesDense => e.partition \in 0..Most(PartitionsOut),
           e.offset \in 0..Most(OffsetsOut), e.count \in 0..Most(CountsOut),
           e.remap_count \in 0..Most(RemapsOut), e.skip \in 0..Most(SkipsOut),
           ~TrimmedOut => e.width = address_width
    PROVE  Encodable(e)
<1>1. e.width \in Nat /\ e.skip \in Nat /\ e.skip + e.width <= address_width
  BY DEF EntryTyped
<1>2. address_width \in Nat /\ address_width < Sizes.uint8 /\ Sizes.uint8 \in Nat
  BY FinishedIs, FormatAssumption
<1>3. e.width < Sizes.uint8 /\ e.skip < Sizes.uint8
  BY <1>1, <1>2
<1>4. Most(RemapsOut) = 0 => e.schema_id = 0
  BY DEF EntryTyped
<1>5. /\ e.remap_count < Weight[RemapEntrySize]
      /\ e.schema_id \in Nat /\ e.schema_id < Sizes.uint8
  BY DEF EntryTyped
<1> QED
  BY <1>1, <1>3, <1>4, <1>5 DEF Encodable

(* So are the slots written and the gaps.                                  *)
LEMMA SlotsEncodable ==
    ASSUME Finished
    PROVE  /\ \A i \in DOMAIN directory : Encodable(Entries[i])
           /\ \A p \in Word : UsesDense => Encodable(GapSlot(p))
<1> DEFINE n == WordSize - 1  l == Sizes.uint8 - 1
<1>1. n \in Nat /\ Word = 0..n /\ l \in Nat
  BY WeightNat, FormatAssumption DEF Word
<1>2. /\ PartitionsOut \in SUBSET (0..n) /\ OffsetsOut \in SUBSET (0..n)
      /\ CountsOut \in SUBSET (0..n) /\ RemapsOut \in SUBSET (0..n)
      /\ SkipsOut \in SUBSET (0..l)
  BY <1>1, DirectoryOfWords DEF EntriesAreWords
<1> HIDE DEF n, l
<1>3. /\ \A v \in PartitionsOut : v \in 0..Most(PartitionsOut)
      /\ \A v \in OffsetsOut : v \in 0..Most(OffsetsOut)
      /\ \A v \in CountsOut : v \in 0..Most(CountsOut)
      /\ \A v \in RemapsOut : v \in 0..Most(RemapsOut)
      /\ \A v \in SkipsOut : v \in 0..Most(SkipsOut)
  BY <1>1, <1>2, MostHolds
<1>4. /\ Most(OffsetsOut) \in 0..n /\ Most(CountsOut) \in 0..n
      /\ Most(RemapsOut) \in 0..n /\ Most(SkipsOut) \in 0..l
  BY <1>1, <1>2, MostHolds
<1>5. ASSUME NEW i \in DOMAIN directory PROVE Encodable(Entries[i])
  <2>1. EntryTyped(Entries[i])
    BY FinishedIs, DirectoryOfWords, SlotFits
  <2>2. WrittenPartitions[i] = Entries[i].partition
    BY DEF WrittenPartitions
  <2>3. Entries[i].partition \in 0..Most(PartitionsOut)
    BY <1>3, <2>2 DEF PartitionsOut
  <2>4. Entries[i].offset \in 0..Most(OffsetsOut)
    BY <1>3 DEF OffsetsOut
  <2>5. Entries[i].count \in 0..Most(CountsOut)
    BY <1>3 DEF CountsOut
  <2>6. Entries[i].remap_count \in 0..Most(RemapsOut)
    BY <1>3 DEF RemapsOut
  <2>7. Entries[i].skip \in 0..Most(SkipsOut)
    BY <1>3 DEF SkipsOut
  <2>8. ~TrimmedOut => Entries[i].width = address_width
    BY DEF TrimmedOut
  <2> QED
    BY <2>1, <2>3, <2>4, <2>5, <2>6, <2>7, <2>8, TypedEncodable
<1>6. ASSUME NEW p \in Word, UsesDense PROVE Encodable(GapSlot(p))
  <2>1. EntryTyped(GapSlot(p))
    BY GapFits
  <2>2. /\ GapSlot(p).offset = 0 /\ GapSlot(p).count = 0 /\ GapSlot(p).remap_count = 0
        /\ GapSlot(p).skip = 0 /\ GapSlot(p).width = address_width
    BY DEF GapSlot
  <2>3. \A m : m \in 0..n \/ m \in 0..l => 0 \in 0..m
    BY <1>1
  <2> QED
    BY <1>4, <1>6, <2>1, <2>2, <2>3, TypedEncodable
<1> QED
  BY <1>5, <1>6

(* The slots of the file: those of the runs and, in a dense directory, the *)
(* gaps between them.                                                      *)
LEMMA SlotsOfFile ==
    ASSUME Finished
    PROVE  /\ UsesDense \in BOOLEAN
           /\ Cardinality(DOMAIN Out) \in Nat
           /\ DOMAIN Out = 0..(Cardinality(DOMAIN Out) - 1)
           /\ \A s \in DOMAIN Out :
                 /\ Encodable(Out[s]) /\ EntryTyped(Out[s])
                 /\ \/ /\ UsesDense /\ Out[s].count = 0
                    \/ \E i \in DOMAIN directory :
                          /\ Out[s] = Entries[i]
                          /\ IF UsesDense THEN Entries[i].partition = s ELSE i = s + 1
<1>1. /\ Len(directory) \in Nat /\ DOMAIN directory = 1..Len(directory)
      /\ WalkInv /\ DirectoryTyped
  BY FinishedIs DEF Finished
<1>2. \A i \in DOMAIN directory : Encodable(Entries[i]) /\ EntryTyped(Entries[i])
  BY <1>1, SlotsEncodable, DirectoryOfWords, SlotFits
<1>3. UsesDense \in BOOLEAN
  BY DEF UsesDense, use_dense
<1> DEFINE n == WrittenPartitions[Len(directory)]  c == Cardinality(DOMAIN Out)
<1>4. CASE UsesDense
  <2>1. n \in Word /\ c = n + 1
    BY <1>1, <1>4, SlotsCounted DEF UsesDense, Out
  <2>2. Out = DenseSlots
    BY <1>4 DEF Out, SlotsOut
  <2>3. DOMAIN Out = 0..n
    BY <2>2 DEF DenseSlots
  <2>4. n \in Nat /\ Word = 0..(WordSize - 1) /\ WordSize \in Nat
    BY <2>1, WeightNat DEF Word
  <2> HIDE DEF n, c
  <2>5. c \in Nat /\ DOMAIN Out = 0..(c - 1)
    BY <2>1, <2>3, <2>4
  <2>6. ASSUME NEW s \in DOMAIN Out
        PROVE  /\ Encodable(Out[s]) /\ EntryTyped(Out[s])
               /\ \/ Out[s].count = 0
                  \/ \E i \in DOMAIN directory :
                        Out[s] = Entries[i] /\ Entries[i].partition = s
    <3>1. CASE \E i \in DOMAIN directory : Entries[i].partition = s
      <4> DEFINE i == CHOOSE j \in DOMAIN directory : Entries[j].partition = s
      <4>1. i \in DOMAIN directory /\ Entries[i].partition = s
        BY <3>1
      <4>2. Out[s] = Entries[i]
        BY <2>2, <2>3, <3>1 DEF DenseSlots, n
      <4> QED
        BY <1>2, <4>1, <4>2
    <3>2. CASE ~ \E i \in DOMAIN directory : Entries[i].partition = s
      <4>1. Out[s] = GapSlot(s)
        BY <2>2, <2>3, <3>2 DEF DenseSlots, n
      <4>2. s \in Word
        BY <2>1, <2>3, <2>4
      <4> QED
        BY <1>4, <4>1, <4>2, SlotsEncodable, GapFits
    <3> QED
      BY <3>1, <3>2
  <2> QED
    BY <1>3, <1>4, <2>5, <2>6 DEF c
<1>5. CASE ~UsesDense
  <2>1. Out = [s \in 0..(Len(directory) - 1) |-> Entries[s + 1]]
    BY <1>5 DEF Out, SlotsOut
  <2>2. DOMAIN Out = 0..(Len(directory) - 1)
    BY <2>1
  <2> DEFINE m == Len(directory) - 1
  <2>3. m \in Int /\ 0 \in Int
    BY <1>1
  <2>4. c = Len(directory)
    <3>1. Cardinality(0..m) = IF 0 > m THEN 0 ELSE m - 0 + 1
      BY <2>3, FS_Interval
    <3> QED
      BY <1>1, <2>2, <3>1
  <2>5. ASSUME NEW s \in DOMAIN Out
        PROVE  \E i \in DOMAIN directory : Out[s] = Entries[i] /\ i = s + 1
    <3>1. s + 1 \in DOMAIN directory
      BY <1>1, <2>2
    <3>2. Out[s] = Entries[s + 1]
      BY <2>1, <2>2
    <3> QED
      BY <3>1, <3>2
  <2> QED
    BY <1>1, <1>2, <1>3, <1>5, <2>2, <2>4, <2>5
<1> QED
  BY <1>4, <1>5

----------------------------------------------------------------------------
(* What a reader decodes.                                                  *)

(* Every slot decodes to what was written.                                 *)
LEMMA SlotReads ==
    ASSUME Finished, NEW s \in DOMAIN Out
    PROVE  LET e == dir_slot(file[1], s)
           IN  /\ e.partition = IF UsesDense THEN s ELSE Out[s].partition
               /\ e.offset = Out[s].offset /\ e.count = Out[s].count
               /\ e.schema_id = Out[s].schema_id /\ e.remap_count = Out[s].remap_count
               /\ e.width = Out[s].width /\ e.skip = Out[s].skip
<1> DEFINE f == file[1]  d == Out[s]
<1>1. /\ f.schema.dir = Widths /\ f.schema.address_width = uint8(address_width)
      /\ f.slots = [x \in DOMAIN Out |-> encode_dir_entry(Widths, Out[x])]
  BY FinishedIs DEF FileWritten, WrittenAs
<1>2. f.slots[s] = encode_dir_entry(Widths, d)
  BY <1>1
<1>3. f.schema.address_width = address_width
  BY <1>1, FinishedIs, Uint8Same
<1>4. EntriesAreWords /\ UsesDense \in BOOLEAN /\ Encodable(d)
  BY DirectoryOfWords, SlotsOfFile
<1>5. dir_slot(f, s) = decode_dir_entry(directory_layout(f.schema), encode_dir_entry(Widths, d), s,
                                    address_width)
  BY <1>2, <1>3 DEF dir_slot
<1> QED
  BY <1>1, <1>4, <1>5, EntryReadBack

(* No two slots are at the same offset, so a reader finds the records that *)
(* were written for the slot.                                              *)
LEMMA BlockOf ==
    ASSUME Finished, NEW i \in DOMAIN directory
    PROVE  /\ Entries[i].offset \in DOMAIN file[1].blocks
           /\ file[1].blocks[Entries[i].offset] = directory[i].block
<1>1. /\ DOMAIN directory = 1..Len(directory) /\ Len(directory) \in Nat
      /\ \A j \in DOMAIN directory : Entries[j] = directory[j].entry
  BY FinishedIs, DirectoryOfWords
<1>2. file[1].blocks = [o \in {Entries[j].offset : j \in DOMAIN directory} |->
                           directory[CHOOSE j \in DOMAIN directory : Entries[j].offset = o].block]
  BY FinishedIs DEF FileWritten, WrittenAs
<1>3. ASSUME NEW j \in DOMAIN directory, Entries[j].offset = Entries[i].offset PROVE j = i
  <2>1. \A x \in 1..Len(directory) :
           /\ Entries[x].offset \in Nat /\ SlotBytes(directory[x]) \in Nat \ {0}
           /\ \A y \in 1..(x - 1) : Entries[y].offset + SlotBytes(directory[y]) <= Entries[x].offset
    <3> TAKE x \in 1..Len(directory)
    <3>1. \A y \in 1..(x - 1) : y \in DOMAIN directory
      BY <1>1
    <3> QED
      BY <1>1, <3>1 DEF Finished, PlacesInv
  <2>2. ASSUME NEW x \in 1..Len(directory), NEW y \in 1..Len(directory), y < x
        PROVE  Entries[y].offset # Entries[x].offset
    <3> DEFINE a == Entries[x].offset  b == Entries[y].offset  c == SlotBytes(directory[y])
    <3>1. y \in 1..(x - 1)
      BY <1>1, <2>2
    <3>2. a \in Nat /\ b \in Nat /\ c \in Nat \ {0} /\ b + c <= a
      BY <2>1, <3>1
    <3> HIDE DEF a, b, c
    <3>3. a # b
      BY <3>2
    <3> QED
      BY <3>3 DEF a, b
  <2>3. i \in 1..Len(directory) /\ j \in 1..Len(directory)
    BY <1>1
  <2> QED
    BY <1>1, <1>3, <2>2, <2>3
<1>4. (CHOOSE j \in DOMAIN directory : Entries[j].offset = Entries[i].offset) = i
  BY <1>3
<1>5. \A o \in {Entries[j].offset : j \in DOMAIN directory} :
         /\ o \in DOMAIN file[1].blocks
         /\ file[1].blocks[o]
               = directory[CHOOSE j \in DOMAIN directory : Entries[j].offset = o].block
  BY <1>2
<1>6. Entries[i].offset \in {Entries[j].offset : j \in DOMAIN directory}
  OBVIOUS
<1> QED
  BY <1>4, <1>5, <1>6

(* A slot with records is that of a run, and the reader finds its records. *)
LEMMA BlocksFound ==
    ASSUME Finished, NEW s \in DOMAIN Out, Out[s].count # 0
    PROVE  /\ BlockFound(file[1], dir_slot(file[1], s))
           /\ \E i \in DOMAIN directory :
                 /\ Out[s] = directory[i].entry
                 /\ file[1].blocks[Out[s].offset] = directory[i].block
                 /\ ~UsesDense => i = s + 1
<1> DEFINE f == file[1]  e == dir_slot(f, s)
<1>1. PICK i \in DOMAIN directory : Out[s] = Entries[i] /\ (~UsesDense => i = s + 1)
  BY SlotsOfFile
<1>2. Entries[i] = directory[i].entry /\ i \in 1..Len(directory)
  BY DirectoryOfWords, FinishedIs
<1>3. Out[s].offset \in DOMAIN f.blocks /\ f.blocks[Out[s].offset] = directory[i].block
  BY <1>1, BlockOf
<1>4. PICK k : Describes(directory[i], ranges[i], k)
  BY <1>2, SlotOfRun
<1> DEFINE d == Out[s]  b == directory[i].block
<1>5. /\ b.remap_bytes = d.remap_count * RemapEntrySize
      /\ b.stride = d.width + (IF d.schema_id # 0 THEN d.schema_id ELSE Payload)
      /\ d.offset \in Nat /\ (d.schema_id = 0 <=> d.remap_count = 0)
  BY <1>1, <1>2, <1>4, SlotFits, WeightNat DEF Describes, EntryTyped, Word
<1>6. value_part(f) = Payload
  <2>1. f.schema.record_stride = address_width + Payload
        /\ f.schema.address_width = uint8(address_width)
    BY FinishedIs DEF FileWritten, WrittenAs
  <2>2. f.schema.address_width = address_width
    BY <2>1, FinishedIs, Uint8Same
  <2>3. address_width \in Nat /\ Payload \in Nat
    BY FinishedIs, WordAssumption DEF Payload, ShapeTyped
  <2> QED
    BY <2>1, <2>2, <2>3 DEF value_part
<1>7. e.offset = d.offset /\ e.schema_id = d.schema_id /\ e.remap_count = d.remap_count
      /\ e.width = d.width
  BY SlotReads
<1>8. /\ layout_of(f, e).stride = e.width + (IF e.schema_id # 0 THEN e.schema_id ELSE value_part(f))
      /\ layout_of(f, e).records
            = e.offset + (IF e.schema_id # 0 THEN e.remap_count * RemapEntrySize ELSE 0)
  BY DEF layout_of
<1>9. b.stride = layout_of(f, e).stride
  BY <1>5, <1>6, <1>7, <1>8
<1>10. d.offset + b.remap_bytes = layout_of(f, e).records
  <2>1. RemapEntrySize \in Nat
    BY LayoutAssumption, WordAssumption
  <2>2. d.schema_id = 0 => b.remap_bytes = 0
    BY <1>5, <2>1
  <2> QED
    BY <1>5, <1>7, <1>8, <2>2
<1>11. BlockFound(f, e)
  BY <1>3, <1>7, <1>9, <1>10 DEF BlockFound
<1> QED
  BY <1>1, <1>2, <1>3, <1>11

----------------------------------------------------------------------------
(* The records of a run.                                                   *)

(* Cutting off bytes that are 0 keeps the order of byte strings.           *)
LEMMA WindowOrder ==
    ASSUME NEW n \in Nat, NEW skip \in Nat, NEW width \in Nat, skip + width <= n,
           NEW a \in [1..n -> Byte], NEW b \in [1..n -> Byte], LexLess(a, b),
           \A x \in 1..n : b[x] # 0 => x \in (skip + 1)..(skip + width)
    PROVE  LexLess([x \in 1..width |-> a[skip + x]], [x \in 1..width |-> b[skip + x]])
<1> DEFINE u == [x \in 1..width |-> a[skip + x]]  v == [x \in 1..width |-> b[skip + x]]
<1>1. Len(a) = n
  BY StringLength
<1>2. PICK i \in 1..n : a[i] < b[i] /\ \A j \in 1..(i - 1) : a[j] = b[j]
  BY <1>1 DEF LexLess
<1>3. a[i] \in Nat /\ b[i] \in Nat
  BY WeightNat DEF Byte
<1>4. b[i] # 0
  BY <1>2, <1>3
<1>5. i \in (skip + 1)..(skip + width)
  BY <1>2, <1>4
<1> DEFINE m == i - skip
<1>6. m \in 1..width /\ skip + m = i /\ i \in Nat
  BY <1>2, <1>5
<1>7. u[m] < v[m]
  BY <1>2, <1>6
<1>8. ASSUME NEW j \in 1..(m - 1) PROVE u[j] = v[j]
  <2>1. j \in 1..width /\ skip + j \in 1..(i - 1)
    BY <1>6
  <2> QED
    BY <1>2, <2>1
<1>9. u \in [1..width -> Byte]
  <2>1. \A x \in 1..width : skip + x \in 1..n
    OBVIOUS
  <2> QED
    BY <2>1
<1>10. Len(u) = width
  BY <1>9, StringLength
<1> HIDE DEF u, v, m
<1>11. LexLess(u, v)
  BY <1>6, <1>7, <1>8, <1>10 DEF LexLess
<1> QED
  BY <1>11 DEF u, v

(* Record n of the slot i is the one staged n after the first of its run.  *)
RecordOf(i, k, n) ==
    /\ k + n \in 1..Len(Rows) /\ k + n \in Run(k - 1)
    /\ PartitionOfRow(k + n) = PartitionOfRow(k)
    /\ LET stored == StoredAddress(address_width, wide, KeyOfRow(k + n), ranges[i])
       IN  /\ directory[i].block.records[n].value = stored.value
           /\ directory[i].block.records[n].bytes = stored.bytes

(* Every record of a slot is that of a row of its run.                     *)
LEMMA RecordsOfRun ==
    ASSUME Finished, NEW i \in 1..Len(directory), NEW k \in 1..Len(Rows),
           Describes(directory[i], ranges[i], k)
    PROVE  \A n \in 0..(directory[i].entry.count - 1) : RecordOf(i, k, n)
<1> DEFINE c == directory[i].entry.count
<1>1. RowsCounted /\ Len(Rows) \in Nat
  BY FinishedIs
<1>2. c = RunEnd(k - 1) - (k - 1)
  BY DEF Describes
<1>3. k - 1 \in Nat /\ k - 1 < Len(Rows)
  BY <1>1
<1>4. /\ RunEnd(k - 1) \in ((k - 1) + 1)..Len(Rows)
      /\ \A j \in ((k - 1) + 1)..RunEnd(k - 1) : PartitionOfRow(j) = PartitionOfRow((k - 1) + 1)
  BY <1>1, <1>3, RunEndIs
<1>5. SUFFICES ASSUME NEW n \in 0..(c - 1) PROVE RecordOf(i, k, n)
  OBVIOUS
<1>6. k + n \in ((k - 1) + 1)..RunEnd(k - 1) /\ k + n \in 1..Len(Rows) /\ (k - 1) + 1 = k
  <2> DEFINE e == RunEnd(k - 1)
  <2>1. /\ k \in Nat /\ 1 <= k /\ Len(Rows) \in Nat /\ (k - 1) + 1 = k
        /\ e \in Nat /\ e <= Len(Rows)
    BY <1>1, <1>3, <1>4
  <2>2. n \in 0..((e - (k - 1)) - 1)
    BY <1>2
  <2> HIDE DEF e
  <2>3. n \in Nat /\ k + n <= e
    BY <2>1, <2>2
  <2>4. k + n \in ((k - 1) + 1)..e /\ k + n \in 1..Len(Rows)
    BY <2>1, <2>3
  <2> QED
    BY <2>1, <2>4 DEF e
<1>7. PartitionOfRow(k + n) = PartitionOfRow(k)
  BY <1>4, <1>6
<1>8. k + n \in Run(k - 1)
  BY <1>6 DEF Run
<1> QED
  BY <1>6, <1>7, <1>8 DEF RecordOf, Describes

(* The records of a slot, as a lookup may assume them: each stays within   *)
(* the width of the slot, and they are in increasing order.                *)
RecordFits(i, n) ==
    LET r == directory[i].block.records[n]
    IN  IF address_width <= WordBytes
        THEN r.value \in 0..(Weight[directory[i].entry.width] - 1)
        ELSE DOMAIN r.bytes = 1..directory[i].entry.width /\ r.bytes \in Seq(Byte)

RecordsRise(i, n, m) ==
    LET records == directory[i].block.records
    IN  IF address_width <= WordBytes THEN records[n].value < records[m].value
                                      ELSE LexLess(records[n].bytes, records[m].bytes)

(* Two records of a narrow slot.                                           *)
LEMMA NarrowRecords ==
    ASSUME Finished, ~wide, NEW i \in 1..Len(directory)
    PROVE  \A n \in 0..(directory[i].entry.count - 1) :
              /\ RecordFits(i, n)
              /\ \A m \in 0..(directory[i].entry.count - 1) : n < m => RecordsRise(i, n, m)
<1> DEFINE c == directory[i].entry.count  range == ranges[i]  top == range.skip + range.width
<1>1. PICK k \in Starts(Len(Rows)) : /\ i = RunsTo(k) /\ k \in 1..Len(Rows)
                                     /\ Describes(directory[i], range, k)
                                     /\ Covers(range, Run(k - 1))
  BY SlotOfRun
<1>2. address_width <= WordBytes /\ address_width \in Nat /\ WordBytes \in Nat
  BY FinishedIs, WeightNat
<1>3. /\ range.skip \in Nat /\ range.width \in Nat /\ top <= address_width
      /\ \A j \in Run(k - 1) : KeyOfRow(j).value < Weight[top] /\ KeyOfRow(j).value % Weight[range.skip] = 0
      /\ directory[i].entry.width = range.width
  BY <1>1 DEF Covers, Describes
<1>4. range.skip + range.width <= WordBytes
  BY <1>2, <1>3
<1>5. \A n \in 0..(c - 1) : RecordOf(i, k, n)
  BY <1>1, RecordsOfRun
<1>6. ASSUME NEW n \in 0..(c - 1)
      PROVE  LET v == KeyOfRow(k + n).value
             IN  /\ v \in Nat /\ v < Weight[range.skip + range.width]
                 /\ v % Weight[range.skip] = 0
                 /\ directory[i].block.records[n].value = StoredValue(range, v)
  <2>1. k + n \in 1..Len(Rows) /\ k + n \in Run(k - 1)
    BY <1>5 DEF RecordOf
  <2>2. KeyOfRow(k + n).value \in Word
    BY <2>1, RowKeys DEF Finished
  <2>3. directory[i].block.records[n].value
          = StoredAddress(address_width, wide, KeyOfRow(k + n), range).value
    BY <1>5 DEF RecordOf
  <2>4. StoredAddress(address_width, wide, KeyOfRow(k + n), range).value
          = StoredValue(range, KeyOfRow(k + n).value)
    BY DEF StoredAddress, StoredValue
  <2> QED
    BY <1>3, <2>1, <2>2, <2>3, <2>4, WeightNat DEF Word
<1>7. ASSUME NEW n \in 0..(c - 1) PROVE RecordFits(i, n)
  <2>1. directory[i].block.records[n].value \in 0..(Weight[range.width] - 1)
    BY <1>3, <1>4, <1>6, StoredExactly
  <2> QED
    BY <1>2, <1>3, <2>1 DEF RecordFits
<1>8. ASSUME NEW n \in 0..(c - 1), NEW m \in 0..(c - 1), n < m PROVE RecordsRise(i, n, m)
  <2>1. /\ k + n \in 1..Len(Rows) /\ k + m \in 1..Len(Rows) /\ k + n < k + m
        /\ PartitionOfRow(k + n) = PartitionOfRow(k + m)
    <3>1. c \in Nat
      BY SlotFits, WeightNat DEF EntryTyped, Word
    <3>2. k \in Nat /\ n \in Nat /\ m \in Nat /\ n < m
      BY <1>1, <1>8, <3>1, FinishedIs
    <3>3. k + n < k + m
      BY <3>2
    <3> QED
      BY <1>5, <3>3 DEF RecordOf
  <2>2. KeyOfRow(k + n).value < KeyOfRow(k + m).value
    BY <2>1, RowsOrdered, FinishedIs DEF Finished
  <2>3. directory[i].block.records[n].value < directory[i].block.records[m].value
    BY <1>3, <1>4, <1>6, <2>2, StoredOrder
  <2> QED
    BY <1>2, <2>3 DEF RecordsRise
<1> QED
  BY <1>7, <1>8

(* Two records of a wide slot.                                             *)
LEMMA WideRecords ==
    ASSUME Finished, LongAddresses, wide, NEW i \in 1..Len(directory)
    PROVE  \A n \in 0..(directory[i].entry.count - 1) :
              /\ RecordFits(i, n)
              /\ \A m \in 0..(directory[i].entry.count - 1) : n < m => RecordsRise(i, n, m)
<1> DEFINE c == directory[i].entry.count  range == ranges[i]
           cut(a) == [b \in 1..range.width |-> a[range.skip + b]]
<1>1. PICK k \in Starts(Len(Rows)) : /\ i = RunsTo(k) /\ k \in 1..Len(Rows)
                                     /\ Describes(directory[i], range, k)
                                     /\ Covers(range, Run(k - 1))
  BY SlotOfRun
<1>2. WordBytes < address_width /\ address_width \in Nat /\ WordBytes \in Nat
      /\ address_width = wide_width
  BY FinishedIs, WeightNat DEF ShapeTyped
<1>3. /\ range.skip \in Nat /\ range.width \in Nat /\ range.skip + range.width <= address_width
      /\ \A j \in Run(k - 1) : \A b \in 1..address_width :
            KeyOfRow(j).bytes[b] # 0 => b \in (range.skip + 1)..(range.skip + range.width)
      /\ directory[i].entry.width = range.width
  BY <1>1 DEF Covers, Describes
<1>4. \A n \in 0..(c - 1) : RecordOf(i, k, n)
  BY <1>1, RecordsOfRun
<1>5. ASSUME NEW n \in 0..(c - 1)
      PROVE  /\ KeyOfRow(k + n).bytes \in [1..address_width -> Byte]
             /\ \A b \in 1..address_width : KeyOfRow(k + n).bytes[b] # 0 =>
                    b \in (range.skip + 1)..(range.skip + range.width)
             /\ directory[i].block.records[n].bytes = cut(KeyOfRow(k + n).bytes)
  <2>1. k + n \in 1..Len(Rows) /\ k + n \in Run(k - 1)
    BY <1>4 DEF RecordOf
  <2>2. KeyOfRow(k + n) \in KeySpace(wide_width)
    BY <2>1, RowKeys DEF Finished, KeyWidth
  <2>3. directory[i].block.records[n].bytes
          = StoredAddress(address_width, wide, KeyOfRow(k + n), range).bytes
    BY <1>4 DEF RecordOf
  <2>4. ~(address_width <= WordBytes)
    BY <1>2
  <2>5. StoredAddress(address_width, wide, KeyOfRow(k + n), range).bytes
          = cut(KeyOfRow(k + n).bytes)
    BY <2>4 DEF StoredAddress
  <2> QED
    BY <1>2, <1>3, <2>1, <2>2, <2>3, <2>5 DEF KeySpace
<1>6. ASSUME NEW n \in 0..(c - 1) PROVE RecordFits(i, n)
  <2> DEFINE a == KeyOfRow(k + n).bytes
  <2>1. a \in [1..address_width -> Byte]
    BY <1>5
  <2>2. cut(a) \in [1..range.width -> Byte]
    <3> DEFINE w == range.width  skip == range.skip  full == address_width
    <3>1. w \in Nat /\ skip \in Nat /\ full \in Nat /\ skip + w <= full
      BY <1>2, <1>3
    <3>2. cut(a) = [b \in 1..w |-> a[skip + b]]
      OBVIOUS
    <3>3. a \in [1..full -> Byte]
      BY <2>1
    <3> HIDE DEF a, cut, w, skip, full
    <3>4. \A b \in 1..w : skip + b \in 1..full
      BY <3>1
    <3>5. cut(a) \in [1..w -> Byte]
      BY <3>2, <3>3, <3>4
    <3> QED
      BY <3>5 DEF w
  <2>3. cut(a) \in Seq(Byte) /\ DOMAIN cut(a) = 1..range.width
    <3> DEFINE u == cut(a)  w == range.width
    <3>1. u \in [1..w -> Byte] /\ w \in Nat
      BY <1>3, <2>2
    <3> HIDE DEF u, w
    <3>2. u \in Seq(Byte) /\ DOMAIN u = 1..w
      BY <3>1
    <3> QED
      BY <3>2 DEF u, w
  <2>4. ~(address_width <= WordBytes)
    BY <1>2
  <2> QED
    BY <1>3, <1>5, <2>3, <2>4 DEF RecordFits
<1>7. ASSUME NEW n \in 0..(c - 1), NEW m \in 0..(c - 1), n < m PROVE RecordsRise(i, n, m)
  <2> DEFINE a == KeyOfRow(k + n).bytes  b == KeyOfRow(k + m).bytes
  <2>1. /\ k + n \in 1..Len(Rows) /\ k + m \in 1..Len(Rows) /\ k + n < k + m
        /\ PartitionOfRow(k + n) = PartitionOfRow(k + m)
    <3>1. c \in Nat
      BY SlotFits, WeightNat DEF EntryTyped, Word
    <3>2. k \in Nat /\ n \in Nat /\ m \in Nat /\ n < m
      BY <1>1, <1>7, <3>1, FinishedIs
    <3>3. k + n < k + m
      BY <3>2
    <3> QED
      BY <1>4, <3>3 DEF RecordOf
  <2>2. LexLess(a, b)
    BY <2>1, RowsOrdered, FinishedIs DEF Finished
  <2>3. /\ a \in [1..address_width -> Byte] /\ b \in [1..address_width -> Byte]
        /\ \A x \in 1..address_width : b[x] # 0 =>
              x \in (range.skip + 1)..(range.skip + range.width)
    BY <1>5
  <2>4. /\ directory[i].block.records[n].bytes = cut(a)
        /\ directory[i].block.records[m].bytes = cut(b)
    BY <1>5
  <2> HIDE DEF a, b
  <2>5. LexLess(cut(a), cut(b))
    <3> DEFINE w == range.width  skip == range.skip  full == address_width
    <3>1. w \in Nat /\ skip \in Nat /\ full \in Nat /\ skip + w <= full
      BY <1>2, <1>3
    <3>2. /\ a \in [1..full -> Byte] /\ b \in [1..full -> Byte]
          /\ \A x \in 1..full : b[x] # 0 => x \in (skip + 1)..(skip + w)
      BY <2>3
    <3> HIDE DEF w, skip, full
    <3>3. LexLess([x \in 1..w |-> a[skip + x]], [x \in 1..w |-> b[skip + x]])
      BY <2>2, <3>1, <3>2, WindowOrder
    <3> QED
      BY <3>3 DEF w, skip
  <2>6. ~(address_width <= WordBytes)
    BY <1>2
  <2> QED
    BY <2>4, <2>5, <2>6 DEF RecordsRise
<1> QED
  BY <1>6, <1>7

(* The runs are written in the order of their partitions.                  *)
LEMMA SlotsRise ==
    ASSUME Finished, NEW i \in 1..Len(directory), NEW j \in 1..Len(directory), i < j
    PROVE  directory[i].entry.partition < directory[j].entry.partition
<1>1. PICK k \in Starts(Len(Rows)) : /\ i = RunsTo(k) /\ k \in 1..Len(Rows)
                                     /\ Describes(directory[i], ranges[i], k)
  BY SlotOfRun
<1>2. PICK l \in Starts(Len(Rows)) : /\ j = RunsTo(l) /\ l \in 1..Len(Rows)
                                     /\ Describes(directory[j], ranges[j], l)
  BY SlotOfRun
<1>3. Len(Rows) \in Nat /\ Len(directory) \in Nat
  BY FinishedIs
<1>4. k < l
  <2> SUFFICES ASSUME l <= k PROVE FALSE
    BY <1>1, <1>2, <1>3
  <2>1. Starts(l) \subseteq Starts(k)
    BY <1>1, <1>2, <1>3 DEF Starts
  <2>2. IsFiniteSet(Starts(k)) /\ IsFiniteSet(Starts(l))
    BY <1>1, <1>2, StartsFinite
  <2>3. RunsTo(l) <= RunsTo(k)
    BY <2>1, <2>2, FS_Subset DEF RunsTo
  <2> QED
    BY <1>1, <1>2, <1>3, <2>3
<1>5. PartitionOfRow(l) # PartitionOfRow(l - 1)
  BY <1>1, <1>2, <1>4 DEF Starts
<1>6. l - 1 \in 1..Len(Rows) /\ k <= l - 1 /\ l - 1 < l
  BY <1>1, <1>2, <1>3, <1>4
<1>7. PartitionOfRow(l - 1) <= PartitionOfRow(l)
  BY <1>2, <1>6, RowsOrdered, FinishedIs DEF Finished
<1>8. k = l - 1 \/ PartitionOfRow(k) <= PartitionOfRow(l - 1)
  <2>1. k < l - 1 \/ k = l - 1
    BY <1>1, <1>2, <1>6
  <2> QED
    BY <1>1, <1>6, <2>1, RowsOrdered, FinishedIs DEF Finished
<1>9. /\ PartitionOfRow(k) \in Word /\ PartitionOfRow(l) \in Word
      /\ PartitionOfRow(l - 1) \in Word
  BY <1>1, <1>2, <1>6, RowKeys DEF Finished
<1> DEFINE x == PartitionOfRow(k)  y == PartitionOfRow(l - 1)  z == PartitionOfRow(l)
<1>10. x \in Nat /\ y \in Nat /\ z \in Nat
  BY <1>9, WeightNat DEF Word
<1>11. z # y /\ y <= z /\ (x = y \/ x <= y)
  BY <1>5, <1>7, <1>8
<1> HIDE DEF x, y, z
<1>12. x < z
  BY <1>10, <1>11
<1> QED
  BY <1>1, <1>2, <1>12 DEF Describes, x, z

----------------------------------------------------------------------------
(* The image that table reads.                                             *)

(* What Attach makes of a slot.                                            *)
AttachedSlot(f, d) ==
    [partition |-> d.partition, count |-> d.count, width |-> d.width,
     skip |-> d.skip, schema_id |-> d.schema_id, remap_count |-> d.remap_count,
     remap |-> IF d.count = 0 THEN <<>> ELSE f.blocks[d.offset].remap,
     records |-> IF d.count = 0 THEN <<>> ELSE f.blocks[d.offset].records]

(* The parts of the image that a lookup goes by.                           *)
LEMMA AttachIs ==
    ASSUME NEW f
    PROVE  LET m == Attach(f)
           IN  /\ m.address_width = f.schema.address_width
               /\ m.address_span = f.schema.address_span
               /\ m.dense = f.foot.dense
               /\ m.dir_count = f.foot.dir_count
               /\ m.dir = [s \in 0..(f.foot.dir_count - 1) |-> AttachedSlot(f, dir_slot(f, s))]
BY DEF Attach, AttachedSlot

(* One slot of it is as a lookup may assume.                               *)
SlotWellFormed(m, s) ==
    LET d == m.dir[s]
    IN  /\ d.partition \in Nat /\ d.count \in Nat
        /\ d.width \in Nat /\ d.skip \in Nat
        /\ d.skip + d.width <= m.address_width
        /\ \A i \in 0..(d.count - 1) :
              IF narrow_address(m)
              THEN d.records[i].value \in 0..(Weight[d.width] - 1)
              ELSE /\ DOMAIN d.records[i].bytes = 1..d.width
                   /\ d.records[i].bytes \in Seq(Byte)
        /\ \A i, j \in 0..(d.count - 1) :
              i < j => IF narrow_address(m)
                       THEN d.records[i].value < d.records[j].value
                       ELSE LexLess(d.records[i].bytes, d.records[j].bytes)

(* A slot of the image is that of the file, read back.                     *)
LEMMA SlotOfImage ==
    ASSUME Finished, NEW m, m = Attach(file[1]), NEW s \in DOMAIN Out
    PROVE  /\ m.address_width = address_width
           /\ m.dir[s] = AttachedSlot(file[1], dir_slot(file[1], s))
           /\ m.dir[s].partition = IF UsesDense THEN s ELSE Out[s].partition
<1> DEFINE f == file[1]
<1>1. /\ f.schema.address_width = uint8(address_width)
      /\ f.foot.dir_count = Cardinality(DOMAIN Out)
  BY FinishedIs DEF FileWritten, WrittenAs
<1>2. f.schema.address_width = address_width
  BY <1>1, FinishedIs, Uint8Same
<1>3. s \in 0..(f.foot.dir_count - 1)
  BY <1>1, SlotsOfFile
<1>4. m.dir = [x \in 0..(f.foot.dir_count - 1) |-> AttachedSlot(f, dir_slot(f, x))]
      /\ m.address_width = f.schema.address_width
  BY AttachIs
<1>5. m.dir[s] = AttachedSlot(f, dir_slot(f, s))
  BY <1>3, <1>4
<1>6. dir_slot(f, s).partition = IF UsesDense THEN s ELSE Out[s].partition
  BY SlotReads
<1>7. \A d : AttachedSlot(f, d).partition = d.partition
  BY DEF AttachedSlot
<1> QED
  BY <1>2, <1>4, <1>5, <1>6, <1>7

(* Every slot of a finished file is.                                       *)
LEMMA SlotsWellFormed ==
    ASSUME Finished, LongAddresses, NEW m, m = Attach(file[1]), NEW s \in DOMAIN Out
    PROVE  /\ SlotWellFormed(m, s)
           /\ m.dir[s].partition = IF UsesDense THEN s ELSE Out[s].partition
<1> DEFINE f == file[1]  e == dir_slot(f, s)  d == m.dir[s]  o == Out[s]
<1>1. /\ m.address_width = address_width /\ address_width \in Nat
      /\ d = AttachedSlot(f, e)
  BY FinishedIs, SlotOfImage
<1>2. /\ e.partition = (IF UsesDense THEN s ELSE o.partition)
      /\ e.offset = o.offset /\ e.count = o.count /\ e.width = o.width /\ e.skip = o.skip
  BY SlotReads
<1>3. /\ d.partition = e.partition /\ d.count = e.count /\ d.width = e.width /\ d.skip = e.skip
      /\ e.count # 0 => d.records = f.blocks[e.offset].records
  BY <1>1 DEF AttachedSlot
<1>4. EntryTyped(o) /\ UsesDense \in BOOLEAN
  BY SlotsOfFile
<1>5. s \in Nat
  BY SlotsOfFile
<1>6. /\ d.partition \in Nat /\ d.count \in Nat /\ d.width \in Nat /\ d.skip \in Nat
      /\ d.skip + d.width <= m.address_width
  <2>1. Word \subseteq Nat
    BY DEF Word
  <2>2. o.partition \in Nat /\ o.count \in Nat /\ o.width \in Nat /\ o.skip \in Nat
        /\ o.skip + o.width <= address_width
    BY <1>4, <2>1 DEF EntryTyped
  <2> QED
    BY <1>1, <1>2, <1>3, <1>5, <2>2
<1>7. CASE o.count = 0
  <2>1. d.count = 0
    BY <1>2, <1>3, <1>7
  <2>2. 0..(d.count - 1) = {}
    BY <2>1
  <2> QED
    BY <1>2, <1>3, <1>6, <2>2 DEF SlotWellFormed
<1>8. CASE o.count # 0
  <2>1. PICK i \in DOMAIN directory :
           o = directory[i].entry /\ f.blocks[o.offset] = directory[i].block
    BY <1>8, BlocksFound
  <2>2. d.records = directory[i].block.records /\ d.count = directory[i].entry.count
        /\ d.width = directory[i].entry.width
    BY <1>2, <1>3, <1>8, <2>1
  <2>3. i \in 1..Len(directory)
    BY FinishedIs
  <2>4. \A n \in 0..(d.count - 1) :
           /\ RecordFits(i, n)
           /\ \A x \in 0..(d.count - 1) : n < x => RecordsRise(i, n, x)
    BY <2>2, <2>3, NarrowRecords, WideRecords
  <2>5. narrow_address(m) <=> address_width <= WordBytes
    BY <1>1 DEF narrow_address
  <2>6. \A n \in 0..(d.count - 1) :
           IF narrow_address(m)
           THEN d.records[n].value \in 0..(Weight[d.width] - 1)
           ELSE /\ DOMAIN d.records[n].bytes = 1..d.width
                /\ d.records[n].bytes \in Seq(Byte)
    BY <2>2, <2>4, <2>5 DEF RecordFits
  <2>7. \A n, x \in 0..(d.count - 1) :
           n < x => IF narrow_address(m)
                    THEN d.records[n].value < d.records[x].value
                    ELSE LexLess(d.records[n].bytes, d.records[x].bytes)
    BY <2>2, <2>4, <2>5 DEF RecordsRise
  <2> QED
    BY <1>2, <1>3, <1>6, <2>6, <2>7 DEF SlotWellFormed
<1> QED
  BY <1>7, <1>8

(* The slots are in the order of their partitions.                         *)
LEMMA SlotsInOrder ==
    ASSUME Finished, NEW m, m = Attach(file[1]),
           NEW s \in DOMAIN Out, NEW t \in DOMAIN Out, s < t
    PROVE  slot_partition(m, s) < slot_partition(m, t)
<1>1. m.dense = UsesDense /\ UsesDense \in BOOLEAN
  BY FinishedIs, AttachIs, SlotsOfFile DEF FileWritten, WrittenAs
<1>2. CASE UsesDense
  BY <1>1, <1>2 DEF slot_partition
<1>3. CASE ~UsesDense
  <2>1. m.dir[s].partition = Out[s].partition /\ m.dir[t].partition = Out[t].partition
    BY <1>3, SlotOfImage
  <2>2. /\ s + 1 \in 1..Len(directory) /\ Out[s] = directory[s + 1].entry
        /\ t + 1 \in 1..Len(directory) /\ Out[t] = directory[t + 1].entry
    BY <1>3, SlotsOfFile, DirectoryOfWords, FinishedIs
  <2>3. s \in Nat /\ t \in Nat /\ s + 1 < t + 1
    BY SlotsOfFile
  <2>4. directory[s + 1].entry.partition < directory[t + 1].entry.partition
    BY <2>2, <2>3, SlotsRise
  <2> QED
    BY <1>1, <1>3, <2>1, <2>2, <2>4 DEF slot_partition
<1> QED
  BY <1>1, <1>2, <1>3

(* A finished file has the image a lookup may assume.                      *)
LEMMA FinishedWellFormed ==
    ASSUME Finished, LongAddresses
    PROVE  /\ \A s \in DOMAIN file[1].slots :
                 dir_slot(file[1], s).count # 0 => BlockFound(file[1], dir_slot(file[1], s))
           /\ WellFormed(Attach(file[1]))
<1> DEFINE f == file[1]  m == Attach(f)
<1>1. DOMAIN f.slots = DOMAIN Out
  BY FinishedIs DEF FileWritten, WrittenAs
<1>2. ASSUME NEW s \in DOMAIN f.slots, dir_slot(f, s).count # 0 PROVE BlockFound(f, dir_slot(f, s))
  BY <1>1, <1>2, SlotReads, BlocksFound
<1>3. /\ m.address_width \in Nat /\ m.address_span \in 0..WordSize
      /\ m.dense \in BOOLEAN /\ m.dir_count \in Nat /\ DOMAIN Out = 0..(m.dir_count - 1)
  <2>1. /\ f.schema.address_width = uint8(address_width)
        /\ f.schema.address_span \in {0, AddressSpan}
        /\ f.foot.dense = UsesDense /\ f.foot.dir_count = Cardinality(DOMAIN Out)
    BY FinishedIs DEF FileWritten, WrittenAs
  <2>2. /\ m.address_width = f.schema.address_width /\ m.address_span = f.schema.address_span
        /\ m.dense = f.foot.dense /\ m.dir_count = f.foot.dir_count
    BY AttachIs
  <2>3. uint8(address_width) = address_width /\ address_width \in Nat
    BY FinishedIs, Uint8Same
  <2>4. AddressSpan \in 0..WordSize /\ 0 \in 0..WordSize
    BY BuilderAssumption, WeightNat
  <2>5. /\ UsesDense \in BOOLEAN /\ Cardinality(DOMAIN Out) \in Nat
        /\ DOMAIN Out = 0..(Cardinality(DOMAIN Out) - 1)
    BY SlotsOfFile
  <2> HIDE DEF m, f
  <2> QED
    BY <2>1, <2>2, <2>3, <2>4, <2>5
<1>4. ASSUME NEW s \in 0..(m.dir_count - 1) PROVE SlotWellFormed(m, s)
  BY <1>3, <1>4, SlotsWellFormed
<1>5. ASSUME NEW s \in 0..(m.dir_count - 1), NEW t \in 0..(m.dir_count - 1), s < t
      PROVE  slot_partition(m, s) < slot_partition(m, t)
  BY <1>3, <1>5, SlotsInOrder
<1>6. WellFormed(m)
  <2> HIDE DEF m
  <2> QED
    BY <1>3, <1>4, <1>5 DEF WellFormed, SlotWellFormed
<1> QED
  BY <1>2, <1>6

----------------------------------------------------------------------------
(* Every build, and the opening that follows it.                           *)

(* Only a written file is opened.                                          *)
OpenedInv == status # "open" => wpc = "written"

(* What a build and an opening keep true.                                  *)
BuiltInv ==
    /\ TypeOK /\ Shape /\ OrderInv /\ StagedInv
    /\ WalkInv /\ TypesInv /\ RangesInv /\ SlotsInv /\ PlacesInv /\ FileInv
    /\ OpenedInv

(* It holds before the first record.                                       *)
LEMMA InitBuilt == BuildInit => BuiltInv
<1> SUFFICES ASSUME BuildInit PROVE BuiltInv
  OBVIOUS
<1>1. Init /\ BuilderInit /\ status = "open" /\ wpc = "off" /\ row = 0
      /\ directory = <<>> /\ pos = 0 /\ file = None
  BY DEF BuildInit, Init, Open!OpenInit
<1>2. TypeOK /\ Shape /\ OrderInv /\ WalkInv /\ TypesInv
  BY <1>1, InitType, InitOrder, InitWalk, InitTypes
<1>3. StagedInv
  <2>1. stage = "consuming" /\ staging.rows = <<>> /\ blob = "null"
    BY <1>1 DEF BuilderInit, NoStaging
  <2>2. Len(staging.rows) = 0
    BY <2>1
  <2> QED
    BY <2>1, <2>2 DEF StagedInv, AllShaped
<1>4. RangesInv
  BY <1>1 DEF RangesInv
<1>5. Len(directory) = 0
  BY <1>1
<1>6. SlotsInv
  BY <1>1, <1>5 DEF SlotsInv
<1>7. PlacesInv
  BY <1>1, <1>5 DEF PlacesInv
<1>8. FileInv
  BY <1>1 DEF FileInv
<1>9. OpenedInv
  BY <1>1 DEF OpenedInv
<1> QED
  BY <1>2, <1>3, <1>4, <1>6, <1>7, <1>8, <1>9 DEF BuiltInv

(* Every step of either keeps it.                                          *)
LEMMA NextBuilt == BuiltInv /\ [BuildNext]_all_vars => BuiltInv'
<1> SUFFICES ASSUME BuiltInv, [BuildNext]_all_vars PROVE BuiltInv'
  OBVIOUS
<1>1. [Next]_vars
  BY DEF BuildNext, Build, Opening, all_vars
<1>2. /\ TypeOK /\ Shape /\ OrderInv /\ StagedInv
      /\ WalkInv /\ TypesInv /\ RangesInv /\ SlotsInv /\ PlacesInv /\ FileInv
      /\ OpenedInv
  BY DEF BuiltInv
<1>3. [BuilderNext]_builder_vars
  BY <1>1, BuilderSteps
<1>4. TypeOK' /\ Shape' /\ OrderInv'
  BY <1>2, <1>3, NextType, NextOrder
<1>5. StagedInv'
  BY <1>2, <1>3, NextStaged
<1>6. WalkInv'
  BY <1>1, <1>2, <1>4, NextWalk
<1>7. TypesInv'
  BY <1>1, <1>2, <1>4, NextTypes
<1>8. RangesInv'
  BY <1>1, <1>2, NextRanges
<1>9. SlotsInv'
  BY <1>1, <1>2, NextSlots
<1>10. PlacesInv'
  BY <1>1, <1>2, <1>7, NextPlaces
<1>11. FileInv'
  BY <1>1, <1>2, NextFile
<1>12. OpenedInv'
  <2>1. CASE Opening
    BY <2>1 DEF Opening, OpenedInv, vars, writer_vars
  <2>2. CASE UNCHANGED all_vars
    BY <1>2, <2>2 DEF OpenedInv, all_vars, vars, writer_vars, opening_vars
  <2>3. CASE Build
    <3>1. status' = status
      BY <2>3 DEF Build, opening_vars
    <3>2. CASE status = "open"
      BY <3>1, <3>2 DEF OpenedInv
    <3>3. CASE status # "open"
      <4>1. wpc = "written"
        BY <1>2, <3>3 DEF OpenedInv
      <4>2. Next
        BY <2>3 DEF Build
      <4>3. ~Writing /\ ~SinkFails
        BY <4>1 DEF Writing, StartLayout, MeasureRun, Price, WriteTextDict, EndDictionaries,
                    WriteRun, EndRecords, WriteDirectory, SinkFails
      <4>4. wpc' = wpc
        BY <4>2, <4>3 DEF Next, Consume, writer_vars
      <4> QED
        BY <4>1, <4>4 DEF OpenedInv
    <3> QED
      BY <3>2, <3>3
  <2> QED
    BY <2>1, <2>2, <2>3 DEF BuildNext
<1> QED
  BY <1>4, <1>5, <1>6, <1>7, <1>8, <1>9, <1>10, <1>11, <1>12 DEF BuiltInv

(* The file is shorter than 2^64 bytes, so that no offset wraps around.    *)
ImageFits == file # None => file[1].length < WordSize

(* The image a client opens is the one the lookups are proved about: every *)
(* slot of a file that finish has written decodes to the place and the     *)
(* stride its records were written with, its stored stretch lies inside    *)
(* the address field, and its records are strictly increasing after        *)
(* trimming.  A byte address is longer than a word and shorter than 256    *)
(* bytes, the file shorter than 2^64.                                      *)
THEOREM BuiltImagesAreWellFormed ==
    BuildSpec => [](LongAddresses /\ ImageFits => ImageWellFormed)
<1>1. BuildInit => BuiltInv
  BY InitBuilt
<1>2. BuiltInv /\ [BuildNext]_all_vars => BuiltInv'
  BY NextBuilt
<1>3. BuiltInv => (LongAddresses /\ ImageFits => ImageWellFormed)
  <2> SUFFICES ASSUME BuiltInv, LongAddresses, ImageFits, status = "ok" PROVE ImageWellFormed
    BY DEF ImageWellFormed
  <2>1. wpc = "written" /\ file # None /\ FileWritten
    BY DEF BuiltInv, OpenedInv, FileInv
  <2>2. pos < WordSize
    BY <2>1 DEF ImageFits, FileWritten, WrittenAs
  <2>3. SortedFlagExact
    BY DEF BuiltInv, OrderInv
  <2>6. AddressFits
    BY FormatAssumption, WordAssumption DEF LongAddresses, AddressFits
  <2>4. Finished
    BY <2>1, <2>2, <2>3, <2>6 DEF BuiltInv, Finished
  <2>5. image[1] = Attach(file[1])
    BY <2>1 DEF image, Some
  <2> QED
    BY <2>4, <2>5, FinishedWellFormed DEF ImageWellFormed
<1> QED
  BY <1>1, <1>2, <1>3, PTL DEF BuildSpec
=============================================================================
