------------------------- MODULE TableBuilderProofs -------------------------
(***************************************************************************)
(* The builder while it consumes records, for every schema, key set,       *)
(* number of handles and records: types, the order of the staged rows,     *)
(* deduplication, what finish freezes, and what is kept of a record.       *)
(*                                                                         *)
(* The types need Shape, which ties the mode to the staging and to the     *)
(* open handles.  The order needs OrderInv: SortedFlagExact does not say   *)
(* that the coordinates commit compares with are those of the last row.    *)
(* The address span is any number of words, so packing a key and comparing *)
(* packed keys is arithmetic on quotients and remainders (SplitWord,       *)
(* PackedOrder).                                                           *)
(*                                                                         *)
(* The measured ranges cover what was committed, and a staged row still    *)
(* says what its client gave.  Neither is inductive.  A setter widens the  *)
(* range long before commit counts the record, so CoverInv also speaks of  *)
(* the open handles, and it fixes that there is one committed record per   *)
(* row, which finish permutes together.  The second needs MeansInv: what   *)
(* commit stages comes from the scratch and pending_address_, not from the *)
(* handle.                                                                 *)
(***************************************************************************)
EXTENDS TableBuilder, TLAPS

(* How the mode, the staging and the open handles go together.  Rows are   *)
(* packed into words only in a keyed build, whose handles hold the two     *)
(* parts of one word.                                                      *)
Packable(r) ==
    /\ r.value < AddressSpan
    /\ r.partition * AddressSpan + r.value \in Word

Shape ==
    /\ staging.kind = "none" => staging = NoStaging
    /\ mode # "undecided" => staging.kind # "none"
    /\ mode = "undecided" => \A h \in Handles : ~handles[h].open
    /\ stage = "consuming" /\ staging.kind = "memory" => mode = "keyed"
    /\ mode = "keyed" => \A h \in Handles : handles[h].open => Packable(handles[h])
    /\ blob = "owned" => staging.kind = "blob"

----------------------------------------------------------------------------
(* Words are natural numbers, and there is at least one.                   *)
LEMMA WordFacts ==
    /\ WordSize \in Nat \ {0}
    /\ Word \subseteq Nat
    /\ 0 \in Word /\ WordSize - 1 \in Word
    /\ \A n \in Nat : n % WordSize \in Word
    /\ AddressSpan \in Nat \ {0}
<1>1. WordSize \in Nat \ {0}
  BY WordAssumption DEF WordSize
<1> QED
  BY <1>1, BuilderAssumption DEF Word

(* A word taken apart by the address span, and put together again.         *)
LEMMA SplitWord ==
    ASSUME NEW w \in Word
    PROVE  /\ w \div AddressSpan \in Word /\ w % AddressSpan \in Word
           /\ w % AddressSpan < AddressSpan
           /\ (w \div AddressSpan) * AddressSpan + (w % AddressSpan) = w
<1> DEFINE S == AddressSpan  q == w \div S  r == w % S
<1>1. S \in Nat \ {0} /\ w \in Nat /\ WordSize \in Nat
  BY WordFacts
<1>2. q \in Nat /\ r \in 0..(S - 1) /\ q * S + r = w
  BY <1>1
<1> HIDE DEF q, r
<1>3. q <= q * S
  BY <1>1, <1>2
<1>4. q <= w /\ r <= w
  BY <1>1, <1>2, <1>3
<1>5. q \in Word /\ r \in Word
  BY <1>1, <1>2, <1>4 DEF Word
<1>6. q \in Word /\ r \in Word /\ r < S /\ q * S + r = w
  BY <1>1, <1>2, <1>5
<1> QED
  BY <1>6 DEF q, r

(* Packed words are ordered as their two parts are.                        *)
LEMMA PackedOrder ==
    ASSUME NEW S \in Nat \ {0}, NEW a \in Nat, NEW b \in Nat
    PROVE  a < b <=> \/ a \div S < b \div S
                     \/ a \div S = b \div S /\ a % S < b % S
<1> DEFINE qa == a \div S  ra == a % S  qb == b \div S  rb == b % S
<1>1. /\ qa \in Nat /\ ra \in 0..(S - 1) /\ a = qa * S + ra
      /\ qb \in Nat /\ rb \in 0..(S - 1) /\ b = qb * S + rb
  OBVIOUS
<1> HIDE DEF qa, ra, qb, rb
<1>2. \A m, n \in Nat : m < n => m * S + S <= n * S
  <2> SUFFICES ASSUME NEW m \in Nat, NEW n \in Nat, m < n PROVE m * S + S <= n * S
    OBVIOUS
  <2> PICK d \in Nat : n = m + 1 + d
    <3>1. n - m - 1 \in Nat /\ n = m + 1 + (n - m - 1)
      OBVIOUS
    <3> QED
      BY <3>1
  <2>1. n * S = m * S + S + d * S /\ d * S \in Nat
    OBVIOUS
  <2> QED
    BY <2>1
<1>3. CASE qa < qb
  BY <1>1, <1>2, <1>3
<1>4. CASE qa = qb
  BY <1>1, <1>4
<1>5. CASE qb < qa
  BY <1>1, <1>2, <1>5
<1> QED
  BY <1>1, <1>3, <1>4, <1>5 DEF qa, ra, qb, rb

(* The three stagings order their rows as std::map would order their keys. *)
LEMMA BeforeIsKeyLess ==
    ASSUME NEW kind, NEW n, NEW a \in RowType(kind, n), NEW b \in RowType(kind, n)
    PROVE  Before(kind, a, b) <=> KeyLess(RowKey(kind, a), RowKey(kind, b))
<1>1. CASE kind = "memory"
  <2>1. a.packed \in Nat /\ b.packed \in Nat /\ AddressSpan \in Nat \ {0}
    BY <1>1, WordFacts DEF RowType
  <2>2. ~LexLess(<<>>, <<>>)
    BY DEF LexLess
  <2>3. KeyLess(RowKey(kind, a), RowKey(kind, b)) <=>
          \/ a.packed \div AddressSpan < b.packed \div AddressSpan
          \/ /\ a.packed \div AddressSpan = b.packed \div AddressSpan
             /\ a.packed % AddressSpan < b.packed % AddressSpan
    BY <1>1, <2>2 DEF KeyLess, RowKey, NarrowKey
  <2> QED
    BY <1>1, <2>1, <2>3, PackedOrder DEF Before
<1>2. CASE kind # "memory"
  BY <1>2 DEF Before
<1> QED
  BY <1>1, <1>2

----------------------------------------------------------------------------
(* Type correctness.                                                       *)
LEMMA InitType == BuilderInit => TypeOK /\ Shape
<1> SUFFICES ASSUME BuilderInit PROVE TypeOK /\ Shape
  OBVIOUS
<1>1. ZeroSlots \in TupleType
  BY WordFacts DEF ZeroSlots, TupleType
<1>2. NarrowKey(0, 0) \in KeyType
  BY WordFacts DEF NarrowKey, KeyType
<1>3. TypeOK
  BY <1>1, <1>2, WordFacts, BuilderAssumption DEF BuilderInit, TypeOK, NoStaging, NoHandle
<1>4. Shape
  BY DEF BuilderInit, Shape, NoStaging, NoHandle
<1> QED
  BY <1>3, <1>4

(* A call that throws, or does nothing, leaves the state as it was.        *)
LEMMA ThrowsType ==
    ASSUME TypeOK, Shape, Throws \/ UNCHANGED builder_vars PROVE TypeOK' /\ Shape'
<1>1. /\ UNCHANGED <<order, mode, staging, blob, wide_width, slots, stats, texts, tuples>>
      /\ UNCHANGED <<index, dedup_active, count, last, pending_address, stage, handles>>
  BY DEF Throws, builder_vars, config, store, world, record, client
<1>2. TypeOK'
  BY <1>1 DEF TypeOK, RowType
<1>3. Shape'
  BY <1>1 DEF Shape, Packable
<1> QED
  BY <1>2, <1>3

(* A staging just installed is empty.                                      *)
StagingType ==
    staging \in [kind : {"none", "memory", "wide", "blob"},
                 rows : Seq(RowType(staging.kind, Len(tuples))), sorted : BOOLEAN]

(* A staging just installed is typed, whatever its kind.                   *)
LEMMA EmptyStagingType ==
    ASSUME NEW kind \in {"memory", "wide", "blob"}, staging' = EmptyStaging(kind)
    PROVE  StagingType' /\ staging'.kind = kind /\ staging'.rows = <<>>
<1>1. staging' = [kind |-> kind, rows |-> <<>>, sorted |-> TRUE]
  BY DEF EmptyStaging, NoStaging
<1>2. staging'.kind = kind /\ staging'.rows = <<>>
  BY <1>1
<1>3. \A T : staging' \in [kind : {"none", "memory", "wide", "blob"},
                           rows : Seq(T), sorted : BOOLEAN]
  BY <1>1
<1> QED
  BY <1>2, <1>3, Zenon DEF StagingType

(* A step that leaves staging and tuples alone leaves the staging typed.   *)
LEMMA SameStagingType ==
    ASSUME TypeOK, UNCHANGED <<staging, tuples>> PROVE StagingType'
BY DEF TypeOK, StagingType, RowType

(* begin_record and begin_record_at of the integer form.                   *)
LEMMA BeginNarrowType ==
    ASSUME TypeOK, Shape, NEW h \in Handles, NEW wanted \in {"keyed", "explicit"},
           NEW partition \in Word, NEW value \in Word,
           wanted = "keyed" => Packable([partition |-> partition, value |-> value]),
           BeginNarrow(h, wanted, partition, value)
    PROVE  TypeOK' /\ Shape'
<1> DEFINE new == Handle(partition, value, NarrowKey(partition, value))
<1>1. /\ new.open = TRUE /\ new.partition = partition /\ new.value = value
      /\ new.key \in KeyType
  BY DEF Handle, NarrowKey, KeyType
<1>2. slots' \in TupleType
  BY WordFacts DEF BeginNarrow, ZeroSlots, TupleType
<1>3. /\ mode \in {"undecided", wanted} /\ mode' = wanted
      /\ staging' = IF staging.kind = "none"
                    THEN EmptyStaging(IF wanted = "keyed" THEN "memory" ELSE "wide")
                    ELSE staging
      /\ handles' = [handles EXCEPT ![h] = new]
      /\ UNCHANGED <<blob, wide_width, order, tuples, index, dedup_active, count, last,
                     stats, texts, pending_address, stage, log>>
      /\ stage = "consuming"
  BY DEF BeginNarrow, EnterMode, config, finished
<1>4. /\ DOMAIN handles' = Handles /\ handles'[h] = new
      /\ \A g \in Handles : g # h => handles'[g] = handles[g]
  BY <1>3 DEF TypeOK
<1>5. StagingType'
  BY <1>3, EmptyStagingType, SameStagingType
<1>6. TypeOK'
  BY <1>1, <1>2, <1>3, <1>4, <1>5 DEF TypeOK, StagingType
<1>7. Shape'
  BY <1>1, <1>3, <1>4 DEF Shape, EmptyStaging, NoStaging, Packable, TypeOK
<1> QED
  BY <1>6, <1>7

(* begin_record: the two parts of a key are words and pack again.          *)
LEMMA BeginRecordType ==
    ASSUME TypeOK, Shape, NEW h \in Handles, NEW key \in Keys, begin_record(h, key)
    PROVE  TypeOK' /\ Shape'
<1>1. key \in Word
  BY BuilderAssumption
<1>2. /\ key \div AddressSpan \in Word /\ key % AddressSpan \in Word
      /\ key % AddressSpan < AddressSpan
      /\ (key \div AddressSpan) * AddressSpan + (key % AddressSpan) = key
  BY <1>1, SplitWord
<1>3. Packable([partition |-> key \div AddressSpan, value |-> key % AddressSpan])
  BY <1>1, <1>2, Zenon DEF Packable
<1> QED
  BY <1>2, <1>3, BeginNarrowType DEF begin_record

(* begin_record_at of the integer form takes any two words.                *)
LEMMA BeginRecordAtType ==
    ASSUME TypeOK, Shape, NEW h \in Handles, NEW k \in SplitKeys, begin_record_at(h, k)
    PROVE  TypeOK' /\ Shape'
<1>1. k[1] \in Word /\ k[2] \in Word
  BY BuilderAssumption
<1> QED
  BY <1>1, BeginNarrowType DEF begin_record_at

(* begin_record_at of the byte form.                                       *)
LEMMA BeginWideType ==
    ASSUME TypeOK, Shape, NEW h \in Handles, NEW k \in WideKeys, begin_record_at_wide(h, k)
    PROVE  TypeOK' /\ Shape'
<1> DEFINE new == Handle(k[1], 0, WideKey(k[1], k[2]))
<1>1. k[1] \in Word /\ k[2] \in Seq(Byte)
  BY BuilderAssumption
<1>2. /\ new.open = TRUE /\ new.partition \in Word /\ new.value \in Word
      /\ new.key \in KeyType
  BY <1>1, WordFacts DEF Handle, WideKey, KeyType
<1>3. slots' \in TupleType
  BY WordFacts DEF begin_record_at_wide, ZeroSlots, TupleType
<1>4. /\ mode \in {"undecided", "explicit_wide"} /\ mode' = "explicit_wide"
      /\ wide_width' \in Nat
      /\ \/ /\ mode = "undecided" /\ staging.kind = "none"
            /\ staging' = EmptyStaging("blob") /\ blob' = "owned"
         \/ /\ ~(mode = "undecided" /\ staging.kind = "none")
            /\ UNCHANGED <<staging, blob>>
  BY <1>1 DEF begin_record_at_wide, EnterWideMode, TypeOK
<1>5. /\ handles' = [handles EXCEPT ![h] = new]
      /\ UNCHANGED <<order, tuples, index, dedup_active, count, last,
                     stats, texts, stage, log>>
      /\ stage = "consuming" /\ pending_address' = k[2]
  BY DEF begin_record_at_wide, config, finished
<1>6. /\ DOMAIN handles' = Handles /\ handles'[h] = new
      /\ \A g \in Handles : g # h => handles'[g] = handles[g]
  BY <1>5 DEF TypeOK
<1>7. StagingType'
  BY <1>4, <1>5, EmptyStagingType, SameStagingType
<1>8. TypeOK'
  BY <1>1, <1>2, <1>3, <1>4, <1>5, <1>6, <1>7 DEF TypeOK, StagingType
<1>9. staging'.kind # "none" /\ staging'.kind # "memory"
  BY <1>4, <1>5 DEF Shape, EmptyStaging, NoStaging
<1>10. blob' = "owned" => staging'.kind = "blob"
  BY <1>4 DEF Shape, EmptyStaging, NoStaging
<1>11. Shape'
  BY <1>4, <1>9, <1>10 DEF Shape
<1> QED
  BY <1>8, <1>11

(* The setters.                                                            *)
LEMMA ObserveType ==
    ASSUME TypeOK, NEW f \in Fields, NEW raw \in Word
    PROVE  observe(f, raw) \in [Fields -> [seen : BOOLEAN, min : Word, max : Word]]
<1>1. stats[f] \in [seen : BOOLEAN, min : Word, max : Word]
  BY DEF TypeOK
<1>2. CASE ~stats[f].seen
  BY <1>1, <1>2 DEF observe, TypeOK
<1>3. CASE stats[f].seen
  <2> DEFINE low == IF ValueLess(f, raw, stats[f].min) THEN raw ELSE stats[f].min
             high == IF ValueLess(f, stats[f].max, raw) THEN raw ELSE stats[f].max
  <2>1. low \in Word /\ high \in Word
    BY <1>1
  <2>2. observe(f, raw) = [stats EXCEPT ![f] = [[stats[f] EXCEPT !.min = low] EXCEPT !.max = high]]
    BY <1>1, <1>3 DEF observe
  <2> HIDE DEF low, high
  <2> QED
    BY <1>1, <2>1, <2>2 DEF TypeOK
<1> QED
  BY <1>2, <1>3

(* blob_dictionary_builder::intern: the text has an id, a natural.         *)
LEMMA InternText ==
    ASSUME TypeOK, NEW f \in Fields, NEW v \in FieldValues[f]
    PROVE  LET after == Interned(f, v)
           IN  /\ DOMAIN after = Fields
               /\ \A g \in Fields : after[g] \in Seq(FieldValues[g])
               /\ TextId(after[f], v) \in Nat
<1> DEFINE after == Interned(f, v)
<1>1. texts[f] \in Seq(FieldValues[f]) /\ DOMAIN texts = Fields
  BY DEF TypeOK
<1>2. /\ DOMAIN after = Fields
      /\ \A g \in Fields : g # f => after[g] = texts[g]
      /\ after[f] \in Seq(FieldValues[f])
      /\ \E i \in DOMAIN after[f] : after[f][i] = v
  <2>1. CASE \E i \in DOMAIN texts[f] : texts[f][i] = v
    BY <1>1, <2>1 DEF Interned
  <2>2. CASE ~\E i \in DOMAIN texts[f] : texts[f][i] = v
    <3>1. after = [texts EXCEPT ![f] = Append(@, v)]
      BY <2>2 DEF Interned
    <3>2. after[f] = Append(texts[f], v)
      BY <1>1, <3>1
    <3>3. Len(texts[f]) + 1 \in DOMAIN after[f] /\ after[f][Len(texts[f]) + 1] = v
      BY <1>1, <3>2
    <3> QED
      BY <1>1, <3>1, <3>2, <3>3
  <2> QED
    BY <2>1, <2>2
<1> HIDE DEF after
<1>3. DOMAIN after[f] \subseteq Nat \ {0}
  BY <1>2
<1>4. (CHOOSE i \in DOMAIN after[f] : after[f][i] = v) \in Nat \ {0}
  BY <1>2, <1>3
<1>5. TextId(after[f], v) \in Nat
  BY <1>4 DEF TextId
<1>6. \A g \in Fields : after[g] \in Seq(FieldValues[g])
  BY <1>2 DEF TypeOK
<1> QED
  BY <1>2, <1>5, <1>6 DEF after

(* Every setter of record_ref writes a value of its field.                 *)
LEMMA SetFieldType ==
    ASSUME TypeOK, Shape, NEW h \in Handles, NEW f \in Fields, NEW v \in FieldValues[f],
           SetField(h, f, v)
    PROVE  TypeOK' /\ Shape'
<1>1. /\ slots' \in TupleType
      /\ stats' \in [Fields -> [seen : BOOLEAN, min : Word, max : Word]]
      /\ DOMAIN texts' = Fields /\ \A g \in Fields : texts'[g] \in Seq(FieldValues[g])
  <2>1. CASE FieldKind[f] # "text"
    <3>1. v \in Word /\ v \in Nat
      BY <2>1, BuilderAssumption, WordFacts
    <3>2. slots' = [slots EXCEPT ![f] = v] /\ UNCHANGED texts
      BY <2>1, BuilderAssumption DEF SetField
    <3>3. stats' = observe(f, v) \/ UNCHANGED stats
      BY <2>1, BuilderAssumption DEF SetField
    <3>4. slots' \in TupleType
      BY <3>1, <3>2 DEF TypeOK, TupleType
    <3> QED
      BY <3>1, <3>2, <3>3, <3>4, ObserveType DEF TypeOK
  <2>2. CASE FieldKind[f] = "text"
    <3>1. /\ texts' = Interned(f, v) /\ slots' = [slots EXCEPT ![f] = TextId(texts'[f], v)]
          /\ UNCHANGED stats
      BY <2>2 DEF SetField
    <3>2. TextId(texts'[f], v) \in Nat
      BY <3>1, InternText
    <3>3. slots' \in TupleType
      BY <2>2, <3>1, <3>2 DEF TypeOK, TupleType
    <3> QED
      BY <3>1, <3>3, InternText DEF TypeOK
  <2> QED
    BY <2>1, <2>2
<1>2. /\ DOMAIN handles' = Handles
      /\ \A g \in Handles : /\ handles'[g].open = handles[g].open
                            /\ handles'[g].partition = handles[g].partition
                            /\ handles'[g].value = handles[g].value
                            /\ handles'[g].key = handles[g].key
  BY DEF SetField, TypeOK
<1>3. UNCHANGED <<order, staging, tuples, index, dedup_active, count, last,
                  mode, blob, wide_width, pending_address, stage, log>>
  BY DEF SetField, config, store, world
<1>4. StagingType'
  BY <1>3, SameStagingType
<1>5. TypeOK'
  BY <1>1, <1>2, <1>3, <1>4 DEF TypeOK, StagingType
<1>6. Shape'
  BY <1>2, <1>3 DEF Shape, Packable
<1> QED
  BY <1>5, <1>6

(* intern_tuple returns an id of the table it leaves, and leaves an index  *)
(* of ids.                                                                 *)
LEMMA InternTuple ==
    ASSUME TypeOK, NEW t, t = intern_tuple
    PROVE  /\ t.tuples \in Seq(TupleType)
           /\ Len(t.tuples) \in {Len(tuples), Len(tuples) + 1}
           /\ t.id \in 0..(Len(t.tuples) - 1)
           /\ t.index \subseteq 0..(Len(t.tuples) - 1)
           /\ t.active \in BOOLEAN
           /\ DedupExact =>
                 (t.active => /\ t.index = 0..(Len(t.tuples) - 1)
                              /\ \A i, j \in 1..Len(t.tuples) :
                                    t.tuples[i] = t.tuples[j] => i = j)
<1> DEFINE n == Len(tuples)
           appended == Append(tuples, slots)
           same == {u \in index : tuple_equal(tuples[u + 1], slots)}
           keeps == KeepsDedup(Len(appended))
<1>1. /\ tuples \in Seq(TupleType) /\ n \in Nat /\ index \subseteq 0..(n - 1)
      /\ slots \in TupleType /\ dedup_active \in BOOLEAN
  BY DEF TypeOK
<1>2. /\ appended \in Seq(TupleType) /\ Len(appended) = n + 1
      /\ appended[n + 1] = slots
      /\ \A i \in 1..n : appended[i] = tuples[i]
  BY <1>1
<1>3. CASE ~dedup_active
  <2>1. t = [id |-> n, tuples |-> appended, index |-> index, active |-> FALSE]
    BY <1>3 DEF intern_tuple, NextTuple
  <2> HIDE DEF appended
  <2> QED
    BY <1>1, <1>2, <2>1
<1>4. CASE dedup_active /\ same # {}
  <2>1. t = [id |-> CHOOSE u \in same : TRUE, tuples |-> tuples,
             index |-> index, active |-> TRUE]
    BY <1>4 DEF intern_tuple
  <2>2. (CHOOSE u \in same : TRUE) \in index
    BY <1>4
  <2>3. /\ t.tuples = tuples /\ t.id \in index /\ t.index = index /\ t.active = TRUE
    BY <2>1, <2>2
  <2> HIDE DEF same, n, appended, keeps
  <2>4. n = Len(tuples)
    BY DEF n
  <2> QED
    BY <1>1, <1>4, <2>3, <2>4 DEF DedupExact
<1>5. CASE dedup_active /\ same = {}
  <2>1. t = [id |-> n, tuples |-> appended,
             index |-> IF keeps THEN index \cup {n} ELSE {},
             active |-> keeps]
    BY <1>5 DEF intern_tuple, NextTuple
  <2>2. keeps \in BOOLEAN
    BY DEF KeepsDedup
  <2>3. \A u \in index : tuples[u + 1] # slots
    BY <1>5 DEF tuple_equal
  <2> HIDE DEF appended, same, keeps
  <2>4. /\ t.tuples = appended /\ t.id = n /\ t.active = keeps
        /\ t.index = index \cup {n} \/ t.index = {}
        /\ keeps => t.index = index \cup {n}
    BY <2>1
  <2>10. n \in Nat /\ index \subseteq 0..(n - 1)
    BY <1>1
  <2> HIDE DEF n
  <2>5. t.index \subseteq 0..n
    <3>1. index \cup {n} \subseteq 0..n
      BY <2>10
    <3> QED
      BY <2>4, <3>1, Zenon
  <2>6. ASSUME DedupExact, t.active
        PROVE  /\ t.index = 0..n
               /\ \A i, j \in 1..(n + 1) : appended[i] = appended[j] => i = j
    <3>1. index = 0..(n - 1) /\ \A i, j \in 1..n : tuples[i] = tuples[j] => i = j
      BY <1>5, <2>6 DEF DedupExact, n
    <3>2. t.index = 0..n
      <4>1. (0..(n - 1)) \cup {n} = 0..n
        BY <2>10
      <4> QED
        BY <2>4, <2>6, <3>1, <4>1
    <3>3. \A i \in 1..n : tuples[i] # slots
      <4> SUFFICES ASSUME NEW i \in 1..n PROVE tuples[i] # slots
        OBVIOUS
      <4>1. i - 1 \in index /\ (i - 1) + 1 = i
        BY <1>1, <3>1 DEF n
      <4> QED
        BY <2>3, <4>1
    <3>4. \A i, j \in 1..(n + 1) : appended[i] = appended[j] => i = j
      BY <2>10, <1>2, <3>1, <3>3 DEF n
    <3> QED
      BY <3>2, <3>4
  <2>7. n = Len(tuples)
    BY DEF n
  <2>8. Len(t.tuples) = n + 1 /\ t.tuples \in Seq(TupleType)
    BY <1>2, <2>4 DEF n
  <2>9. DedupExact =>
           (t.active => /\ t.index = 0..(Len(t.tuples) - 1)
                        /\ \A i, j \in 1..Len(t.tuples) :
                              t.tuples[i] = t.tuples[j] => i = j)
    BY <2>10, <2>4, <2>6, <2>8
  <2> QED
    BY <2>10, <2>2, <2>4, <2>5, <2>7, <2>8, <2>9
<1> QED
  BY <1>1, <1>3, <1>4, <1>5

(* A row that is staged.                                                   *)
LEMMA RowIsTyped ==
    ASSUME NEW kind, NEW key \in KeyType, NEW n \in Nat, NEW id \in 0..(n - 1)
    PROVE  Row(kind, key, id) \in RowType(kind, n)
<1>1. key.partition \in Word /\ key.value \in Word /\ key.bytes \in Seq(Byte)
  BY DEF KeyType
<1>2. pack(key.partition, key.value) \in Word
  <2>1. key.partition * AddressSpan + key.value \in Nat
    <3>1. key.partition \in Nat /\ key.value \in Nat /\ AddressSpan \in Nat
      BY <1>1, WordFacts
    <3> QED
      BY <3>1
  <2> QED
    BY <2>1, WordFacts DEF pack
<1> QED
  BY <1>1, <1>2 DEF Row, RowType

(* The rows staged before remain rows when the tuple table grows.          *)
LEMMA RowTypeGrows ==
    ASSUME NEW kind, NEW m \in Nat, NEW n \in Nat, m <= n
    PROVE  RowType(kind, m) \subseteq RowType(kind, n)
<1>1. 0..(m - 1) \subseteq 0..(n - 1)
  OBVIOUS
<1> QED
  BY <1>1 DEF RowType

(* push appends one row and updates the sorted_ flag.                      *)
LEMMA PushType ==
    ASSUME NEW kind \in {"none", "memory", "wide", "blob"},
           NEW T, NEW st \in [kind : {kind}, rows : Seq(T), sorted : BOOLEAN],
           NEW key, NEW id, Row(kind, key, id) \in T
    PROVE  /\ push(st, key, id) \in [kind : {kind}, rows : Seq(T), sorted : BOOLEAN]
           /\ push(st, key, id).rows = Append(st.rows, Row(kind, key, id))
           /\ push(st, key, id).sorted = (st.sorted /\
                 (Len(st.rows) = 0 \/ Before(kind, st.rows[Len(st.rows)], Row(kind, key, id))))
<1> DEFINE row == Row(kind, key, id)
           flag == st.sorted /\ (Len(st.rows) = 0 \/ Before(kind, st.rows[Len(st.rows)], row))
<1>1. flag \in BOOLEAN
  BY DEF Before, KeyLess
<1>2. push(st, key, id) = [kind |-> kind, rows |-> Append(st.rows, row), sorted |-> flag]
  <2>1. st.kind = kind
    OBVIOUS
  <2>2. push(st, key, id) = [st EXCEPT !.rows = Append(@, row), !.sorted = flag]
    BY <2>1 DEF push
  <2> HIDE DEF row, flag
  <2> QED
    BY <2>1, <2>2
<1>3. Append(st.rows, row) \in Seq(T)
  OBVIOUS
<1> HIDE DEF row, flag
<1>4. /\ push(st, key, id) \in [kind : {kind}, rows : Seq(T), sorted : BOOLEAN]
      /\ push(st, key, id).rows = Append(st.rows, row)
      /\ push(st, key, id).sorted = flag
  BY <1>1, <1>2, <1>3
<1> QED
  BY <1>4, Zenon DEF row, flag

(* What commit stages is a key.                                            *)
LEMMA CommitKeyType ==
    ASSUME TypeOK, NEW h \in Handles, handles[h].open
    PROVE  CommitKey(handles[h]) \in KeyType
<1>1. /\ handles[h].partition \in Word /\ handles[h].value \in Word
      /\ pending_address \in Seq(Byte)
  BY DEF TypeOK
<1>4. 0 \in Word /\ <<>> \in Seq(Byte)
  BY WordFacts
<1>2. CASE blob = "null"
  BY <1>1, <1>2, <1>4 DEF CommitKey, NarrowKey, KeyType
<1>3. CASE blob # "null"
  BY <1>1, <1>3, <1>4 DEF CommitKey, WideKey, KeyType
<1> QED
  BY <1>2, <1>3

(* commit.                                                                 *)
LEMMA CommitType ==
    ASSUME TypeOK, Shape, NEW h \in Handles, commit(h)
    PROVE  TypeOK' /\ Shape'
<1> DEFINE t == intern_tuple
           key == CommitKey(handles[h])
           T == RowType(staging.kind, Len(tuples'))
<1>1. key \in KeyType
  BY CommitKeyType DEF commit
<1>2. /\ tuples' = t.tuples /\ index' = t.index /\ dedup_active' = t.active
      /\ staging' = push(staging, key, t.id)
      /\ last' = [partition |-> handles[h].partition, value |-> handles[h].value,
                  bytes |-> IF blob = "null" THEN last.bytes ELSE pending_address]
      /\ count < MaxRecords /\ count' = count + 1
      /\ UNCHANGED <<order, mode, blob, wide_width, slots, stats, texts, pending_address,
                     stage, handles>>
  BY DEF commit, StoreTuple, config, world, record
<1>3. /\ t.tuples \in Seq(TupleType) /\ Len(t.tuples) \in {Len(tuples), Len(tuples) + 1}
      /\ t.id \in 0..(Len(t.tuples) - 1) /\ t.index \subseteq 0..(Len(t.tuples) - 1)
      /\ t.active \in BOOLEAN
  BY InternTuple
<1>4. last' \in KeyType
  BY <1>2 DEF TypeOK, KeyType, commit
<1> HIDE DEF t, key
<1>5. Len(tuples) \in Nat /\ Len(tuples') \in Nat /\ Len(tuples) <= Len(tuples')
  BY <1>2, <1>3 DEF TypeOK
<1>5b. Row(staging.kind, key, t.id) \in T
  BY <1>1, <1>2, <1>3, <1>5, RowIsTyped
<1>6. RowType(staging.kind, Len(tuples)) \subseteq T
  BY <1>5, RowTypeGrows
<1> HIDE DEF T
<1>7. staging \in [kind : {staging.kind}, rows : Seq(T), sorted : BOOLEAN]
  BY <1>6 DEF TypeOK
<1>8. staging' \in [kind : {staging.kind}, rows : Seq(T), sorted : BOOLEAN]
  BY <1>2, <1>5b, <1>7, PushType DEF TypeOK
<1>9. staging'.kind = staging.kind
  BY <1>8
<1>10. StagingType'
  BY <1>8, <1>9 DEF StagingType, TypeOK, T
<1>11. count' \in 0..MaxRecords
  BY <1>2, BuilderAssumption DEF TypeOK
<1>12. TypeOK'
  BY <1>2, <1>3, <1>4, <1>10, <1>11 DEF TypeOK, StagingType
<1>13. Shape'
  BY <1>2, <1>9 DEF Shape, commit, TypeOK, Packable
<1> QED
  BY <1>12, <1>13

(* commit into a staging that refuses the row, after interning.            *)
LEMMA CommitRefusedType ==
    ASSUME TypeOK, Shape, NEW h \in Handles, CommitRefused(h)
    PROVE  TypeOK' /\ Shape'
<1> DEFINE t == intern_tuple
<1>1. /\ tuples' = t.tuples /\ index' = t.index /\ dedup_active' = t.active
      /\ UNCHANGED <<staging, last, count, order, mode, blob, wide_width, slots, stats,
                     texts, pending_address, stage, handles>>
  BY DEF CommitRefused, StoreTuple, config, world, record, client
<1>2. /\ t.tuples \in Seq(TupleType) /\ Len(t.tuples) \in {Len(tuples), Len(tuples) + 1}
      /\ t.index \subseteq 0..(Len(t.tuples) - 1) /\ t.active \in BOOLEAN
  BY InternTuple
<1> HIDE DEF t
<1>3. StagingType'
  <2>1. Len(tuples) \in Nat /\ Len(tuples') \in Nat /\ Len(tuples) <= Len(tuples')
    BY <1>1, <1>2 DEF TypeOK
  <2>2. RowType(staging.kind, Len(tuples)) \subseteq RowType(staging.kind, Len(tuples'))
    BY <2>1, RowTypeGrows
  <2> QED
    BY <1>1, <2>2 DEF TypeOK, StagingType
<1>4. TypeOK'
  BY <1>1, <1>2, <1>3 DEF TypeOK, StagingType
<1>5. Shape'
  BY <1>1 DEF Shape, Packable
<1> QED
  BY <1>4, <1>5

(* set_staging.                                                            *)
LEMMA SetStagingType ==
    ASSUME TypeOK, Shape, NEW kind \in ClientStagings, set_staging(kind)
    PROVE  TypeOK' /\ Shape'
<1>1. /\ staging' = EmptyStaging(kind)
      /\ blob' = IF blob = "owned" THEN "dangling" ELSE blob
      /\ UNCHANGED <<order, tuples, index, dedup_active, count, last, mode, wide_width,
                     slots, stats, texts, pending_address, stage, handles>>
  BY DEF set_staging, config, record, client
<1>2. kind \in {"wide", "blob"}
  BY BuilderAssumption
<1>3. StagingType' /\ staging'.kind = kind
  BY <1>1, <1>2, EmptyStagingType
<1>4. TypeOK'
  BY <1>1, <1>3 DEF TypeOK, StagingType
<1>5. Shape'
  BY <1>1, <1>2, <1>3 DEF Shape, Packable, TypeOK
<1> QED
  BY <1>4, <1>5

(* What finish sorts and checks: an empty memory staging if nothing was    *)
(* begun, and either the rows as they are or a permutation of them.        *)
Entering == IF staging.kind = "none" THEN EmptyStaging("memory") ELSE staging

(* finish either keeps the rows or replaces them by a sorted permutation.  *)
LEMMA FinishCases ==
    ASSUME TypeOK, finish
    PROVE  /\ stage = "consuming" /\ stage' \in {"layout", "failed"}
           /\ UNCHANGED <<order, tuples, index, dedup_active, count, last, mode, blob,
                          wide_width, slots, stats, texts, pending_address, handles>>
           /\ \/ /\ staging' = Entering
                 /\ Entering.sorted => thrown' = "none"
                 /\ Entering.sorted \/ order = "assume_sorted"
                 /\ stage' = "layout" => Entering.sorted
              \/ \E p \in SortingPermutations(Entering) :
                    /\ staging' = [Entering EXCEPT !.rows = Permuted(@, p), !.sorted = TRUE]
                    /\ stage' = "layout" => Increasing(StagedKeys(staging'))
                    /\ thrown' \in {"none", "duplicate"}
<1>1. /\ stage = "consuming" /\ stage' = IF thrown' = "none" THEN "layout" ELSE "failed"
      /\ UNCHANGED <<order, tuples, index, dedup_active, count, last, mode, blob,
                     wide_width, slots, stats, texts, pending_address, handles>>
  BY DEF finish, finished, config, world, record
<1>2. CASE Entering.sorted \/ order = "assume_sorted"
  <2>1. staging' = Entering /\ thrown' = IF Entering.sorted THEN "none" ELSE "unsorted"
    BY <1>2 DEF finish, Entering
  <2> QED
    BY <1>1, <1>2, <2>1
<1>3. CASE ~(Entering.sorted \/ order = "assume_sorted")
  <2>1. PICK p \in SortingPermutations(Entering) :
           LET sorted == [Entering EXCEPT !.rows = Permuted(@, p), !.sorted = TRUE]
           IN  /\ staging' = sorted
               /\ thrown' = IF check_sorted_unique(sorted) THEN "none" ELSE "duplicate"
    BY <1>3 DEF finish, Entering
  <2>2. stage' = "layout" => Increasing(StagedKeys(staging'))
    BY <1>1, <2>1 DEF check_sorted_unique
  <2> QED
    BY <1>1, <2>1, <2>2
<1> QED
  BY <1>2, <1>3

(* What finish works on is typed, and empty if nothing was begun.          *)
LEMMA EnteringType ==
    ASSUME TypeOK, Shape
    PROVE  /\ Entering \in [kind : {Entering.kind},
                            rows : Seq(RowType(Entering.kind, Len(tuples))), sorted : BOOLEAN]
           /\ Entering.kind \in {"memory", "wide", "blob"}
           /\ staging.kind # "none" => Entering = staging
           /\ staging.kind = "none" => Entering.rows = <<>> /\ Entering.sorted
<1>1. CASE staging.kind = "none"
  <2>1. Entering = [kind |-> "memory", rows |-> <<>>, sorted |-> TRUE]
    BY <1>1 DEF Entering, EmptyStaging, NoStaging
  <2>2. Entering.kind = "memory" /\ Entering.rows = <<>> /\ Entering.sorted
    BY <2>1
  <2>3. \A T : Entering \in [kind : {"memory"}, rows : Seq(T), sorted : BOOLEAN]
    BY <2>1
  <2> QED
    BY <1>1, <2>2, <2>3, Zenon
<1>2. CASE staging.kind # "none"
  <2>1. Entering = staging
    BY <1>2 DEF Entering
  <2>2. /\ staging \in [kind : {staging.kind},
                        rows : Seq(RowType(staging.kind, Len(tuples))), sorted : BOOLEAN]
        /\ staging.kind \in {"none", "memory", "wide", "blob"}
    BY DEF TypeOK
  <2> QED
    BY <1>2, <2>1, <2>2
<1> QED
  BY <1>1, <1>2

(* A permutation of the rows is a sequence of rows.                        *)
LEMMA PermutedType ==
    ASSUME NEW T, NEW st, st.rows \in Seq(T),
           NEW p \in SortingPermutations(st)
    PROVE  Permuted(st.rows, p) \in Seq(T)
<1>1. p \in [DOMAIN st.rows -> DOMAIN st.rows] /\ DOMAIN st.rows = 1..Len(st.rows)
  BY DEF SortingPermutations
<1>2. \A i \in 1..Len(st.rows) : st.rows[p[i]] \in T
  BY <1>1
<1> QED
  BY <1>1, <1>2 DEF Permuted

(* finish.                                                                 *)
LEMMA FinishType ==
    ASSUME TypeOK, Shape, finish PROVE TypeOK' /\ Shape'
<1>1. staging' \in [kind : {Entering.kind},
                    rows : Seq(RowType(Entering.kind, Len(tuples))), sorted : BOOLEAN]
  <2>1. CASE staging' = Entering
    BY <2>1, EnteringType
  <2>2. ASSUME NEW p \in SortingPermutations(Entering),
               staging' = [Entering EXCEPT !.rows = Permuted(@, p), !.sorted = TRUE]
        PROVE  staging' \in [kind : {Entering.kind},
                             rows : Seq(RowType(Entering.kind, Len(tuples))),
                             sorted : BOOLEAN]
    <3>1. Permuted(Entering.rows, p) \in Seq(RowType(Entering.kind, Len(tuples)))
      BY EnteringType, PermutedType
    <3> QED
      BY <2>2, <3>1, EnteringType
  <2> QED
    BY <2>1, <2>2, FinishCases
<1>2. staging'.kind \in {"memory", "wide", "blob"} /\ staging'.kind = Entering.kind
  BY <1>1, EnteringType
<1>3. StagingType'
  BY <1>1, <1>2, FinishCases DEF StagingType
<1>4. TypeOK'
  BY <1>3, FinishCases DEF TypeOK, StagingType
<1>5. blob' = "owned" => staging'.kind = "blob"
  BY <1>2, EnteringType, FinishCases DEF Shape
<1>6. stage' # "consuming" /\ UNCHANGED <<mode, handles>>
  BY FinishCases
<1>7. Shape'
  BY <1>2, <1>5, <1>6 DEF Shape, Packable
<1> QED
  BY <1>4, <1>7

(* Every call preserves the types and the shape.                           *)
LEMMA NextType == TypeOK /\ Shape /\ [BuilderNext]_builder_vars => TypeOK' /\ Shape'
<1> SUFFICES ASSUME TypeOK, Shape, [BuilderNext]_builder_vars PROVE TypeOK' /\ Shape'
  OBVIOUS
<1>1. CASE Throws \/ UNCHANGED builder_vars
  BY <1>1, ThrowsType
<1>2. CASE BuilderNext
  BY <1>2, ThrowsType, BeginRecordType, BeginRecordAtType, BeginWideType, SetFieldType,
     CommitType, CommitRefusedType, SetStagingType, FinishType
     DEF BuilderNext, SetRejected, CommitRejected, SetStagingRejected, BeginRejected,
         FinishRejected
<1> QED
  BY <1>1, <1>2

----------------------------------------------------------------------------
(* Deduplication.                                                          *)
LEMMA NextDedup ==
    TypeOK /\ DedupExact /\ [BuilderNext]_builder_vars => DedupExact'
<1> SUFFICES ASSUME TypeOK, DedupExact, [BuilderNext]_builder_vars PROVE DedupExact'
  OBVIOUS
<1>1. CASE UNCHANGED <<tuples, index, dedup_active>>
  BY <1>1 DEF DedupExact
<1>2. ASSUME StoreTuple(intern_tuple) PROVE DedupExact'
  <2> DEFINE t == intern_tuple
  <2>1. tuples' = t.tuples /\ index' = t.index /\ dedup_active' = t.active
    BY <1>2 DEF StoreTuple
  <2>2. t.active => /\ t.index = 0..(Len(t.tuples) - 1)
                    /\ \A i, j \in 1..Len(t.tuples) : t.tuples[i] = t.tuples[j] => i = j
    BY InternTuple
  <2> HIDE DEF t
  <2> QED
    BY <2>1, <2>2 DEF DedupExact
<1>3. CASE UNCHANGED builder_vars \/ Throws
  BY <1>1, <1>3 DEF builder_vars, store, Throws
<1>4. ASSUME NEW h \in Handles, commit(h) \/ CommitRefused(h) PROVE DedupExact'
  BY <1>2, <1>4 DEF commit, CommitRefused
<1>5. ASSUME NEW h \in Handles,
             \/ \E k \in Keys : begin_record(h, k)
             \/ \E k \in SplitKeys : begin_record_at(h, k)
             \/ \E k \in WideKeys : begin_record_at_wide(h, k)
      PROVE  DedupExact'
  BY <1>1, <1>5 DEF begin_record, begin_record_at, begin_record_at_wide, BeginNarrow
<1>6. ASSUME NEW h \in Handles, NEW f \in Fields, NEW v \in FieldValues[f], SetField(h, f, v)
      PROVE  DedupExact'
  BY <1>1, <1>6 DEF SetField, store
<1>7. CASE finish \/ \E kind \in ClientStagings : set_staging(kind)
  BY <1>1, <1>7 DEF finish, set_staging
<1> QED
  BY <1>3, <1>4, <1>5, <1>6, <1>7
     DEF BuilderNext, SetRejected, CommitRejected, SetStagingRejected, BeginRejected,
         FinishRejected

(* After finish.                                                           *)
LEMMA NextFrozen ==
    [BuilderNext]_builder_vars =>
        [stage # "consuming" => UNCHANGED <<staging.rows, tuples, count, log>>]_builder_vars
<1> SUFFICES ASSUME BuilderNext, stage # "consuming"
             PROVE  UNCHANGED <<staging.rows, tuples, count, log>>
  OBVIOUS
<1>1. CASE Throws
  BY <1>1 DEF Throws, store, client
<1>2. ~finish /\ \A h \in Handles :
         /\ \A k \in Keys : ~begin_record(h, k)
         /\ \A k \in SplitKeys : ~begin_record_at(h, k)
         /\ \A k \in WideKeys : ~begin_record_at_wide(h, k)
         /\ ~commit(h) /\ ~CommitRefused(h)
  BY DEF finish, begin_record, begin_record_at, begin_record_at_wide, BeginNarrow,
         commit, CommitRefused, finished
<1>3. ASSUME NEW h \in Handles, NEW f \in Fields, NEW v \in FieldValues[f], SetField(h, f, v)
      PROVE  UNCHANGED <<staging.rows, tuples, count, log>>
  BY <1>3 DEF SetField, store
<1>4. ASSUME NEW kind \in ClientStagings, set_staging(kind)
      PROVE  UNCHANGED <<staging.rows, tuples, count, log>>
  BY <1>4 DEF set_staging, EmptyStaging, NoStaging, client
<1> QED
  BY <1>1, <1>2, <1>3, <1>4
     DEF BuilderNext, SetRejected, CommitRejected, SetStagingRejected, BeginRejected,
         FinishRejected

----------------------------------------------------------------------------
(* The order of the staged rows.                                           *)

(* The coordinates commit compares the next record with.                   *)
LastKey == IF blob = "null" THEN NarrowKey(last.partition, last.value)
                            ELSE WideKey(last.partition, last.bytes)

(* SortedFlagExact alone is inductive for builds that sort.  That an       *)
(* assume_sorted build never ends unsorted needs more: the last staged row *)
(* has the coordinates kept in last_partition_, last_address_ and          *)
(* last_wide_, so the check of commit is a check against that row.         *)
OrderInv ==
    /\ SortedFlagExact
    /\ order = "assume_sorted" /\ stage = "consuming" => staging.sorted
    /\ stage = "consuming" /\ staging.rows # <<>> /\ blob # "dangling" =>
          /\ count # 0
          /\ RowKey(staging.kind, staging.rows[Len(staging.rows)]) = LastKey
    /\ UnsortedUnreachable

(* There is one staged key per row.                                        *)
LEMMA StagedKeysLen ==
    ASSUME NEW T, NEW st, st.rows \in Seq(T)
    PROVE  /\ Len(StagedKeys(st)) = Len(st.rows)
           /\ \A i \in 1..Len(st.rows) : StagedKeys(st)[i] = RowKey(st.kind, st.rows[i])
<1> DEFINE n == Len(st.rows)
           V == {RowKey(st.kind, st.rows[i]) : i \in 1..n}
<1>1. n \in Nat /\ DOMAIN st.rows = 1..n
  OBVIOUS
<1>2. StagedKeys(st) = [i \in 1..n |-> RowKey(st.kind, st.rows[i])]
  BY <1>1 DEF StagedKeys
<1>3. \A i \in 1..n : RowKey(st.kind, st.rows[i]) \in V
  OBVIOUS
<1> HIDE DEF n, V
<1>4. StagedKeys(st) \in Seq(V)
  BY <1>1, <1>2, <1>3
<1>5. Len(StagedKeys(st)) = n
  BY <1>1, <1>2, <1>4
<1> QED
  BY <1>2, <1>5 DEF n

(* No rows are increasing rows.                                            *)
LEMMA EmptyIncreasing ==
    ASSUME NEW st, st.rows = <<>> PROVE Increasing(StagedKeys(st))
<1>1. st.rows \in Seq({})
  OBVIOUS
<1>2. Len(StagedKeys(st)) = 0
  BY <1>1, StagedKeysLen
<1> QED
  BY <1>2 DEF Increasing

(* One more row keeps the rows increasing exactly when it is above the     *)
(* last one.                                                               *)
LEMMA AppendIncreasing ==
    ASSUME NEW T, NEW st, NEW st2, NEW r \in T,
           st.rows \in Seq(T), st2.rows = Append(st.rows, r), st2.kind = st.kind
    PROVE  Increasing(StagedKeys(st2)) <=>
              /\ Increasing(StagedKeys(st))
              /\ \/ Len(st.rows) = 0
                 \/ KeyLess(RowKey(st.kind, st.rows[Len(st.rows)]), RowKey(st.kind, r))
<1> DEFINE n == Len(st.rows)
           K(i) == RowKey(st.kind, st.rows[i])
           k == RowKey(st.kind, r)
<1>1. /\ n \in Nat /\ st2.rows \in Seq(T) /\ Len(st2.rows) = n + 1
      /\ \A i \in 1..n : st2.rows[i] = st.rows[i]
      /\ st2.rows[n + 1] = r
  OBVIOUS
<1>2. /\ Len(StagedKeys(st)) = n
      /\ \A i \in 1..n : StagedKeys(st)[i] = K(i)
  BY StagedKeysLen
<1>3. /\ Len(StagedKeys(st2)) = n + 1
      /\ \A i \in 1..n : StagedKeys(st2)[i] = K(i)
      /\ StagedKeys(st2)[n + 1] = k
  <2>1. /\ Len(StagedKeys(st2)) = Len(st2.rows)
        /\ \A i \in 1..Len(st2.rows) :
              StagedKeys(st2)[i] = RowKey(st2.kind, st2.rows[i])
    BY <1>1, StagedKeysLen
  <2>2. \A i \in 1..(n + 1) : StagedKeys(st2)[i] = RowKey(st.kind, st2.rows[i])
    BY <1>1, <2>1
  <2> QED
    BY <1>1, <2>1, <2>2, SMTT(30)
<1>4. Increasing(StagedKeys(st)) <=> \A i \in 1..(n - 1) : KeyLess(K(i), K(i + 1))
  <2>1. \A i \in 1..(n - 1) : i \in 1..n /\ i + 1 \in 1..n
    BY <1>1
  <2> QED
    BY <1>2, <2>1 DEF Increasing
<1> HIDE DEF n, K, k
<1>5. Increasing(StagedKeys(st2)) <=>
         /\ \A i \in 1..(n - 1) : KeyLess(K(i), K(i + 1))
         /\ n = 0 \/ KeyLess(K(n), k)
  <2>1. /\ \A i \in 1..(n - 1) : i \in 1..n /\ i + 1 \in 1..n /\ i \in 1..(n + 1 - 1)
        /\ \A i \in 1..(n + 1 - 1) : i \in 1..(n - 1) \/ (i = n /\ n # 0)
        /\ n # 0 => n \in 1..n /\ n \in 1..(n + 1 - 1)
    BY <1>1
  <2>2. \A i \in 1..(n - 1) :
           StagedKeys(st2)[i] = K(i) /\ StagedKeys(st2)[i + 1] = K(i + 1)
    BY <1>3, <2>1
  <2>3. n # 0 => StagedKeys(st2)[n] = K(n) /\ StagedKeys(st2)[n + 1] = k
    BY <1>3, <2>1
  <2> QED
    BY <1>3, <2>1, <2>2, <2>3, SMTT(30) DEF Increasing
<1> QED
  BY <1>4, <1>5 DEF n, K, k

(* What commit checks is that the record is above the last one.            *)
LEMMA OrderOkAbove ==
    ASSUME NEW h \in Handles, OrderOk(handles[h]), order = "assume_sorted", count # 0
    PROVE  KeyLess(LastKey, CommitKey(handles[h]))
<1>1. CASE blob = "null"
  BY <1>1 DEF OrderOk, LastKey, CommitKey, KeyLess, NarrowKey
<1>2. CASE blob # "null"
  BY <1>2 DEF OrderOk, LastKey, CommitKey, KeyLess, WideKey
<1> QED
  BY <1>1, <1>2

(* A staged row gives back the key it was made of: in a memory staging     *)
(* because the key is that of a keyed build.                               *)
LEMMA RowKeyOfRow ==
    ASSUME TypeOK, Shape, NEW h \in Handles, NEW id, commit(h)
    PROVE  RowKey(staging.kind, Row(staging.kind, CommitKey(handles[h]), id))
              = CommitKey(handles[h])
<1>1. CommitKey(handles[h]) \in KeyType
  BY CommitKeyType DEF commit
<1>2. CASE staging.kind # "memory"
  BY <1>1, <1>2 DEF RowKey, Row, KeyType
<1>3. CASE staging.kind = "memory"
  <2> DEFINE p == handles[h].partition
             v == handles[h].value
  <2>1. stage = "consuming" /\ handles[h].open /\ blob = "null"
    BY <1>3 DEF commit, finished, Shape, TypeOK
  <2>2. mode = "keyed" /\ Packable(handles[h])
    BY <1>3, <2>1 DEF Shape
  <2>3. /\ p \in Nat /\ v \in Nat /\ v < AddressSpan /\ AddressSpan \in Nat \ {0}
        /\ p * AddressSpan + v \in Word
    BY <2>1, <2>2, WordFacts DEF TypeOK, Packable
  <2>4. CommitKey(handles[h]) = NarrowKey(p, v)
    BY <2>1 DEF CommitKey
  <2> HIDE DEF p, v
  <2>5. pack(p, v) = p * AddressSpan + v
    BY <2>3, WordFacts, SMTT(20) DEF pack, Word
  <2>6. (p * AddressSpan + v) \div AddressSpan = p /\ (p * AddressSpan + v) % AddressSpan = v
    BY <2>3
  <2>7. RowKey("memory", Row("memory", NarrowKey(p, v), id)) = NarrowKey(p, v)
    BY <2>5, <2>6 DEF RowKey, Row, NarrowKey
  <2> QED
    BY <1>3, <2>4, <2>7
<1> QED
  BY <1>2, <1>3

(* A new builder has no rows and has thrown nothing.                       *)
LEMMA InitOrder == BuilderInit => OrderInv
<1> SUFFICES ASSUME BuilderInit PROVE OrderInv
  OBVIOUS
<1>1. staging.rows = <<>> /\ staging.sorted /\ thrown = "none"
  BY DEF BuilderInit, NoStaging
<1> QED
  BY <1>1, EmptyIncreasing DEF OrderInv, SortedFlagExact, UnsortedUnreachable

(* A call that leaves the rows alone.                                      *)
LEMMA SameRowsOrder ==
    ASSUME OrderInv, thrown' # "unsorted",
           UNCHANGED <<order, staging, stage, count, last, blob>>
    PROVE  OrderInv'
BY DEF OrderInv, SortedFlagExact, UnsortedUnreachable, LastKey

(* A call that installs an empty staging.                                  *)
LEMMA NewStagingOrder ==
    ASSUME NEW kind, staging' = EmptyStaging(kind), thrown' # "unsorted" PROVE OrderInv'
<1>1. staging'.rows = <<>> /\ staging'.sorted = TRUE
  BY DEF EmptyStaging, NoStaging
<1> QED
  BY <1>1, EmptyIncreasing DEF OrderInv, SortedFlagExact, UnsortedUnreachable

(* commit: the flag follows the rows, and the check of commit is a check   *)
(* against the last of them.                                               *)
LEMMA CommitOrder ==
    ASSUME TypeOK, Shape, OrderInv, NEW h \in Handles, commit(h)
    PROVE  OrderInv'
<1> DEFINE id == intern_tuple.id
           key == CommitKey(handles[h])
           r == Row(staging.kind, key, id)
           n == Len(staging.rows)
           m == Len(intern_tuple.tuples)
           T == RowType(staging.kind, m)
<1>1. /\ stage = "consuming" /\ blob # "dangling" /\ OrderOk(handles[h])
      /\ staging' = push(staging, key, id) /\ thrown' = "none"
      /\ last' = [partition |-> handles[h].partition, value |-> handles[h].value,
                  bytes |-> IF blob = "null" THEN last.bytes ELSE pending_address]
      /\ count' = count + 1 /\ count \in Nat
      /\ UNCHANGED <<order, blob, stage>>
  BY BuilderAssumption DEF commit, config, world, finished, TypeOK
<1>2. r \in T /\ staging.rows \in Seq(T)
  <2>1. /\ Len(tuples) \in Nat /\ m \in Nat /\ Len(tuples) <= m /\ id \in 0..(m - 1)
    BY InternTuple DEF TypeOK
  <2>2. key \in KeyType
    BY CommitKeyType DEF commit
  <2>3. RowType(staging.kind, Len(tuples)) \subseteq T
    BY <2>1, RowTypeGrows
  <2>4. r \in T
    BY <2>1, <2>2, RowIsTyped
  <2> HIDE DEF T, r
  <2> QED
    BY <2>3, <2>4 DEF TypeOK
<1>3. n \in Nat
  BY DEF TypeOK
<1>4. RowKey(staging.kind, r) = key
  BY RowKeyOfRow
<1>5. n # 0 => (Before(staging.kind, staging.rows[n], r)
                  <=> KeyLess(RowKey(staging.kind, staging.rows[n]), key))
  <2>1. n # 0 => staging.rows[n] \in T
    BY <1>2
  <2> QED
    BY <1>2, <1>4, <2>1, BeforeIsKeyLess
<1>6. n # 0 => count # 0 /\ RowKey(staging.kind, staging.rows[n]) = LastKey
  BY <1>1, <1>2 DEF OrderInv
<1>7. order = "assume_sorted" =>
         /\ staging.sorted
         /\ n # 0 => KeyLess(RowKey(staging.kind, staging.rows[n]), key)
  BY <1>1, <1>6, OrderOkAbove DEF OrderInv
<1>8. LastKey' = key
  BY <1>1 DEF LastKey, CommitKey, NarrowKey, WideKey
<1>9. staging.sorted <=> Increasing(StagedKeys(staging))
  BY <1>1 DEF OrderInv, SortedFlagExact
<1> HIDE DEF id, key, r, n, T
<1>10. /\ staging'.kind = staging.kind
       /\ staging'.rows = Append(staging.rows, r)
       /\ staging'.sorted =
             (staging.sorted /\ (n = 0 \/ Before(staging.kind, staging.rows[n], r)))
  <2>1. staging \in [kind : {staging.kind}, rows : Seq(T), sorted : BOOLEAN]
    BY <1>2 DEF TypeOK
  <2>2. staging.kind \in {"none", "memory", "wide", "blob"}
    BY DEF TypeOK
  <2>3. Row(staging.kind, key, id) \in T
    BY <1>2 DEF r
  <2>4. /\ push(staging, key, id) \in [kind : {staging.kind}, rows : Seq(T), sorted : BOOLEAN]
        /\ push(staging, key, id).rows = Append(staging.rows, Row(staging.kind, key, id))
        /\ push(staging, key, id).sorted = (staging.sorted /\
              (Len(staging.rows) = 0
                 \/ Before(staging.kind, staging.rows[Len(staging.rows)],
                           Row(staging.kind, key, id))))
    BY <2>1, <2>2, <2>3, PushType
  <2>5. push(staging, key, id).kind = staging.kind
    BY <2>4
  <2> QED
    BY <1>1, <2>4, <2>5, Zenon DEF r, n
<1>11. Increasing(StagedKeys(staging')) <=>
          /\ Increasing(StagedKeys(staging))
          /\ n = 0 \/ KeyLess(RowKey(staging.kind, staging.rows[n]), key)
  BY <1>2, <1>4, <1>10, AppendIncreasing DEF n
<1>12. SortedFlagExact'
  BY <1>3, <1>5, <1>9, <1>10, <1>11 DEF SortedFlagExact
<1>13. order' = "assume_sorted" => staging'.sorted
  BY <1>1, <1>5, <1>7, <1>10
<1>14. RowKey(staging'.kind, staging'.rows[Len(staging'.rows)]) = LastKey'
  <2>1. staging'.rows[Len(staging'.rows)] = r
    BY <1>2, <1>10
  <2> QED
    BY <1>4, <1>8, <1>10, <2>1
<1> QED
  BY <1>1, <1>12, <1>13, <1>14 DEF OrderInv, UnsortedUnreachable

(* finish: sorted rows without duplicates, or a failed build.              *)
LEMMA FinishOrder ==
    ASSUME TypeOK, Shape, OrderInv, finish PROVE OrderInv'
<1>1. stage = "consuming" /\ stage' # "consuming"
  BY FinishCases
<1>2. CASE /\ staging' = Entering
           /\ Entering.sorted => thrown' = "none"
           /\ Entering.sorted \/ order = "assume_sorted"
           /\ stage' = "layout" => Entering.sorted
  <2>1. Entering.sorted
    BY <1>1, <1>2, EnteringType DEF OrderInv
  <2>2. Increasing(StagedKeys(Entering))
    <3>1. CASE staging.kind = "none"
      BY <3>1, EnteringType, EmptyIncreasing
    <3>2. CASE staging.kind # "none"
      BY <1>1, <2>1, <3>2, EnteringType DEF OrderInv, SortedFlagExact
    <3> QED
      BY <3>1, <3>2
  <2> QED
    BY <1>1, <1>2, <2>1, <2>2 DEF OrderInv, SortedFlagExact, UnsortedUnreachable
<1>3. ASSUME NEW p \in SortingPermutations(Entering),
             staging' = [Entering EXCEPT !.rows = Permuted(@, p), !.sorted = TRUE],
             stage' = "layout" => Increasing(StagedKeys(staging')),
             thrown' \in {"none", "duplicate"}
      PROVE  OrderInv'
  <2>1. staging'.sorted = TRUE
    BY <1>3, EnteringType
  <2>2. stage' \in {"layout", "failed"}
    BY FinishCases
  <2> QED
    BY <1>1, <1>3, <2>1, <2>2 DEF OrderInv, SortedFlagExact, UnsortedUnreachable
<1> QED
  BY <1>2, <1>3, FinishCases

(* Every call preserves the order of the rows.                             *)
LEMMA NextOrder ==
    TypeOK /\ Shape /\ OrderInv /\ [BuilderNext]_builder_vars => OrderInv'
<1> SUFFICES ASSUME TypeOK, Shape, OrderInv, [BuilderNext]_builder_vars PROVE OrderInv'
  OBVIOUS
<1>1. CASE UNCHANGED builder_vars
  BY <1>1, SameRowsOrder
     DEF builder_vars, config, store, world, OrderInv, UnsortedUnreachable
<1>2. CASE Throws
  BY <1>2, SameRowsOrder DEF Throws, config, store, world
<1>3. ASSUME NEW h \in Handles, NEW wanted, NEW partition, NEW value,
             BeginNarrow(h, wanted, partition, value)
      PROVE  OrderInv'
  <2>1. thrown' = "none" /\ UNCHANGED <<order, stage, count, last, blob>>
        /\ staging' = IF staging.kind = "none"
                      THEN EmptyStaging(IF wanted = "keyed" THEN "memory" ELSE "wide")
                      ELSE staging
    BY <1>3 DEF BeginNarrow, EnterMode, config
  <2> QED
    BY <2>1, SameRowsOrder, NewStagingOrder
<1>4. ASSUME NEW h \in Handles, NEW k \in WideKeys, begin_record_at_wide(h, k)
      PROVE  OrderInv'
  <2>1. /\ thrown' = "none" /\ UNCHANGED <<order, stage, count, last>>
        /\ \/ staging' = EmptyStaging("blob")
           \/ UNCHANGED <<staging, blob>>
    BY <1>4 DEF begin_record_at_wide, EnterWideMode, config
  <2> QED
    BY <2>1, SameRowsOrder, NewStagingOrder
<1>5. ASSUME NEW h \in Handles, NEW f \in Fields, NEW v \in FieldValues[f], SetField(h, f, v)
      PROVE  OrderInv'
  BY <1>5, SameRowsOrder DEF SetField, config, store, world
<1>6. ASSUME NEW h \in Handles, CommitRefused(h) PROVE OrderInv'
  BY <1>6, SameRowsOrder DEF CommitRefused, config, world
<1>7. ASSUME NEW kind \in ClientStagings, set_staging(kind) PROVE OrderInv'
  BY <1>7, NewStagingOrder DEF set_staging
<1> QED
  BY <1>1, <1>2, <1>3, <1>4, <1>5, <1>6, <1>7, CommitOrder, FinishOrder
     DEF BuilderNext, SetRejected, CommitRejected, SetStagingRejected, BeginRejected,
         FinishRejected, begin_record, begin_record_at

----------------------------------------------------------------------------
(* Every member of the builder has its type, every id in the index and in  *)
(* the staged rows is that of a tuple.                                     *)
THEOREM BuilderTypeCorrect == BuilderSpec => []TypeOK
BY InitType, NextType, PTL DEF BuilderSpec

(* The sorted_ flag that lets finish skip the sort and the duplicate check *)
(* is exact, whatever stagings are used and however handles interleave.    *)
THEOREM SortedFlagIsExact == BuilderSpec => []SortedFlagExact
<1>1. OrderInv => SortedFlagExact
  BY DEF OrderInv
<1> QED
  BY <1>1, InitType, InitOrder, NextType, NextOrder, PTL DEF BuilderSpec

(* The throw of finish at builder.hpp:448 is unreachable: the ordering     *)
(* check of commit keeps an assume_sorted build sorted.                    *)
THEOREM UnsortedIsUnreachable == BuilderSpec => []UnsortedUnreachable
<1>1. OrderInv => UnsortedUnreachable
  BY DEF OrderInv
<1> QED
  BY <1>1, InitType, InitOrder, NextType, NextOrder, PTL DEF BuilderSpec

(* While deduplication is active the tuple table has no duplicate and the  *)
(* index has every id, through any number of records and any point at      *)
(* which it is given up.                                                   *)
THEOREM DedupIsExact == BuilderSpec => []DedupExact
<1>1. BuilderInit => DedupExact
  BY DEF BuilderInit, DedupExact
<1> QED
  BY <1>1, InitType, NextType, NextDedup, PTL DEF BuilderSpec

(* After finish has begun, whether it returned or threw, no call changes   *)
(* the staged rows, the tuples or the count.                               *)
THEOREM FrozenAfterFinishHolds == BuilderSpec => FrozenAfterFinish
BY NextFrozen, PTL DEF BuilderSpec, FrozenAfterFinish

----------------------------------------------------------------------------
(* The measured ranges.                                                    *)

(* What a client has written through a handle, and what it has committed.  *)
WrittenType == UNION {[D -> UNION {FieldValues[f] : f \in Fields}] : D \in SUBSET Fields}

HandleType ==
    [open : {TRUE}, partition : Word, value : Word, key : KeyType, written : WrittenType]

EntryType == [key : KeyType, written : WrittenType]

IsInteger(f) == FieldKind[f] \in {"uint", "sint"}

(* The range s of field f takes v in, and the ranges what was written.       *)
InRange(f, s, v) == s.seen /\ ~ValueLess(f, v, s.min) /\ ~ValueLess(f, s.max, v)

Covered(ranges, written) ==
    \A f \in DOMAIN written : IsInteger(f) =>
        written[f] \in Word /\ InRange(f, ranges[f], written[f])

(* StatsCover is not inductive: a commit adds what was written through its *)
(* handle, perhaps long ago, and finish permutes the history with the      *)
(* rows.  The handles have to be covered too, and the two be as long.      *)
CoverInv ==
    /\ log \in Seq(EntryType)
    /\ Len(log) = Len(staging.rows)
    /\ \A h \in Handles : handles[h].open =>
          handles[h] \in HandleType /\ Covered(stats, handles[h].written)
    /\ \A i \in 1..Len(log) : Covered(stats, log[i].written)

(* observe takes the new value in and gives up none it had.                *)
LEMMA ObserveCovers ==
    ASSUME TypeOK, NEW f \in Fields, NEW raw \in Word
    PROVE  /\ InRange(f, observe(f, raw)[f], raw)
           /\ \A g \in Fields : \A v \in Word :
                 InRange(g, stats[g], v) => InRange(g, observe(f, raw)[g], v)
<1>1. /\ stats \in [Fields -> [seen : BOOLEAN, min : Word, max : Word]]
      /\ stats[f] \in [seen : BOOLEAN, min : Word, max : Word]
  BY DEF TypeOK
<1>2. \A a \in Word : Signed(a) \in Int
  BY WordFacts DEF Signed
<1>3. \A a, b, c \in Word :
         /\ ~ValueLess(f, a, a)
         /\ ~(ValueLess(f, a, b) /\ ValueLess(f, b, a))
         /\ ~ValueLess(f, a, b) /\ ~ValueLess(f, b, c) => ~ValueLess(f, a, c)
  BY <1>2, WordFacts DEF ValueLess, SignedLess
<1>4. \A g \in Fields : g # f => observe(f, raw)[g] = stats[g]
  BY <1>1 DEF observe
<1>5. CASE ~stats[f].seen
  <2>1. observe(f, raw)[f] = [seen |-> TRUE, min |-> raw, max |-> raw]
    BY <1>1, <1>5 DEF observe
  <2>2. InRange(f, observe(f, raw)[f], raw)
    BY <1>3, <2>1 DEF InRange
  <2> QED
    BY <1>4, <1>5, <2>2 DEF InRange
<1>6. CASE stats[f].seen
  <2> DEFINE min == stats[f].min
             max == stats[f].max
             low == IF ValueLess(f, raw, min) THEN raw ELSE min
             high == IF ValueLess(f, max, raw) THEN raw ELSE max
  <2>1. min \in Word /\ max \in Word
    BY <1>1
  <2>2. observe(f, raw)[f] = [[stats[f] EXCEPT !.min = low] EXCEPT !.max = high]
    BY <1>1, <1>6 DEF observe
  <2> HIDE DEF low, high
  <2>3. /\ observe(f, raw)[f].seen
        /\ observe(f, raw)[f].min = low /\ observe(f, raw)[f].max = high
    BY <1>1, <1>6, <2>2
  <2> HIDE DEF min, max
  <2>4. low \in Word /\ high \in Word /\ ~ValueLess(f, raw, low) /\ ~ValueLess(f, high, raw)
    BY <1>3, <2>1 DEF low, high
  <2>5. ~ValueLess(f, min, low) /\ ~ValueLess(f, high, max)
    BY <1>3, <2>1 DEF low, high
  <2>6. \A v \in Word : ~ValueLess(f, v, min) => ~ValueLess(f, v, low)
    BY <1>3, <2>1, <2>4, <2>5
  <2>7. \A v \in Word : ~ValueLess(f, max, v) => ~ValueLess(f, high, v)
    BY <1>3, <2>1, <2>4, <2>5
  <2>8. \A v \in Word : InRange(f, stats[f], v) => InRange(f, observe(f, raw)[f], v)
    BY <2>3, <2>6, <2>7 DEF InRange, min, max
  <2>9. InRange(f, observe(f, raw)[f], raw)
    BY <2>3, <2>4 DEF InRange
  <2> QED
    BY <1>4, <2>8, <2>9
<1> QED
  BY <1>5, <1>6

(* A handle just begun has nothing written through it.                     *)
LEMMA FreshHandle ==
    ASSUME NEW partition \in Word, NEW value \in Word, NEW key \in KeyType
    PROVE  /\ Handle(partition, value, key) \in HandleType
           /\ Covered(stats, Handle(partition, value, key).written)
<1> DEFINE w == [f \in {} |-> 0]
<1>1. w \in WrittenType
  <2>1. w \in [{} -> UNION {FieldValues[f] : f \in Fields}]
    OBVIOUS
  <2> QED
    BY <2>1 DEF WrittenType
<1>2. DOMAIN w = {}
  OBVIOUS
<1> HIDE DEF w
<1>3. Handle(partition, value, key) =
         [open |-> TRUE, partition |-> partition, value |-> value, key |-> key, written |-> w]
  BY DEF Handle, w
<1> QED
  BY <1>1, <1>2, <1>3 DEF HandleType, Covered

(* A call that leaves handles, history and ranges alone, and the number of *)
(* rows.                                                                   *)
LEMMA SameCover ==
    ASSUME CoverInv, UNCHANGED <<stats, handles, log>>,
           Len(staging'.rows) = Len(staging.rows)
    PROVE  CoverInv'
BY DEF CoverInv

(* A begin replaces one handle and keeps the number of rows.               *)
LEMMA BeginCover ==
    ASSUME TypeOK, Shape, CoverInv, NEW h \in Handles, UNCHANGED <<stats, log>>,
           NEW r, handles' = [handles EXCEPT ![h] = r],
           r \in HandleType /\ Covered(stats, r.written),
           staging' = staging \/ (staging.kind = "none" /\ staging'.rows = <<>>)
    PROVE  CoverInv'
<1>1. Len(staging'.rows) = Len(staging.rows)
  BY DEF Shape, NoStaging
<1>2. \A g \in Handles : handles'[g] = IF g = h THEN r ELSE handles[g]
  BY DEF TypeOK
<1>3. stats' = stats
  OBVIOUS
<1> QED
  BY <1>1, <1>2, <1>3 DEF CoverInv

(* The setters widen a range before the handle remembers the value.        *)
LEMMA SetFieldCover ==
    ASSUME TypeOK, CoverInv, NEW h \in Handles, NEW f \in Fields, NEW v \in FieldValues[f],
           SetField(h, f, v)
    PROVE  CoverInv'
<1> DEFINE old == handles[h].written
           new == [g \in DOMAIN old \cup {f} |-> IF g = f THEN v ELSE old[g]]
<1>1. handles[h].open /\ handles[h] \in HandleType /\ Covered(stats, old)
  BY DEF CoverInv, SetField
<1>2. /\ UNCHANGED <<log, staging>>
      /\ handles' = [handles EXCEPT ![h].written = new]
  BY DEF SetField, store
<1>3. IsInteger(f) => v \in Word /\ stats' = observe(f, v)
  BY BuilderAssumption DEF SetField, IsInteger
<1>4. ~IsInteger(f) => UNCHANGED stats
  BY BuilderAssumption DEF SetField, IsInteger
<1>5. \A g \in Fields : \A u \in Word : InRange(g, stats[g], u) => InRange(g, stats'[g], u)
  BY <1>3, <1>4, ObserveCovers
<1>6. \A w \in WrittenType : DOMAIN w \subseteq Fields
  BY DEF WrittenType
<1>7. \A w \in WrittenType : Covered(stats, w) => Covered(stats', w)
  BY <1>5, <1>6 DEF Covered
<1>8. new \in WrittenType
  <2> DEFINE V == UNION {FieldValues[g] : g \in Fields}
  <2>1. PICK D \in SUBSET Fields : old \in [D -> V]
    BY <1>1 DEF HandleType, WrittenType
  <2>2. v \in V
    OBVIOUS
  <2> HIDE DEF V
  <2>3. new \in [D \cup {f} -> V]
    BY <2>1, <2>2
  <2>4. D \cup {f} \in SUBSET Fields
    OBVIOUS
  <2> QED
    BY <2>3, <2>4 DEF WrittenType, V
<1>9. Covered(stats', new)
  <2>1. IsInteger(f) => InRange(f, stats'[f], v)
    BY <1>3, ObserveCovers
  <2>2. Covered(stats', old)
    BY <1>1, <1>7 DEF HandleType
  <2>3. DOMAIN new = DOMAIN old \cup {f} /\ new[f] = v
        /\ \A g \in DOMAIN old : g # f => new[g] = old[g]
    OBVIOUS
  <2> HIDE DEF new, old
  <2> QED
    BY <1>3, <2>1, <2>2, <2>3 DEF Covered
<1> HIDE DEF new
<1>10. handles'[h] = [handles[h] EXCEPT !.written = new]
       /\ \A g \in Handles : g # h => handles'[g] = handles[g]
  BY <1>2 DEF TypeOK
<1>11. handles'[h] \in HandleType /\ handles'[h].written = new
  BY <1>1, <1>8, <1>10 DEF HandleType
<1>12. \A g \in Handles : handles'[g].open =>
          handles'[g] \in HandleType /\ Covered(stats', handles'[g].written)
  <2>1. ASSUME NEW g \in Handles, g # h, handles'[g].open
        PROVE  handles'[g] \in HandleType /\ Covered(stats', handles'[g].written)
    <3>1. handles[g] \in HandleType /\ Covered(stats, handles[g].written) /\ handles'[g] = handles[g]
      BY <1>10, <2>1 DEF CoverInv
    <3>2. handles[g].written \in WrittenType
      BY <3>1 DEF HandleType
    <3> QED
      BY <1>7, <3>1, <3>2
  <2> QED
    BY <1>9, <1>11, <2>1
<1>13. \A i \in 1..Len(log') : Covered(stats', log'[i].written)
  <2> SUFFICES ASSUME NEW i \in 1..Len(log) PROVE Covered(stats', log[i].written)
    BY <1>2
  <2>1. log[i] \in EntryType /\ Covered(stats, log[i].written)
    BY DEF CoverInv
  <2>2. log[i].written \in WrittenType
    BY <2>1 DEF EntryType
  <2> QED
    BY <1>7, <2>1, <2>2
<1> QED
  BY <1>2, <1>12, <1>13 DEF CoverInv

(* commit adds one row and one entry, what was written through the handle. *)
LEMMA CommitCover ==
    ASSUME TypeOK, Shape, CoverInv, NEW h \in Handles, commit(h)
    PROVE  CoverInv'
<1> DEFINE e == [key |-> handles[h].key, written |-> handles[h].written]
<1>1. handles[h] \in HandleType /\ Covered(stats, handles[h].written)
  BY DEF CoverInv, commit
<1>2. e \in EntryType /\ e.written = handles[h].written
  BY <1>1 DEF HandleType, EntryType
<1>3. log' = Append(log, e) /\ UNCHANGED <<stats, handles>>
  BY DEF commit, record
<1>4. Len(staging'.rows) = Len(staging.rows) + 1
  <2>1. staging' = push(staging, CommitKey(handles[h]), intern_tuple.id)
    BY DEF commit
  <2>2. /\ staging \in [kind : {staging.kind},
                       rows : Seq(RowType(staging.kind, Len(tuples))), sorted : BOOLEAN]
    BY DEF TypeOK
  <2>3. push(staging, CommitKey(handles[h]), intern_tuple.id).rows
          = Append(staging.rows, Row(staging.kind, CommitKey(handles[h]), intern_tuple.id))
    BY <2>2 DEF push
  <2> QED
    BY <2>1, <2>2, <2>3
<1> HIDE DEF e
<1>5. stats' = stats
  BY <1>3
<1>6. /\ log' \in Seq(EntryType) /\ Len(log') = Len(log) + 1
      /\ \A i \in 1..Len(log') : log'[i] = IF i = Len(log) + 1 THEN e ELSE log[i]
  BY <1>2, <1>3 DEF CoverInv
<1>7. \A i \in 1..Len(log') : Covered(stats, log'[i].written)
  BY <1>1, <1>2, <1>6 DEF CoverInv
<1> QED
  BY <1>3, <1>4, <1>5, <1>6, <1>7 DEF CoverInv

(* finish permutes the history with the rows.                              *)
LEMMA FinishCover ==
    ASSUME TypeOK, Shape, CoverInv, finish PROVE CoverInv'
<1>1. UNCHANGED <<stats, handles>>
  BY FinishCases
<1>2. Len(Entering.rows) = Len(staging.rows) /\ DOMAIN Entering.rows = 1..Len(log)
  BY EnteringType DEF CoverInv, Shape, NoStaging
<1>3. CASE staging' = Entering /\ log' = log
  BY <1>1, <1>2, <1>3, SameCover
<1>4. ASSUME NEW p \in SortingPermutations(Entering),
             staging' = [Entering EXCEPT !.rows = Permuted(@, p), !.sorted = TRUE],
             log' = Permuted(log, p)
      PROVE  CoverInv'
  <2>1. p \in [1..Len(log) -> 1..Len(log)]
    BY <1>2 DEF SortingPermutations
  <2>2. /\ log' \in Seq(EntryType) /\ Len(log') = Len(log)
        /\ \A i \in 1..Len(log') : log'[i] = log[p[i]]
    BY <1>4, <2>1 DEF CoverInv, Permuted
  <2>3. staging'.rows = Permuted(Entering.rows, p)
    BY <1>4, EnteringType
  <2>4. Len(staging'.rows) = Len(log)
    BY <1>2, <2>3 DEF Permuted, CoverInv
  <2>5. stats' = stats
    BY <1>1
  <2> QED
    BY <1>1, <2>1, <2>2, <2>4, <2>5 DEF CoverInv
<1> QED
  BY <1>3, <1>4 DEF finish, Entering

(* Every call keeps the ranges around the values.                          *)
LEMMA NextCover ==
    TypeOK /\ Shape /\ CoverInv /\ [BuilderNext]_builder_vars => CoverInv'
<1> SUFFICES ASSUME TypeOK, Shape, CoverInv, [BuilderNext]_builder_vars PROVE CoverInv'
  OBVIOUS
<1>1. CASE UNCHANGED builder_vars \/ Throws
  BY <1>1, SameCover DEF builder_vars, Throws, store, record, client
<1>2. ASSUME NEW h \in Handles, NEW wanted, NEW partition \in Word, NEW value \in Word,
             BeginNarrow(h, wanted, partition, value)
      PROVE  CoverInv'
  <2>1. NarrowKey(partition, value) \in KeyType
    BY DEF NarrowKey, KeyType
  <2> DEFINE r == Handle(partition, value, NarrowKey(partition, value))
  <2>2. r \in HandleType /\ Covered(stats, r.written)
    BY <2>1, FreshHandle
  <2>3. UNCHANGED <<stats, log>> /\ handles' = [handles EXCEPT ![h] = r]
    BY <1>2 DEF BeginNarrow
  <2>4. staging' = staging \/ (staging.kind = "none" /\ staging'.rows = <<>>)
    BY <1>2 DEF BeginNarrow, EnterMode, EmptyStaging, NoStaging
  <2> HIDE DEF r
  <2> QED
    BY <2>2, <2>3, <2>4, BeginCover
<1>3. ASSUME NEW h \in Handles, NEW k \in WideKeys, begin_record_at_wide(h, k)
      PROVE  CoverInv'
  <2> DEFINE r == Handle(k[1], 0, WideKey(k[1], k[2]))
  <2>1. k[1] \in Word /\ k[2] \in Seq(Byte) /\ 0 \in Word
    BY BuilderAssumption, WordFacts
  <2>2. WideKey(k[1], k[2]) \in KeyType
    BY <2>1 DEF WideKey, KeyType
  <2>3. r \in HandleType /\ Covered(stats, r.written)
    BY <2>1, <2>2, FreshHandle
  <2>4. UNCHANGED <<stats, log>> /\ handles' = [handles EXCEPT ![h] = r]
    BY <1>3 DEF begin_record_at_wide
  <2>5. staging' = staging \/ (staging.kind = "none" /\ staging'.rows = <<>>)
    BY <1>3 DEF begin_record_at_wide, EnterWideMode, EmptyStaging, NoStaging
  <2> HIDE DEF r
  <2> QED
    BY <2>3, <2>4, <2>5, BeginCover
<1>4. ASSUME NEW h \in Handles, CommitRefused(h) PROVE CoverInv'
  BY <1>4, SameCover DEF CommitRefused, record, client
<1>5. ASSUME NEW kind \in ClientStagings, set_staging(kind) PROVE CoverInv'
  BY <1>5, SameCover DEF set_staging, EmptyStaging, NoStaging, record, client
<1>6. ASSUME NEW h \in Handles,
             (\E k \in Keys : begin_record(h, k)) \/ \E k \in SplitKeys : begin_record_at(h, k)
      PROVE  CoverInv'
  <2>1. ASSUME NEW k \in Keys, begin_record(h, k) PROVE CoverInv'
    <3>1. k \div AddressSpan \in Word /\ k % AddressSpan \in Word
      BY SplitWord, BuilderAssumption
    <3> QED
      BY <1>2, <2>1, <3>1 DEF begin_record
  <2>2. ASSUME NEW k \in SplitKeys, begin_record_at(h, k) PROVE CoverInv'
    BY <1>2, <2>2, BuilderAssumption DEF begin_record_at
  <2> QED
    BY <1>6, <2>1, <2>2
<1> QED
  BY <1>1, <1>3, <1>4, <1>5, <1>6, SetFieldCover, CommitCover, FinishCover
     DEF BuilderNext, SetRejected, CommitRejected, SetStagingRejected, BeginRejected,
         FinishRejected

----------------------------------------------------------------------------
(* What a record says.  The scratch is one per builder, so the claim is    *)
(* about a client that keeps one record open at a time; and a byte-address *)
(* build into a client's staging does not stage the bytes at all.          *)
OneAtATime ==
    /\ \A g, h \in Handles : g = h
    /\ ClientStagings = {} \/ WideKeys = {}

(* The tuple t says what was written, with the texts of these dictionaries.*)
TupleMeans(dicts, t, written) ==
    \A f \in Fields :
        IF f \notin DOMAIN written THEN t[f] = 0
        ELSE IF FieldKind[f] = "text"
        THEN t[f] < Len(dicts[f]) /\ dicts[f][t[f] + 1] = written[f]
        ELSE t[f] = written[f]

(* StagedAsCommitted is not inductive: what commit stages comes from the   *)
(* scratch and, in a byte-address build, from pending_address_.  Both have *)
(* to agree with the handle that is open, and blob_ with the mode.         *)
MeansInv ==
    /\ blob \in {"null", "owned"} /\ (blob = "owned" <=> mode = "explicit_wide")
    /\ blob = "owned" => WideKeys # {}
    /\ ClientStagings = {} /\ stage = "consuming" /\ mode = "undecided" =>
          staging.kind = "none"
    /\ \A h \in Handles : handles[h].open =>
          /\ CommitKey(handles[h]) = handles[h].key
          /\ TupleMeans(texts, slots, handles[h].written)
    /\ \A i \in 1..Len(log) :
          /\ RowKey(staging.kind, staging.rows[i]) = log[i].key
          /\ TupleMeans(texts, tuples[staging.rows[i].tuple + 1], log[i].written)

(* intern gives a text an id that stands for it, and keeps the others.     *)
LEMMA InternMeans ==
    ASSUME TypeOK, NEW f \in Fields, NEW v \in FieldValues[f],
           NEW after, after = Interned(f, v)
    PROVE  /\ TextId(after[f], v) < Len(after[f])
           /\ after[f][TextId(after[f], v) + 1] = v
           /\ \A g \in Fields : /\ Len(texts[g]) <= Len(after[g])
                                /\ \A i \in 1..Len(texts[g]) : after[g][i] = texts[g][i]
<1>1. /\ DOMAIN texts = Fields /\ \A g \in Fields : texts[g] \in Seq(FieldValues[g])
  BY DEF TypeOK
<1>2. after[f] \in Seq(FieldValues[f])
  BY InternText
<1>3. /\ \E i \in DOMAIN after[f] : after[f][i] = v
      /\ \A g \in Fields : /\ Len(texts[g]) <= Len(after[g])
                           /\ \A i \in 1..Len(texts[g]) : after[g][i] = texts[g][i]
  <2>1. CASE \E i \in DOMAIN texts[f] : texts[f][i] = v
    <3>1. after = texts
      BY <2>1 DEF Interned
    <3> QED
      BY <1>1, <2>1, <3>1
  <2>2. CASE ~\E i \in DOMAIN texts[f] : texts[f][i] = v
    <3>1. after = [texts EXCEPT ![f] = Append(texts[f], v)]
      BY <2>2 DEF Interned
    <3>2. after[f] = Append(texts[f], v) /\ \A g \in Fields : g # f => after[g] = texts[g]
      BY <1>1, <3>1
    <3>3. Len(texts[f]) + 1 \in DOMAIN after[f] /\ after[f][Len(texts[f]) + 1] = v
      BY <1>1, <3>2
    <3>4. /\ Len(texts[f]) <= Len(after[f])
          /\ \A i \in 1..Len(texts[f]) : after[f][i] = texts[f][i]
      BY <1>1, <3>2
    <3>5. \A g \in Fields : Len(texts[g]) \in Nat
      BY <1>1
    <3> QED
      BY <3>2, <3>3, <3>4, <3>5, SMTT(20)
  <2> QED
    BY <2>1, <2>2
<1> DEFINE c == CHOOSE i \in DOMAIN after[f] : after[f][i] = v
<1>4. c \in DOMAIN after[f] /\ after[f][c] = v
  BY <1>3
<1>5. TextId(after[f], v) = c - 1
  BY DEF TextId
<1> HIDE DEF c
<1>6. c \in 1..Len(after[f]) /\ Len(after[f]) \in Nat
  BY <1>2, <1>4
<1>7. TextId(after[f], v) + 1 = c /\ TextId(after[f], v) < Len(after[f])
  BY <1>5, <1>6
<1> QED
  BY <1>3, <1>4, <1>7

(* intern_tuple returns the id of the scratch tuple and keeps the others.  *)
LEMMA InternTupleMeans ==
    ASSUME TypeOK, NEW t, t = intern_tuple
    PROVE  /\ t.tuples[t.id + 1] = slots
           /\ Len(tuples) <= Len(t.tuples)
           /\ \A i \in 1..Len(tuples) : t.tuples[i] = tuples[i]
<1> DEFINE n == Len(tuples)
           appended == Append(tuples, slots)
           same == {u \in index : tuple_equal(tuples[u + 1], slots)}
           keeps == KeepsDedup(Len(appended))
<1>1. /\ tuples \in Seq(TupleType) /\ n \in Nat /\ index \subseteq 0..(n - 1)
      /\ slots \in TupleType
  BY DEF TypeOK
<1>2. /\ Len(appended) = n + 1 /\ appended[n + 1] = slots
      /\ \A i \in 1..n : appended[i] = tuples[i]
  BY <1>1
<1>3. CASE dedup_active /\ same # {}
  <2>1. t.id = (CHOOSE u \in same : TRUE) /\ t.tuples = tuples
    BY <1>3 DEF intern_tuple
  <2>2. t.id \in same
    BY <1>3, <2>1
  <2> QED
    BY <1>1, <2>1, <2>2 DEF tuple_equal
<1>4. CASE ~(dedup_active /\ same # {})
  <2>1. t.id = n /\ t.tuples = appended
    BY <1>4 DEF intern_tuple, NextTuple
  <2> HIDE DEF appended
  <2> QED
    BY <1>1, <1>2, <2>1
<1> QED
  BY <1>3, <1>4

(* A tuple keeps its meaning when dictionaries grow.                       *)
LEMMA MeaningStays ==
    ASSUME TypeOK, NEW after, \A g \in Fields : Len(after[g]) \in Nat,
           \A g \in Fields : /\ Len(texts[g]) <= Len(after[g])
                             /\ \A i \in 1..Len(texts[g]) : after[g][i] = texts[g][i],
           NEW t \in TupleType, NEW w, TupleMeans(texts, t, w)
    PROVE  TupleMeans(after, t, w)
<1>1. \A g \in Fields : t[g] \in Nat /\ Len(texts[g]) \in Nat
  BY DEF TupleType, TypeOK
<1>2. \A g \in Fields : t[g] < Len(texts[g]) =>
         t[g] < Len(after[g]) /\ after[g][t[g] + 1] = texts[g][t[g] + 1]
  <2> SUFFICES ASSUME NEW g \in Fields, t[g] < Len(texts[g])
               PROVE  t[g] < Len(after[g]) /\ after[g][t[g] + 1] = texts[g][t[g] + 1]
    OBVIOUS
  <2>1. t[g] + 1 \in 1..Len(texts[g]) /\ t[g] < Len(after[g])
    BY <1>1
  <2> QED
    BY <2>1
<1> QED
  BY <1>2 DEF TupleMeans

(* The rows that are staged have a tuple each.                             *)
LEMMA StagedTuples ==
    ASSUME TypeOK, CoverInv, NEW i \in 1..Len(log)
    PROVE  /\ staging.rows[i].tuple \in 0..(Len(tuples) - 1)
           /\ tuples[staging.rows[i].tuple + 1] \in TupleType
<1>1. /\ staging.rows \in Seq(RowType(staging.kind, Len(tuples)))
      /\ Len(log) = Len(staging.rows) /\ tuples \in Seq(TupleType)
  BY DEF TypeOK, CoverInv
<1>2. staging.rows[i] \in RowType(staging.kind, Len(tuples))
  BY <1>1
<1>3. staging.rows[i].tuple \in 0..(Len(tuples) - 1)
  BY <1>2 DEF RowType
<1> QED
  BY <1>1, <1>3

(* A call that leaves what a record is made of alone.                      *)
LEMMA SameMeans ==
    ASSUME MeansInv,
           UNCHANGED <<blob, mode, stage, staging, handles, pending_address, texts, slots,
                       tuples, log>>
    PROVE  MeansInv'
BY DEF MeansInv, CommitKey

(* A begin clears the scratch and pairs the key with the handle.           *)
LEMMA BeginMeans ==
    ASSUME TypeOK, Shape, CoverInv, MeansInv, OneAtATime, NEW h \in Handles,
           UNCHANGED <<texts, tuples, log>>, slots' = ZeroSlots,
           NEW partition, NEW value, NEW key,
           handles' = [handles EXCEPT ![h] = Handle(partition, value, key)],
           staging' = staging \/ (staging.kind = "none" /\ staging'.rows = <<>>),
           mode' # "undecided",
           \/ blob' = "null" /\ mode' # "explicit_wide" /\ key = NarrowKey(partition, value)
           \/ blob' = "owned" /\ mode' = "explicit_wide" /\ WideKeys # {}
                /\ key = WideKey(partition, pending_address')
    PROVE  MeansInv'
<1>1. handles'[h] = Handle(partition, value, key) /\ \A g \in Handles : g = h
  BY DEF TypeOK, OneAtATime
<1>2. /\ handles'[h].key = key /\ handles'[h].partition = partition
      /\ handles'[h].value = value /\ DOMAIN handles'[h].written = {}
  BY <1>1 DEF Handle
<1>3. CommitKey(handles[h])' = key
  BY <1>2 DEF CommitKey
<1>4. TupleMeans(texts', slots', handles'[h].written)
  BY <1>2 DEF TupleMeans, ZeroSlots
<1>5. \A i \in 1..Len(log') :
         /\ RowKey(staging'.kind, staging'.rows[i]) = log'[i].key
         /\ TupleMeans(texts', tuples'[staging'.rows[i].tuple + 1], log'[i].written)
  <2>1. CASE staging' = staging
    BY <2>1 DEF MeansInv
  <2>2. CASE staging.kind = "none"
    <3>1. Len(log) = 0
      BY <2>2 DEF Shape, NoStaging, CoverInv
    <3> QED
      BY <3>1
  <2> QED
    BY <2>1, <2>2
<1> QED
  BY <1>1, <1>2, <1>3, <1>4, <1>5 DEF MeansInv

(* A setter: what the handle remembers and the scratch change together.    *)
LEMMA SetFieldMeans ==
    ASSUME TypeOK, CoverInv, MeansInv, OneAtATime,
           NEW h \in Handles, NEW f \in Fields, NEW v \in FieldValues[f], SetField(h, f, v)
    PROVE  MeansInv'
<1> DEFINE old == handles[h].written
           new == [g \in DOMAIN old \cup {f} |-> IF g = f THEN v ELSE old[g]]
<1>1. /\ handles[h].open /\ handles[h] \in HandleType
      /\ CommitKey(handles[h]) = handles[h].key /\ TupleMeans(texts, slots, old)
  BY DEF CoverInv, MeansInv, SetField
<1>2. /\ UNCHANGED <<blob, mode, stage, staging, pending_address, tuples, log>>
      /\ handles' = [handles EXCEPT ![h].written = new]
  BY DEF SetField, store, world
<1>3. /\ \A g \in Fields : Len(texts'[g]) \in Nat
      /\ \A g \in Fields : /\ Len(texts[g]) <= Len(texts'[g])
                           /\ \A i \in 1..Len(texts[g]) : texts'[g][i] = texts[g][i]
      /\ \E s : /\ slots' = [slots EXCEPT ![f] = s]
                /\ IF FieldKind[f] = "text"
                   THEN s < Len(texts'[f]) /\ texts'[f][s + 1] = v ELSE s = v
  <2>1. \A g \in Fields : Len(texts[g]) \in Nat
    BY DEF TypeOK
  <2>2. CASE FieldKind[f] = "text"
    <3>1. /\ texts' = Interned(f, v)
          /\ slots' = [slots EXCEPT ![f] = TextId(texts'[f], v)]
      BY <2>2 DEF SetField
    <3>2. \A g \in Fields : texts'[g] \in Seq(FieldValues[g])
      BY <3>1, InternText
    <3>3. \A g \in Fields : Len(texts'[g]) \in Nat
      BY <3>2
    <3> DEFINE id == TextId(texts'[f], v)
    <3>4. /\ id < Len(texts'[f]) /\ texts'[f][id + 1] = v
          /\ \A g \in Fields : /\ Len(texts[g]) <= Len(texts'[g])
                               /\ \A i \in 1..Len(texts[g]) : texts'[g][i] = texts[g][i]
      BY <3>1, InternMeans
    <3>5. slots' = [slots EXCEPT ![f] = id]
      BY <3>1
    <3> HIDE DEF id
    <3>6. \E s : /\ slots' = [slots EXCEPT ![f] = s]
                /\ IF FieldKind[f] = "text"
                   THEN s < Len(texts'[f]) /\ texts'[f][s + 1] = v ELSE s = v
      <4> WITNESS id
      <4> QED
        BY <2>2, <3>4, <3>5
    <3> QED
      BY <3>3, <3>4, <3>6
  <2>3. CASE FieldKind[f] # "text"
    <3>1. texts' = texts /\ slots' = [slots EXCEPT ![f] = v]
      BY <2>3, BuilderAssumption DEF SetField
    <3>2. \E s : /\ slots' = [slots EXCEPT ![f] = s]
                /\ IF FieldKind[f] = "text"
                   THEN s < Len(texts'[f]) /\ texts'[f][s + 1] = v ELSE s = v
      <4> WITNESS v
      <4> QED
        BY <2>3, <3>1
    <3>3. \A g \in Fields : /\ Len(texts[g]) <= Len(texts'[g])
                            /\ \A i \in 1..Len(texts[g]) : texts'[g][i] = texts[g][i]
      BY <2>1, <3>1
    <3> QED
      BY <2>1, <3>1, <3>2, <3>3
  <2> QED
    BY <2>2, <2>3
<1>4. \A t \in TupleType : \A w : TupleMeans(texts, t, w) => TupleMeans(texts', t, w)
  BY <1>3, MeaningStays
<1>5. DOMAIN new = DOMAIN old \cup {f} /\ new[f] = v
      /\ \A g \in DOMAIN old : g # f => new[g] = old[g]
  OBVIOUS
<1> HIDE DEF new, old
<1>6. TupleMeans(texts', slots', new)
  <2>1. slots \in TupleType /\ DOMAIN slots = Fields
    BY DEF TypeOK, TupleType
  <2>2. TupleMeans(texts', slots, old)
    BY <1>1, <1>4, <2>1
  <2>3. PICK s : /\ slots' = [slots EXCEPT ![f] = s]
                 /\ IF FieldKind[f] = "text"
                    THEN s < Len(texts'[f]) /\ texts'[f][s + 1] = v ELSE s = v
    BY <1>3
  <2>4. slots'[f] = s /\ \A g \in Fields : g # f => slots'[g] = slots[g]
    BY <2>1, <2>3
  <2> QED
    BY <1>5, <2>2, <2>3, <2>4 DEF TupleMeans
<1>7. handles'[h] = [handles[h] EXCEPT !.written = new]
  BY <1>2 DEF TypeOK
<1>8. /\ handles'[h].written = new /\ handles'[h].key = handles[h].key
      /\ handles'[h].partition = handles[h].partition /\ handles'[h].value = handles[h].value
  BY <1>1, <1>7 DEF HandleType
<1>9. CommitKey(handles[h])' = handles'[h].key
  BY <1>1, <1>2, <1>8 DEF CommitKey
<1>10. \A i \in 1..Len(log) :
          TupleMeans(texts', tuples[staging.rows[i].tuple + 1], log[i].written)
  BY <1>4, StagedTuples DEF MeansInv
<1> QED
  BY <1>2, <1>6, <1>8, <1>9, <1>10 DEF MeansInv, OneAtATime

(* commit stages the key of the handle and the scratch.                    *)
LEMMA CommitMeans ==
    ASSUME TypeOK, Shape, CoverInv, MeansInv, NEW h \in Handles, commit(h)
    PROVE  MeansInv'
<1> DEFINE t == intern_tuple
           key == CommitKey(handles[h])
           r == Row(staging.kind, key, t.id)
           n == Len(log)
<1>1. /\ UNCHANGED <<blob, mode, stage, handles, pending_address, texts, slots>>
      /\ tuples' = t.tuples /\ staging' = push(staging, key, t.id)
      /\ log' = Append(log, [key |-> handles[h].key, written |-> handles[h].written])
      /\ handles[h].open /\ stage = "consuming"
  BY DEF commit, world, record, StoreTuple, finished
<1>2. /\ key = handles[h].key /\ TupleMeans(texts, slots, handles[h].written)
      /\ handles[h] \in HandleType
  BY <1>1 DEF MeansInv, CoverInv
<1>3. /\ tuples'[t.id + 1] = slots /\ \A i \in 1..Len(tuples) : tuples'[i] = tuples[i]
  BY <1>1, InternTupleMeans
<1>4. RowKey(staging.kind, r) = key
  BY RowKeyOfRow
<1>5. r.tuple = t.id
  BY DEF Row
<1>6. staging.rows \in Seq(RowType(staging.kind, Len(tuples))) /\ Len(staging.rows) = n
  BY DEF TypeOK, CoverInv
<1>7. staging'.rows = Append(staging.rows, r) /\ staging'.kind = staging.kind
  <2>1. staging \in [kind : {staging.kind},
                     rows : Seq(RowType(staging.kind, Len(tuples))), sorted : BOOLEAN]
    BY DEF TypeOK
  <2> QED
    BY <1>1, <2>1 DEF push
<1> HIDE DEF t, key, r
<1>8. /\ n \in Nat /\ Len(log') = n + 1
      /\ log'[n + 1] = [key |-> handles[h].key, written |-> handles[h].written]
      /\ \A i \in 1..n : log'[i] = log[i]
  BY <1>1, <1>2 DEF CoverInv, EntryType, HandleType
<1>9. staging'.rows[n + 1] = r /\ \A i \in 1..n : staging'.rows[i] = staging.rows[i]
  BY <1>6, <1>7
<1>10. \A i \in 1..n : tuples'[staging.rows[i].tuple + 1] = tuples[staging.rows[i].tuple + 1]
  <2> SUFFICES ASSUME NEW i \in 1..n
               PROVE  tuples'[staging.rows[i].tuple + 1] = tuples[staging.rows[i].tuple + 1]
    OBVIOUS
  <2>1. staging.rows[i].tuple \in 0..(Len(tuples) - 1) /\ Len(tuples) \in Nat
    BY StagedTuples DEF TypeOK
  <2>2. staging.rows[i].tuple + 1 \in 1..Len(tuples)
    BY <2>1
  <2> QED
    BY <1>3, <2>2
<1>11. \A i \in 1..(n + 1) :
          /\ RowKey(staging'.kind, staging'.rows[i]) = log'[i].key
          /\ TupleMeans(texts', tuples'[staging'.rows[i].tuple + 1], log'[i].written)
  <2>1. ASSUME NEW i \in 1..n
        PROVE  /\ RowKey(staging'.kind, staging'.rows[i]) = log'[i].key
               /\ TupleMeans(texts', tuples'[staging'.rows[i].tuple + 1], log'[i].written)
    BY <1>1, <1>7, <1>8, <1>9, <1>10, ZenonT(30) DEF MeansInv
  <2>2. /\ RowKey(staging'.kind, staging'.rows[n + 1]) = log'[n + 1].key
        /\ TupleMeans(texts', tuples'[staging'.rows[n + 1].tuple + 1], log'[n + 1].written)
    BY <1>1, <1>2, <1>3, <1>4, <1>5, <1>7, <1>8, <1>9, SMTT(30)
  <2> QED
    BY <1>8, <2>1, <2>2
<1>12. /\ blob \in {"null", "owned"} /\ (blob = "owned" <=> mode = "explicit_wide")
       /\ blob = "owned" => WideKeys # {}
       /\ ClientStagings = {} /\ stage = "consuming" /\ mode = "undecided" =>
             staging.kind = "none"
       /\ \A g \in Handles : handles[g].open =>
             /\ CommitKey(handles[g]) = handles[g].key
             /\ TupleMeans(texts, slots, handles[g].written)
  BY DEF MeansInv
<1> QED
  BY <1>1, <1>7, <1>8, <1>11, <1>12 DEF MeansInv, CommitKey

(* A tuple interned for a row that push refused is one tuple more.         *)
LEMMA CommitRefusedMeans ==
    ASSUME TypeOK, CoverInv, MeansInv, NEW h \in Handles, CommitRefused(h)
    PROVE  MeansInv'
<1>1. /\ UNCHANGED <<blob, mode, stage, staging, handles, pending_address, texts, slots, log>>
      /\ tuples' = intern_tuple.tuples
  BY DEF CommitRefused, StoreTuple, world, record, client
<1>2. \A i \in 1..Len(tuples) : tuples'[i] = tuples[i]
  BY <1>1, InternTupleMeans
<1>3. \A i \in 1..Len(log) :
         tuples'[staging.rows[i].tuple + 1] = tuples[staging.rows[i].tuple + 1]
  <2> SUFFICES ASSUME NEW i \in 1..Len(log)
               PROVE  tuples'[staging.rows[i].tuple + 1] = tuples[staging.rows[i].tuple + 1]
    OBVIOUS
  <2>1. staging.rows[i].tuple \in 0..(Len(tuples) - 1) /\ Len(tuples) \in Nat
    BY StagedTuples DEF TypeOK
  <2>2. staging.rows[i].tuple + 1 \in 1..Len(tuples)
    BY <2>1
  <2> QED
    BY <1>2, <2>2
<1> QED
  BY <1>1, <1>3 DEF MeansInv, CommitKey

(* finish moves each row with what it means.                               *)
LEMMA FinishMeans ==
    ASSUME TypeOK, Shape, CoverInv, MeansInv, finish PROVE MeansInv'
<1>1. /\ UNCHANGED <<blob, mode, handles, pending_address, texts, slots, tuples>>
      /\ stage' # "consuming"
  BY FinishCases
<1>2. Len(Entering.rows) = Len(log) /\ DOMAIN Entering.rows = 1..Len(log)
  BY EnteringType DEF CoverInv, Shape, NoStaging
<1>3. \A i \in 1..Len(log) :
         /\ RowKey(Entering.kind, Entering.rows[i]) = log[i].key
         /\ TupleMeans(texts, tuples[Entering.rows[i].tuple + 1], log[i].written)
  <2>1. CASE staging.kind = "none"
    <3>1. Len(log) = 0
      BY <1>2, <2>1, EnteringType
    <3> QED
      BY <3>1
  <2>2. CASE staging.kind # "none"
    BY <2>2, EnteringType DEF MeansInv
  <2> QED
    BY <2>1, <2>2
<1>4. /\ blob' \in {"null", "owned"} /\ (blob' = "owned" <=> mode' = "explicit_wide")
      /\ blob' = "owned" => WideKeys # {}
      /\ \A h \in Handles : handles'[h].open =>
            /\ CommitKey(handles[h])' = handles'[h].key
            /\ TupleMeans(texts', slots', handles'[h].written)
  BY <1>1 DEF MeansInv, CommitKey
<1>5. CASE staging' = Entering /\ log' = log
  BY <1>1, <1>3, <1>4, <1>5 DEF MeansInv
<1>6. ASSUME NEW p \in SortingPermutations(Entering),
             staging' = [Entering EXCEPT !.rows = Permuted(@, p), !.sorted = TRUE],
             log' = Permuted(log, p)
      PROVE  MeansInv'
  <2>1. p \in [1..Len(log) -> 1..Len(log)]
    BY <1>2 DEF SortingPermutations
  <2>2. /\ Len(log') = Len(log)
        /\ \A i \in 1..Len(log) : log'[i] = log[p[i]]
    BY <1>6, <2>1 DEF CoverInv, Permuted
  <2>3. staging'.rows = Permuted(Entering.rows, p) /\ staging'.kind = Entering.kind
    BY <1>6, EnteringType
  <2>4. \A i \in 1..Len(log) : staging'.rows[i] = Entering.rows[p[i]]
    BY <1>2, <2>3 DEF Permuted
  <2>5. \A i \in 1..Len(log') :
           /\ RowKey(staging'.kind, staging'.rows[i]) = log'[i].key
           /\ TupleMeans(texts', tuples'[staging'.rows[i].tuple + 1], log'[i].written)
    <3> SUFFICES ASSUME NEW i \in 1..Len(log)
                 PROVE  /\ RowKey(staging'.kind, staging'.rows[i]) = log'[i].key
                        /\ TupleMeans(texts', tuples'[staging'.rows[i].tuple + 1],
                                      log'[i].written)
      BY <2>2
    <3>1. p[i] \in 1..Len(log)
      BY <2>1
    <3>2. log'[i] = log[p[i]] /\ staging'.rows[i] = Entering.rows[p[i]]
      BY <2>2, <2>4
    <3>3. /\ RowKey(Entering.kind, Entering.rows[p[i]]) = log[p[i]].key
          /\ TupleMeans(texts, tuples[Entering.rows[p[i]].tuple + 1], log[p[i]].written)
      BY <1>3, <3>1
    <3> QED
      BY <1>1, <2>3, <3>2, <3>3
  <2> QED
    BY <1>1, <1>4, <2>5 DEF MeansInv
<1> QED
  BY <1>5, <1>6 DEF finish, Entering

(* Every call keeps rows, scratch and open handle in agreement.            *)
LEMMA NextMeans ==
    ASSUME OneAtATime
    PROVE  TypeOK /\ Shape /\ CoverInv /\ MeansInv /\ [BuilderNext]_builder_vars => MeansInv'
<1> SUFFICES ASSUME TypeOK, Shape, CoverInv, MeansInv, [BuilderNext]_builder_vars
             PROVE  MeansInv'
  OBVIOUS
<1>1. CASE UNCHANGED builder_vars \/ Throws
  BY <1>1, SameMeans DEF builder_vars, Throws, store, world, record, client
<1>2. ASSUME NEW h \in Handles, NEW wanted \in {"keyed", "explicit"},
             NEW partition, NEW value, BeginNarrow(h, wanted, partition, value)
      PROVE  MeansInv'
  <2>1. /\ UNCHANGED <<texts, tuples, log>> /\ slots' = ZeroSlots
        /\ handles' = [handles EXCEPT ![h] =
                          Handle(partition, value, NarrowKey(partition, value))]
    BY <1>2 DEF BeginNarrow
  <2>2. /\ mode \in {"undecided", wanted} /\ mode' = wanted /\ UNCHANGED blob
        /\ staging' = staging \/ (staging.kind = "none" /\ staging'.rows = <<>>)
    BY <1>2 DEF BeginNarrow, EnterMode, EmptyStaging, NoStaging
  <2>3. blob' = "null" /\ mode' # "explicit_wide" /\ mode' # "undecided"
    BY <2>2 DEF MeansInv
  <2> QED
    BY <2>1, <2>2, <2>3, BeginMeans
<1>3. ASSUME NEW h \in Handles, NEW k \in WideKeys, begin_record_at_wide(h, k)
      PROVE  MeansInv'
  <2>1. /\ UNCHANGED <<texts, tuples, log>> /\ slots' = ZeroSlots
        /\ handles' = [handles EXCEPT ![h] = Handle(k[1], 0, WideKey(k[1], k[2]))]
        /\ pending_address' = k[2] /\ stage = "consuming" /\ mode' = "explicit_wide"
    BY <1>3 DEF begin_record_at_wide, finished, EnterWideMode, TypeOK
  <2>2. ClientStagings = {}
    BY DEF OneAtATime
  <2>3. /\ blob' = "owned"
        /\ staging' = staging \/ (staging.kind = "none" /\ staging'.rows = <<>>)
    BY <1>3, <2>1, <2>2
       DEF begin_record_at_wide, EnterWideMode, EmptyStaging, NoStaging, MeansInv
  <2> QED
    BY <2>1, <2>3, BeginMeans
<1>4. ASSUME NEW kind \in ClientStagings, set_staging(kind) PROVE MeansInv'
  <2>1. /\ UNCHANGED <<mode, stage, handles, pending_address, texts, slots, tuples, log>>
        /\ blob' = IF blob = "owned" THEN "dangling" ELSE blob
        /\ staging.rows = <<>>
    BY <1>4 DEF set_staging, record, client
  <2>2. ClientStagings # {} /\ Len(log) = 0
    BY <2>1 DEF CoverInv
  <2>3. blob # "owned"
    BY <2>2 DEF OneAtATime, MeansInv
  <2> QED
    BY <2>1, <2>2, <2>3 DEF MeansInv, CommitKey
<1> QED
  BY <1>1, <1>2, <1>3, <1>4, SetFieldMeans, CommitMeans, CommitRefusedMeans, FinishMeans
     DEF BuilderNext, SetRejected, CommitRejected, SetStagingRejected, BeginRejected,
         FinishRejected, begin_record, begin_record_at

----------------------------------------------------------------------------
(* The key world.                                                          *)

(* The world of a build is set apart from its staging unless the client    *)
(* installs a staging of its own in a build of byte addresses: then        *)
(* enter_wide_mode leaves blob_ null.                                      *)
OwnStaging == ClientStagings = {} \/ WideKeys = {}

(* blob_ is never left dangling then, and the arena can be allocated when  *)
(* the mode is chosen because no staging is there before.                  *)
WorldInv ==
    /\ blob \in {"null", "owned"}
    /\ blob = "owned" <=> mode = "explicit_wide"
    /\ mode = "explicit_wide" => WideKeys # {}
    /\ ClientStagings = {} /\ stage = "consuming" /\ mode = "undecided" =>
          staging.kind = "none"

(* Every call keeps the mode and the arena together.                       *)
LEMMA NextWorld ==
    ASSUME OwnStaging
    PROVE  TypeOK /\ WorldInv /\ [BuilderNext]_builder_vars => WorldInv'
<1> SUFFICES ASSUME TypeOK, WorldInv, [BuilderNext]_builder_vars PROVE WorldInv'
  OBVIOUS
<1>1. CASE UNCHANGED <<blob, mode, stage>> /\ staging'.kind = staging.kind
  BY <1>1 DEF WorldInv
<1>2. CASE UNCHANGED builder_vars \/ Throws
  BY <1>1, <1>2 DEF builder_vars, Throws, store, world
<1>3. ASSUME NEW h \in Handles, NEW wanted \in {"keyed", "explicit"},
             NEW partition, NEW value, BeginNarrow(h, wanted, partition, value)
      PROVE  WorldInv'
  BY <1>3 DEF BeginNarrow, EnterMode, WorldInv
<1>4. ASSUME NEW h \in Handles, NEW k \in WideKeys, begin_record_at_wide(h, k)
      PROVE  WorldInv'
  <2>1. ClientStagings = {} /\ WideKeys # {}
    BY DEF OwnStaging
  <2>2. stage = "consuming" /\ UNCHANGED stage
    BY <1>4 DEF begin_record_at_wide, finished, TypeOK
  <2> QED
    BY <1>4, <2>1, <2>2 DEF begin_record_at_wide, EnterWideMode, WorldInv
<1>5. ASSUME NEW h \in Handles, NEW f \in Fields, NEW v \in FieldValues[f], SetField(h, f, v)
      PROVE  WorldInv'
  BY <1>1, <1>5 DEF SetField, store, world
<1>6. ASSUME NEW h \in Handles, commit(h) PROVE WorldInv'
  <2>1. staging' = push(staging, CommitKey(handles[h]), intern_tuple.id)
    BY <1>6 DEF commit
  <2>2. staging'.kind = staging.kind
    BY <2>1 DEF push, TypeOK
  <2> QED
    BY <1>1, <1>6, <2>2 DEF commit, world
<1>7. ASSUME NEW h \in Handles, CommitRefused(h) PROVE WorldInv'
  BY <1>1, <1>7 DEF CommitRefused, world
<1>8. ASSUME NEW kind \in ClientStagings, set_staging(kind) PROVE WorldInv'
  <2>1. ClientStagings # {} /\ WideKeys = {}
    BY DEF OwnStaging
  <2>2. blob = "null"
    BY <2>1 DEF WorldInv
  <2> QED
    BY <1>8, <2>1, <2>2 DEF set_staging, record, WorldInv
<1>9. CASE finish
  BY <1>9, FinishCases DEF WorldInv
<1> QED
  BY <1>2, <1>3, <1>4, <1>5, <1>6, <1>7, <1>8, <1>9
     DEF BuilderNext, SetRejected, CommitRejected, SetStagingRejected, BeginRejected,
         FinishRejected, begin_record, begin_record_at

----------------------------------------------------------------------------
(* The range measured for an integer field holds every value committed     *)
(* through it (builder.hpp:591), so the width choose_layout takes from the *)
(* range (builder.hpp:637) truncates none of them.                         *)
THEOREM StatsAreCovering == BuilderSpec => []StatsCover
<1>1. BuilderInit => CoverInv
  BY DEF BuilderInit, CoverInv, NoStaging, NoHandle
<1>2. CoverInv => StatsCover
  BY DEF CoverInv, StatsCover, Covered, InRange, IsInteger
<1> QED
  BY <1>1, <1>2, InitType, NextType, NextCover, PTL DEF BuilderSpec

(* With one record open at a time, every staged record has the key and the *)
(* values its client gave, whatever deduplication, its abandonment         *)
(* (builder.hpp:541-568), sorting and refused records do in between.       *)
THEOREM RecordsAreAsCommitted == OneAtATime => (BuilderSpec => []StagedAsCommitted)
<1> SUFFICES ASSUME OneAtATime PROVE BuilderSpec => []StagedAsCommitted
  OBVIOUS
<1>1. BuilderInit => CoverInv /\ MeansInv
  BY DEF BuilderInit, CoverInv, MeansInv, NoStaging, NoHandle
<1>2. CoverInv /\ MeansInv => StagedAsCommitted
  BY DEF CoverInv, MeansInv, StagedAsCommitted, RowMatches, SlotMeans, TupleMeans
<1>3. TypeOK /\ Shape /\ CoverInv /\ MeansInv /\ [BuilderNext]_builder_vars => MeansInv'
  BY NextMeans
<1> QED
  BY <1>1, <1>2, <1>3, InitType, NextType, NextCover, PTL DEF BuilderSpec

(* The comment at builder.hpp:1131 for every build but the one it is wrong *)
(* of: unless a client stages byte addresses in a staging of its own,      *)
(* blob_ is set exactly in explicit_wide mode, whatever calls are refused, *)
(* mixed or repeated.                                                      *)
THEOREM BlobIsExactlyWide == OwnStaging => (BuilderSpec => []BlobExactlyWide)
<1> SUFFICES ASSUME OwnStaging PROVE BuilderSpec => []BlobExactlyWide
  OBVIOUS
<1>1. BuilderInit => WorldInv
  BY DEF BuilderInit, WorldInv, NoStaging
<1>2. WorldInv => BlobExactlyWide
  BY DEF WorldInv, BlobExactlyWide
<1>3. TypeOK /\ Shape /\ WorldInv /\ [BuilderNext]_builder_vars => WorldInv'
  BY NextWorld
<1> QED
  BY <1>1, <1>2, <1>3, InitType, NextType, PTL DEF BuilderSpec
=============================================================================
