-------------------------- MODULE AcceptanceProofs --------------------------
(***************************************************************************)
(* The reader accepts what the writer writes: no check of try_open fails   *)
(* on a file of write_image.                                               *)
(*                                                                         *)
(* First what the writer keeps true of the bytes of each dictionary        *)
(* (BlobInv, HeadersInv), of the places of dictionaries and records        *)
(* (RoomInv) and of the frame, schema and footer around them (FrameInv).   *)
(* Then one lemma for each check, about any file that is Laid out so, and  *)
(* last the opening itself: Progress says how far it is and what it has    *)
(* counted, and OpeningAdvances that no step rejects.                      *)
(*                                                                         *)
(* And then the lookups on the table that was opened: with RoundTripProofs *)
(* it holds the committed keys (OpenedTable), with TableLookupProofs the   *)
(* lookups are those of an ordered map, so they are of the map the client  *)
(* committed.                                                              *)
(***************************************************************************)
EXTENDS RoundTripProofs, BuildAndLookup

----------------------------------------------------------------------------
(* The texts of a dictionary, in bytes.                                    *)

(* The sizes of the texts of a dictionary, and the bytes of the first n.   *)
TextSizes(t) == [i \in 1..Len(t) |-> TextSize[t[i]]]
BytesOf(t, n) == Total(TextSizes(t), 1..n)

(* The sum of the model, over a set of texts, is BytesOf.                  *)
SumOver(f, S) == MapThenSumSet(LAMBDA i : TextSize[texts[f][i]], S)

LEMMA SumOfTexts ==
    ASSUME NEW f, Len(texts[f]) \in Nat, NEW n \in 0..Len(texts[f])
    PROVE  SumOver(f, 1..n) = BytesOf(texts[f], n)
<1> DEFINE D == 1..n  h == TextSizes(texts[f])
           Rec(g) == g = [s \in SUBSET D |->
               IF s = {} THEN 0
               ELSE TextSize[texts[f][CHOOSE x \in s : TRUE]] + g[s \ {CHOOSE x \in s : TRUE}]]
           iter == CHOOSE g : Rec(g)
<1>1. IsFiniteSet(D)
  BY FS_Interval
<1>2. SumOver(f, 1..n) = iter[D]
  BY DEF SumOver, MapThenSumSet, MapThenFoldSet
<1>3. \A i \in D : h[i] = TextSize[texts[f][i]]
  BY DEF TextSizes
<1>4. iter[D] = Total(h, D)
  <2> HIDE DEF h
  <2>1. PICK g : Solves(g, h, D)
    BY <1>1, PartialExists
  <2>2. Rec(g)
    <3>1. \A s \in SUBSET D : s # {} => (CHOOSE x \in s : TRUE) \in D
      <4> SUFFICES ASSUME NEW s \in SUBSET D, s # {} PROVE (CHOOSE x \in s : TRUE) \in D
        OBVIOUS
      <4>1. Pick(s) \in s
        BY PickMember
      <4> QED
        BY <4>1 DEF Pick
    <3> HIDE DEF D
    <3> QED
      BY <1>3, <2>1, <3>1 DEF Solves, Pick
  <2>3. Rec(iter)
    BY <2>2
  <2>4. Sums(iter, h, D)
    <3>1. \A s \in SUBSET D : s # {} => Pick(s) \in D
      BY PickMember
    <3> HIDE DEF D, iter
    <3>2. ASSUME NEW s \in SUBSET D
          PROVE  iter[s] = IF s = {} THEN 0 ELSE h[Pick(s)] + iter[s \ {Pick(s)}]
      <4>1. iter[s] = IF s = {} THEN 0
                      ELSE TextSize[texts[f][CHOOSE x \in s : TRUE]]
                             + iter[s \ {CHOOSE x \in s : TRUE}]
        BY <2>3
      <4>2. iter[s] = IF s = {} THEN 0
                      ELSE TextSize[texts[f][Pick(s)]] + iter[s \ {Pick(s)}]
        BY <4>1 DEF Pick
      <4>3. s # {} => h[Pick(s)] = TextSize[texts[f][Pick(s)]]
        BY <1>3, <3>1
      <4> QED
        BY <4>2, <4>3
    <3> QED
      BY <3>2 DEF Sums
  <2>5. D \in SUBSET D /\ \A y \in D : h[y] = h[y]
    OBVIOUS
  <2> HIDE DEF iter, D
  <2> QED
    BY <1>1, <2>4, <2>5, TotalUnique
<1> QED
  BY <1>2, <1>4 DEF BytesOf

IsTexts(t) == Len(t) \in Nat /\ \A i \in 1..Len(t) : t[i] \in DOMAIN TextSize

(* The sums of the first n texts never go down.                            *)
LEMMA BytesGrow ==
    ASSUME NEW t, IsTexts(t), NEW m \in Nat, NEW n \in Nat, m <= n, n <= Len(t)
    PROVE  BytesOf(t, m) \in Nat /\ BytesOf(t, n) \in Nat /\ BytesOf(t, m) <= BytesOf(t, n)
<1> DEFINE h == TextSizes(t)
<1>1. \A x \in 1..n : h[x] \in Nat
  BY BuilderAssumption DEF IsTexts, TextSizes
<1>2. IsFiniteSet(1..n) /\ 1..m \in SUBSET (1..n)
  BY FS_Interval
<1>3. \A x \in 1..m : h[x] \in Nat /\ h[x] <= h[x]
  BY <1>1
<1> HIDE DEF h
<1>4. Total(h, 1..m) \in Nat /\ Total(h, 1..n) \in Nat /\ Total(h, 1..m) <= Total(h, 1..n)
  BY <1>1, <1>2, <1>3, TotalMonotone
<1> QED
  BY <1>4 DEF BytesOf, h

(* No texts have no bytes.                                                 *)
LEMMA NoBytes == \A t : BytesOf(t, 0) = 0
<1>1. 1..0 = {}
  OBVIOUS
<1> QED
  BY <1>1, TotalEmpty DEF BytesOf

(* A text more adds its own bytes.                                         *)
LEMMA BytesAppend ==
    ASSUME NEW T, T \subseteq DOMAIN TextSize, NEW t \in Seq(T), NEW v \in T
    PROVE  BytesOf(Append(t, v), Len(Append(t, v))) = BytesOf(t, Len(t)) + TextSize[v]
<1> DEFINE a == Append(t, v)  n == Len(t)  h == TextSizes(a)
<1>1. n \in Nat /\ Len(a) = n + 1 /\ a[n + 1] = v /\ \A i \in 1..n : a[i] = t[i]
  OBVIOUS
<1>2. \A i \in 1..(n + 1) : a[i] \in DOMAIN TextSize
  BY <1>1
<1> HIDE DEF a, n
<1>3. /\ \A x \in 1..(n + 1) : h[x] \in Nat
      /\ h[n + 1] = TextSize[v] /\ \A x \in 1..n : h[x] = TextSizes(t)[x]
  BY <1>1, <1>2, BuilderAssumption DEF TextSizes, n
<1> HIDE DEF h
<1>4. IsFiniteSet(1..(n + 1)) /\ IsFiniteSet(1..n) /\ n + 1 \in 1..(n + 1)
  BY <1>1, FS_Interval
<1>5. (1..(n + 1)) \ {n + 1} = 1..n
  BY <1>1
<1>6. Total(h, 1..(n + 1)) = h[n + 1] + Total(h, 1..n)
  <2>1. Total(h, 1..(n + 1)) = h[n + 1] + Total(h, (1..(n + 1)) \ {n + 1})
    BY <1>3, <1>4, TotalRemove
  <2> QED
    BY <1>5, <2>1
<1>7. Total(h, 1..n) = Total(TextSizes(t), 1..n)
  BY <1>3, <1>4, TotalAgree
<1>8. Total(h, 1..n) \in Nat /\ h[n + 1] \in Nat
  <2>1. \A x \in 1..n : h[x] \in Nat
    BY <1>1, <1>3
  <2> QED
    BY <1>1, <1>3, <1>4, <2>1, TotalNat
<1>9. BytesOf(a, n + 1) = Total(h, 1..(n + 1)) /\ BytesOf(t, n) = Total(TextSizes(t), 1..n)
  BY DEF BytesOf, h
<1> QED
  BY <1>1, <1>3, <1>6, <1>7, <1>8, <1>9 DEF a, n

(* A text dictionary takes no more bytes than its offsets can count        *)
(* (dictionary.hpp: intern throws), so that no offset is truncated.        *)
TextBytes(f) == BytesOf(texts[f], Len(texts[f]))
BlobInv == \A f \in TextFields : TextBytes(f) <= MaxBlob

(* The texts of a field are texts.                                         *)
LEMMA TextsTyped ==
    ASSUME TypeOK, NEW f \in TextFields
    PROVE  /\ texts[f] \in Seq(FieldValues[f]) /\ FieldValues[f] \subseteq DOMAIN TextSize
           /\ Len(texts[f]) \in Nat /\ IsTexts(texts[f])
<1>1. f \in Fields /\ FieldKind[f] = "text"
  BY DEF TextFields
<1>2. texts[f] \in Seq(FieldValues[f]) /\ FieldValues[f] \subseteq DOMAIN TextSize
  BY <1>1, BuilderAssumption DEF TypeOK
<1> QED
  BY <1>2 DEF IsTexts

(* The size the builder compares with the limit is this sum.               *)
LEMMA BlobSizeIs ==
    ASSUME TypeOK, NEW f \in TextFields
    PROVE  blob_size(f) = TextBytes(f) /\ TextBytes(f) \in Nat
<1>1. texts[f] \in Seq(FieldValues[f]) /\ Len(texts[f]) \in Nat /\ IsTexts(texts[f])
  BY TextsTyped
<1>2. DOMAIN texts[f] = 1..Len(texts[f])
  BY <1>1
<1>3. SumOver(f, 1..Len(texts[f])) = BytesOf(texts[f], Len(texts[f]))
  BY <1>1, SumOfTexts
<1>4. BytesOf(texts[f], Len(texts[f])) \in Nat
  BY <1>1, BytesGrow
<1>5. blob_size(f) = SumOver(f, DOMAIN texts[f])
  BY DEF blob_size, SumOver
<1> QED
  BY <1>2, <1>3, <1>4, <1>5 DEF TextBytes

(* Every call of the client keeps the dictionaries within their limit.     *)
LEMMA NextBlobs == TypeOK /\ BlobInv /\ [BuilderNext]_builder_vars => BlobInv'
<1> SUFFICES ASSUME TypeOK, BlobInv, [BuilderNext]_builder_vars PROVE BlobInv'
  OBVIOUS
<1>1. CASE texts' = texts
  BY <1>1 DEF BlobInv, TextBytes
<1>2. ASSUME NEW h \in Handles, NEW f \in Fields, NEW v \in FieldValues[f], SetField(h, f, v)
      PROVE  BlobInv'
  <2>1. CASE FieldKind[f] # "text"
    <3>1. texts' = texts
      BY <1>2, <2>1, BuilderAssumption DEF SetField
    <3> QED
      BY <1>1, <3>1
  <2>2. CASE FieldKind[f] = "text"
    <3>1. Fits(f, v) /\ texts' = Interned(f, v) /\ f \in TextFields
      BY <1>2, <2>2 DEF SetField, TextFields
    <3>2. CASE \E i \in DOMAIN texts[f] : texts[f][i] = v
      <4>1. texts' = texts
        BY <3>1, <3>2 DEF Interned
      <4> QED
        BY <1>1, <4>1
    <3>3. CASE ~\E i \in DOMAIN texts[f] : texts[f][i] = v
      <4>1. texts' = [texts EXCEPT ![f] = Append(@, v)] /\ DOMAIN texts = Fields
        BY <3>1, <3>3 DEF Interned, TypeOK
      <4>2. \A g \in Fields : g # f => texts'[g] = texts[g]
        BY <4>1
      <4>3. texts'[f] = Append(texts[f], v)
        BY <4>1
      <4>4. blob_size(f) + TextSize[v] <= MaxBlob
        BY <3>1, <3>3 DEF Fits
      <4>5. BytesOf(texts'[f], Len(texts'[f])) = TextBytes(f) + TextSize[v]
        BY <3>1, <4>3, TextsTyped, BytesAppend DEF TextBytes
      <4>6. BytesOf(texts'[f], Len(texts'[f])) <= MaxBlob
        BY <3>1, <4>4, <4>5, BlobSizeIs
      <4> SUFFICES ASSUME NEW g \in TextFields PROVE TextBytes(g)' <= MaxBlob
        BY DEF BlobInv
      <4> QED
        BY <4>2, <4>6 DEF BlobInv, TextBytes, TextFields
    <3> QED
      BY <3>2, <3>3
  <2> QED
    BY <2>1, <2>2
<1>3. ASSUME NEW h \in Handles,
             \/ \E k \in Keys : begin_record(h, k)
             \/ \E k \in SplitKeys : begin_record_at(h, k)
             \/ \E k \in WideKeys : begin_record_at_wide(h, k)
             \/ SetRejected(h) \/ commit(h) \/ CommitRejected(h) \/ CommitRefused(h)
      PROVE  texts' = texts
  BY <1>3 DEF begin_record, begin_record_at, begin_record_at_wide, BeginNarrow, SetRejected,
              commit, CommitRejected, CommitRefused, Throws, record, client
<1>4. ASSUME \/ \E kind \in ClientStagings : set_staging(kind)
             \/ SetStagingRejected \/ BeginRejected \/ finish \/ FinishRejected
             \/ UNCHANGED builder_vars
      PROVE  texts' = texts
  BY <1>4 DEF set_staging, SetStagingRejected, BeginRejected, finish, FinishRejected, Throws,
              record, builder_vars
<1> QED
  BY <1>1, <1>2, <1>3, <1>4 DEF BuilderNext

----------------------------------------------------------------------------
(* Where write_image puts things.                                          *)

(* A dictionary lies between the header and what is written after it.      *)
EntryPlaced(e, at) ==
    /\ e.offset \in Nat /\ e.size \in Nat
    /\ Sizes.header <= e.offset /\ e.offset + e.size <= at

(* Nothing is written over the header, and every record written is at      *)
(* least a byte of the image.                                              *)
RoomInv ==
    /\ wpc \notin {"off", "measure"} => Sizes.header <= pos /\ row <= pos
    /\ \A n \in 1..Len(dicts) : EntryPlaced(dicts[n].entry, pos)
    /\ \A i \in 1..Len(directory) : Sizes.header <= directory[i].entry.offset

(* A dictionary that is appended at the next aligned position lies there.  *)
LEMMA DictAppended ==
    ASSUME RoomInv, pos \in Nat, IsSequence(dicts), wpc = "dictionaries",
           NEW size \in Nat, NEW content, PlaceDict(size, content),
           NEW at \in Nat, Padded(pos) + size <= at
    PROVE  /\ pos <= at /\ Sizes.header <= at
           /\ \A n \in 1..Len(dicts') : EntryPlaced(dicts'[n].entry, at)
<1> DEFINE m == Len(dicts)
           e == [entry |-> [offset |-> Padded(pos), size |-> size], content |-> content]
<1>1. Padded(pos) \in Nat /\ pos <= Padded(pos)
  BY PaddedNat
<1>2. Sizes.header <= pos /\ Sizes.header \in Nat
  BY FormatAssumption DEF RoomInv
<1>3. e.entry.offset = Padded(pos) /\ e.entry.size = size
  OBVIOUS
<1>4. dicts' = Append(dicts, e)
  BY DEF PlaceDict
<1> HIDE DEF e
<1>5. EntryPlaced(e.entry, at)
  BY <1>1, <1>2, <1>3 DEF EntryPlaced
<1>6. Len(dicts') = m + 1 /\ dicts'[m + 1] = e /\ \A i \in 1..m : dicts'[i] = dicts[i]
  BY <1>4, AppendAny
<1>7. m \in Nat
  BY DEF IsSequence
<1>8. ASSUME NEW n \in 1..m PROVE EntryPlaced(dicts[n].entry, at)
  <2>1. EntryPlaced(dicts[n].entry, pos)
    BY DEF RoomInv
  <2> DEFINE a == dicts[n].entry.offset  b == dicts[n].entry.size
  <2>2. a \in Nat /\ b \in Nat /\ Sizes.header <= a /\ a + b <= pos
    BY <2>1 DEF EntryPlaced
  <2> HIDE DEF a, b
  <2>3. a + b <= at
    BY <1>1, <2>2
  <2> QED
    BY <2>2, <2>3 DEF EntryPlaced, a, b
<1> HIDE DEF m
<1>9. \A n \in 1..(m + 1) : n = m + 1 \/ n \in 1..m
  BY <1>7
<1>10. pos <= at /\ Sizes.header <= at
  BY <1>1, <1>2
<1> QED
  BY <1>5, <1>6, <1>8, <1>9, <1>10

(* Every step keeps the room.                                              *)
LEMMA NextRoom ==
    /\ TypeOK /\ WalkInv /\ TypesInv /\ TypesInv' /\ RangesInv /\ DictsInv /\ RoomInv
    /\ [Next]_vars
    => RoomInv'
<1> SUFFICES ASSUME TypeOK, WalkInv, TypesInv, TypesInv', RangesInv, DictsInv, RoomInv,
                    [Next]_vars
             PROVE  RoomInv'
  OBVIOUS
<1>1. pos \in Nat /\ pos' \in Nat /\ IsSequence(dicts) /\ Sizes.header \in Nat
  BY FormatAssumption DEF TypesInv
<1>2. row \in Nat /\ Len(Rows) \in Nat /\ row <= Len(Rows)
  BY RowsAreCounted DEF WalkInv, RowsCounted
<1>3. ASSUME UNCHANGED <<dicts, directory>>, pos <= pos',
             wpc' \notin {"off", "measure"} => Sizes.header <= pos' /\ row' <= pos'
      PROVE  RoomInv'
  <2>1. ASSUME NEW n \in 1..Len(dicts) PROVE EntryPlaced(dicts[n].entry, pos')
    <3>1. EntryPlaced(dicts[n].entry, pos)
      BY DEF RoomInv
    <3> DEFINE a == dicts[n].entry.offset  b == dicts[n].entry.size
    <3>2. a \in Nat /\ b \in Nat /\ Sizes.header <= a /\ a + b <= pos
      BY <3>1 DEF EntryPlaced
    <3> HIDE DEF a, b
    <3>3. a + b <= pos'
      BY <1>1, <1>3, <3>2
    <3> QED
      BY <3>2, <3>3 DEF EntryPlaced, a, b
  <2> QED
    BY <1>3, <2>1 DEF RoomInv, EntryPlaced
<1>4. CASE Consume \/ StartLayout \/ MeasureRun
  <2>1. UNCHANGED <<dicts, directory, pos>> /\ wpc' \in {"off", "measure"}
    BY <1>4 DEF Consume, StartLayout, MeasureRun, output_vars, writer_vars, WalkInv
  <2> QED
    BY <1>1, <1>3, <2>1
<1>5. CASE Price
  <2>1. /\ dicts' = dicts /\ directory' = directory /\ dicts = <<>> /\ directory = <<>>
        /\ row' = 0 /\ pos' = Sizes.header
    BY <1>5 DEF Price, WalkInv, DictsInv
  <2> QED
    BY <1>1, <2>1, EmptySequence DEF RoomInv
<1>6. CASE WriteTextDict
  <2> DEFINE g == CHOOSE x \in TextFields : text_slot(x) = Len(dicts)
  <2>1. /\ wpc = "dictionaries" /\ Len(dicts) < Cardinality(TextFields)
        /\ PlaceDict(serialized_size(g), BlobDict(g)) /\ pos' = Padded(pos) + serialized_size(g)
        /\ UNCHANGED <<row, directory>> /\ row = 0
    BY <1>6 DEF WriteTextDict, WalkInv
  <2>2. g \in TextFields /\ Len(dicts) \in Nat
    BY <1>1, <2>1, NextTextField DEF IsSequence
  <2>3. serialized_size(g) \in Nat
    BY <2>2, DictSize
  <2>4. Padded(pos) \in Nat
    BY <1>1, PaddedNat
  <2> DEFINE size == serialized_size(g)
  <2> HIDE DEF g, size
  <2>5. size \in Nat /\ Padded(pos) + size <= pos' /\ pos' \in Nat
    BY <1>1, <2>1, <2>3, <2>4 DEF size
  <2>6. /\ pos <= pos' /\ Sizes.header <= pos'
        /\ \A n \in 1..Len(dicts') : EntryPlaced(dicts'[n].entry, pos')
    BY <1>1, <2>1, <2>5, DictAppended DEF size
  <2> QED
    BY <1>1, <2>1, <2>6 DEF RoomInv, EntryPlaced
<1>7. CASE EndDictionaries
  <2>1. wpc = "dictionaries" /\ UNCHANGED <<row, directory>> /\ row = 0
    BY <1>7 DEF EndDictionaries, WalkInv
  <2>2. Sizes.header <= pos
    BY <2>1 DEF RoomInv
  <2>3. CASE UNCHANGED dicts /\ (pos' = pos \/ pos' = Padded(pos))
    <3>1. pos <= pos'
      BY <1>1, <2>3, PaddedNat
    <3>2. Sizes.header <= pos' /\ row' <= pos'
      BY <1>1, <2>1, <2>2, <3>1
    <3> QED
      BY <1>3, <2>1, <2>3, <3>1, <3>2
  <2>4. CASE PlaceDict(FixedSize, FixedDict) /\ pos' = Padded(Padded(pos) + FixedSize)
    <3>1. FixedSize \in Nat
      <4>1. ShapeTyped /\ priced \in [address_bytes : Nat, remap_savings : Nat]
        BY <2>1 DEF TypesInv
      <4> QED
        BY <4>1, PricesNat
    <3>2. Padded(pos) \in Nat
      BY <1>1, PaddedNat
    <3> DEFINE p == Padded(pos) + FixedSize
    <3>3. p \in Nat
      BY <3>1, <3>2
    <3> HIDE DEF p
    <3>4. p <= pos'
      BY <2>4, <3>3, PaddedNat DEF p
    <3>5. /\ pos <= pos' /\ Sizes.header <= pos'
          /\ \A n \in 1..Len(dicts') : EntryPlaced(dicts'[n].entry, pos')
      BY <1>1, <2>1, <2>4, <3>1, <3>4, DictAppended DEF p
    <3> QED
      BY <1>1, <2>1, <3>5 DEF RoomInv, EntryPlaced
  <2> QED
    BY <1>7, <2>3, <2>4 DEF EndDictionaries, FixedSize
<1>8. CASE WriteRun
  <2>1. wpc = "records" /\ row < Len(Rows) /\ dicts' = dicts
    BY <1>8 DEF WriteRun
  <2>2. Sizes.header <= pos /\ row <= pos
    BY <2>1 DEF RoomInv
  <2>3. CASE ~(Len(directory) < Len(ranges))
    <3>1. UNCHANGED <<directory, pos, row>>
      BY <1>8, <2>3 DEF WriteRun
    <3> QED
      BY <1>1, <1>3, <2>1, <2>2, <3>1
  <2>4. CASE Len(directory) < Len(ranges)
    <3> DEFINE m == Len(directory)  r == ranges[m + 1]  s == Slot(Run(row), r)
               bytes == SlotBytes(s)
    <3>1. directory' = Append(directory, s) /\ pos' = pos + bytes /\ row' = RunEnd(row)
      BY <1>8, <2>4 DEF WriteRun
    <3>2. IsSequence(directory) /\ m \in Nat /\ m + 1 \in 1..Len(ranges)
      BY <2>4 DEF WalkInv, IsSequence
    <3>3. ShapeTyped /\ interned \in BOOLEAN /\ value_stride # 0 /\ r.width \in Nat
      BY <2>1, <3>2 DEF TypesInv, RangesInv, RangesTyped
    <3>4. Describes(s, r, row + 1)
      BY <1>2, <2>1, <3>3, SlotDescribes
    <3>5. row + 1 \in 1..Len(Rows) /\ (row + 1) - 1 = row
      BY <1>2, <2>1
    <3>6. s.entry.offset = pos
      BY DEF Slot
    <3>7. s.entry.count = RunEnd(row) - row
      BY <3>4, <3>5 DEF Describes
    <3> HIDE DEF s, r
    <3>8. bytes \in Nat \ {0} /\ s.entry.count \in Nat \ {0} /\ s.entry.count <= bytes
      BY <3>3, <3>4, <3>5, SlotSize
    <3>9. RunEnd(row) \in (row + 1)..Len(Rows)
      BY <1>2, <2>1, RowsAreCounted, RunEndIs
    <3> HIDE DEF bytes, m
    <3>10. pos <= pos' /\ row' <= pos' /\ Sizes.header <= pos'
      BY <1>1, <1>2, <2>2, <3>1, <3>7, <3>8, <3>9
    <3>11. /\ Len(directory') = m + 1 /\ directory'[m + 1] = s
           /\ \A i \in 1..m : directory'[i] = directory[i]
      BY <3>1, <3>2, AppendAny DEF m
    <3>12. ASSUME NEW i \in 1..(m + 1) PROVE Sizes.header <= directory'[i].entry.offset
      <4>1. i = m + 1 \/ i \in 1..m
        BY <3>2
      <4>2. i \in 1..m => Sizes.header <= directory[i].entry.offset
        BY DEF RoomInv, m
      <4> QED
        BY <2>2, <3>6, <3>11, <4>1, <4>2
    <3>13. ASSUME NEW n \in 1..Len(dicts) PROVE EntryPlaced(dicts[n].entry, pos')
      <4>1. EntryPlaced(dicts[n].entry, pos)
        BY DEF RoomInv
      <4> DEFINE a == dicts[n].entry.offset  b == dicts[n].entry.size
      <4>2. a \in Nat /\ b \in Nat /\ Sizes.header <= a /\ a + b <= pos
        BY <4>1 DEF EntryPlaced
      <4> HIDE DEF a, b
      <4>3. a + b <= pos'
        BY <1>1, <3>10, <4>2
      <4> QED
        BY <4>2, <4>3 DEF EntryPlaced, a, b
    <3> QED
      BY <2>1, <3>10, <3>11, <3>12, <3>13 DEF RoomInv, EntryPlaced
  <2> QED
    BY <2>3, <2>4
<1>9. CASE EndRecords
  <2>1. UNCHANGED <<dicts, directory, row>> /\ pos' = Padded(pos) /\ wpc = "records"
    BY <1>9 DEF EndRecords
  <2>2. pos <= pos' /\ Sizes.header <= pos /\ row <= pos
    BY <1>1, <2>1, PaddedNat DEF RoomInv
  <2>3. Sizes.header <= pos' /\ row' <= pos'
    BY <1>1, <1>2, <2>1, <2>2
  <2> QED
    BY <1>3, <2>1, <2>2, <2>3
<1>10. CASE WriteDirectory
  <2>1. UNCHANGED <<dicts, directory, row>> /\ wpc = "directory"
    BY <1>10 DEF WriteDirectory
  <2>2. pos <= pos'
    BY <1>10, ImageSizeNat
  <2>3. Sizes.header <= pos /\ row <= pos
    BY <2>1 DEF RoomInv
  <2>4. Sizes.header <= pos' /\ row' <= pos'
    BY <1>1, <1>2, <2>1, <2>2, <2>3
  <2> QED
    BY <1>3, <2>1, <2>2, <2>4
<1>11. CASE SinkFails \/ UNCHANGED vars
  <2>1. UNCHANGED <<dicts, directory, row, pos>>
        /\ (wpc \in {"off", "measure"} => wpc' \in {"off", "measure"})
    BY <1>11 DEF SinkFails, vars, writer_vars, output_vars
  <2>2. pos <= pos'
    BY <1>1, <2>1
  <2>3. wpc' \notin {"off", "measure"} => Sizes.header <= pos' /\ row' <= pos'
    BY <2>1 DEF RoomInv
  <2> QED
    BY <1>3, <2>1, <2>2, <2>3
<1> QED
  BY <1>4, <1>5, <1>6, <1>7, <1>8, <1>9, <1>10, <1>11 DEF Next, Writing

----------------------------------------------------------------------------
(* What write_image puts in the dictionaries.                              *)

(* The dictionary of a text field: its header, its size, and an offset for *)
(* every text and for the end.                                             *)
TextDictAs(f, d) ==
    /\ d.content.mark = "mmpack" /\ d.content.type = "blob"
    /\ d.content.count = Len(texts[f]) /\ d.content.payload = TextBytes(f)
    /\ d.entry.size = DictHeaderSize + (Len(texts[f]) + 1) * RemapEntrySize + TextBytes(f)
    /\ \A n \in 0..Len(texts[f]) : d.content.offsets[n] = uint32(BytesOf(texts[f], n))

(* The value dictionary.                                                   *)
FixedDictAs(d) ==
    /\ d.content.mark = "mmpack" /\ d.content.type = "fixed"
    /\ d.content.count = tuple_count /\ d.content.payload = value_stride
    /\ d.entry.size = FixedSize

HeadersInv ==
    /\ \A f \in TextFields : text_slot(f) < Len(dicts) => TextDictAs(f, dicts[text_slot(f) + 1])
    /\ wpc \in {"records", "directory", "written"} /\ interned =>
          FixedDictAs(dicts[TextCount + 1])

(* What a text dictionary is written with.                                 *)
LEMMA TextDictIs ==
    ASSUME TypeOK, NEW f \in TextFields, NEW d,
           d.content = BlobDict(f), d.entry.size = serialized_size(f)
    PROVE  TextDictAs(f, d)
<1>1. blob_size(f) = TextBytes(f) /\ Len(texts[f]) \in Nat
  BY BlobSizeIs, TextsTyped
<1>2. BlobDict(f) = [mark |-> "mmpack", type |-> "blob", count |-> Len(texts[f]),
                     payload |-> blob_size(f),
                     offsets |-> [n \in 0..Len(texts[f]) |-> uint32(SumOver(f, 1..n))],
                     texts |-> texts[f]]
  BY DEF BlobDict, SumOver
<1>3. \A n \in 0..Len(texts[f]) : BlobDict(f).offsets[n] = uint32(SumOver(f, 1..n))
  BY <1>2
<1>4. \A n \in 0..Len(texts[f]) : BlobDict(f).offsets[n] = uint32(BytesOf(texts[f], n))
  BY <1>1, <1>3, SumOfTexts
<1>5. /\ BlobDict(f).mark = "mmpack" /\ BlobDict(f).type = "blob"
      /\ BlobDict(f).count = Len(texts[f]) /\ BlobDict(f).payload = TextBytes(f)
  BY <1>1, <1>2
<1> QED
  BY <1>1, <1>4, <1>5 DEF TextDictAs, serialized_size

(* Every step keeps the headers.                                           *)
LEMMA NextHeaders ==
    TypeOK /\ WalkInv /\ TypesInv /\ DictsInv /\ HeadersInv /\ [Next]_vars => HeadersInv'
<1> SUFFICES ASSUME TypeOK, WalkInv, TypesInv, DictsInv, HeadersInv, [Next]_vars
             PROVE  HeadersInv'
  OBVIOUS
<1>1. IsSequence(dicts) /\ Len(dicts) \in Nat /\ TextCount \in Nat /\ TextCount' = TextCount
  BY TextFieldsCounted DEF TypesInv, IsSequence, TextCount
<1>2. \A f : text_slot(f)' = text_slot(f)
  BY DEF text_slot
<1>3. ASSUME UNCHANGED texts, NEW f, text_slot(f) \in Nat,
             TextDictAs(f, dicts'[text_slot(f) + 1])
      PROVE  TextDictAs(f, dicts[text_slot(f) + 1])'
  BY <1>2, <1>3 DEF TextDictAs, TextBytes, uint32
<1>4. ASSUME UNCHANGED <<tuples, shape>>, FixedDictAs(dicts'[TextCount + 1])
      PROVE  FixedDictAs(dicts[TextCount + 1])'
  BY <1>1, <1>4
     DEF FixedDictAs, FixedSize, tuple_count, value_stride, fixed_dictionary_size
<1>5. ASSUME dicts' = <<>>, wpc' \notin {"records", "directory", "written"} PROVE HeadersInv'
  <2>1. Len(dicts') = 0 /\ \A f \in TextFields : text_slot(f) \in Nat
    BY <1>5, TextSlots
  <2> QED
    BY <1>2, <1>5, <2>1 DEF HeadersInv
<1>6. ASSUME UNCHANGED <<dicts, texts, tuples, shape, interned>>,
             wpc' \in {"records", "directory", "written"} =>
                wpc \in {"records", "directory", "written"}
      PROVE  HeadersInv'
  <2>1. ASSUME NEW f \in TextFields, text_slot(f) < Len(dicts)
        PROVE  TextDictAs(f, dicts[text_slot(f) + 1])'
    <3>1. TextDictAs(f, dicts'[text_slot(f) + 1]) /\ text_slot(f) \in Nat
      BY <1>6, <2>1, TextSlots DEF HeadersInv
    <3> QED
      BY <1>3, <1>6, <3>1
  <2>2. ASSUME wpc' \in {"records", "directory", "written"}, interned
        PROVE  FixedDictAs(dicts[TextCount + 1])'
    <3>1. FixedDictAs(dicts'[TextCount + 1])
      BY <1>6, <2>2 DEF HeadersInv
    <3> QED
      BY <1>4, <1>6, <3>1
  <2> QED
    BY <1>2, <1>6, <2>1, <2>2 DEF HeadersInv
<1>7. ASSUME texts' = texts,
             \A i \in 1..Len(dicts) : dicts'[i] = dicts[i],
             NEW f \in TextFields, text_slot(f) < Len(dicts)
      PROVE  TextDictAs(f, dicts[text_slot(f) + 1])'
  <2>1. text_slot(f) + 1 \in 1..Len(dicts)
    BY <1>1, <1>7, TextSlots
  <2>2. TextDictAs(f, dicts[text_slot(f) + 1])
    BY <1>7 DEF HeadersInv
  <2>3. dicts'[text_slot(f) + 1] = dicts[text_slot(f) + 1]
    BY <1>7, <2>1
  <2> QED
    BY <1>3, <1>7, <2>2, <2>3, TextSlots
<1>8. CASE Consume \/ StartLayout \/ MeasureRun \/ Price
  <2>1. dicts' = dicts /\ wpc \in {"off", "measure"}
        /\ wpc' \notin {"records", "directory", "written"}
    BY <1>8 DEF Consume, StartLayout, MeasureRun, Price, output_vars, writer_vars, WalkInv
  <2> QED
    BY <1>5, <2>1 DEF DictsInv
<1>9. CASE WriteTextDict
  <2> DEFINE g == CHOOSE x \in TextFields : text_slot(x) = Len(dicts)
             n == Len(dicts)  e == [entry |-> [offset |-> Padded(pos), size |-> serialized_size(g)],
                                    content |-> BlobDict(g)]
  <2>1. /\ wpc' = "dictionaries" /\ n < TextCount /\ dicts' = Append(dicts, e) /\ texts' = texts
    BY <1>9 DEF WriteTextDict, PlaceDict, TextCount, builder_vars, record
  <2>2. g \in TextFields
    BY <1>1, <2>1, NextTextField DEF TextCount
  <2>3. \A f \in TextFields : text_slot(f) = n => f = g
    BY TextSlots
  <2>4. e.content = BlobDict(g) /\ e.entry.size = serialized_size(g)
    OBVIOUS
  <2> HIDE DEF e, g
  <2>5. TextDictAs(g, e)
    BY <2>2, <2>4, TextDictIs
  <2>6. Len(dicts') = n + 1 /\ dicts'[n + 1] = e /\ \A i \in 1..n : dicts'[i] = dicts[i]
    BY <1>1, <2>1, AppendAny
  <2>7. ASSUME NEW f \in TextFields, text_slot(f) < n + 1
        PROVE  TextDictAs(f, dicts[text_slot(f) + 1])'
    <3>1. text_slot(f) \in Nat
      BY TextSlots
    <3>2. CASE text_slot(f) = n
      <4>1. TextDictAs(f, dicts'[text_slot(f) + 1])
        BY <2>3, <2>5, <2>6, <3>2
      <4> QED
        BY <1>3, <2>1, <3>1, <4>1
    <3>3. CASE text_slot(f) # n
      <4>1. text_slot(f) < n
        BY <1>1, <2>7, <3>1, <3>3
      <4> QED
        BY <1>1, <1>7, <2>1, <2>6, <4>1
    <3> QED
      BY <3>2, <3>3
  <2> QED
    BY <1>2, <2>1, <2>6, <2>7 DEF HeadersInv
<1>10. CASE EndDictionaries
  <2> DEFINE n == Len(dicts)
             e == [entry |-> [offset |-> Padded(pos), size |-> FixedSize], content |-> FixedDict]
  <2>1. /\ wpc = "dictionaries" /\ n = TextCount
        /\ UNCHANGED <<texts, tuples, shape, interned>>
    BY <1>10 DEF EndDictionaries, TextCount, builder_vars, store, record
  <2>2. CASE wpc' = "thrown" /\ UNCHANGED dicts
    BY <1>6, <2>1, <2>2
  <2>3. CASE ~interned /\ wpc' = "records" /\ UNCHANGED dicts
    <3>1. \A f \in TextFields : text_slot(f) < Len(dicts) => TextDictAs(f, dicts[text_slot(f) + 1])'
      BY <1>1, <1>7, <2>1, <2>3
    <3> QED
      BY <1>2, <2>1, <2>3, <3>1 DEF HeadersInv
  <2>4. CASE interned /\ wpc' = "records" /\ dicts' = Append(dicts, e)
    <3>1. FixedDictAs(e)
      BY DEF FixedDictAs, FixedDict
    <3> HIDE DEF e
    <3>2. Len(dicts') = n + 1 /\ dicts'[n + 1] = e /\ \A i \in 1..n : dicts'[i] = dicts[i]
      BY <1>1, <2>4, AppendAny
    <3>3. FixedDictAs(dicts[TextCount + 1])'
      <4>1. FixedDictAs(dicts'[TextCount + 1])
        BY <2>1, <3>1, <3>2
      <4> QED
        BY <1>4, <2>1, <4>1
    <3>4. \A f \in TextFields : TextDictAs(f, dicts[text_slot(f) + 1])'
      BY <1>1, <1>7, <2>1, <3>2, TextSlots DEF TextCount
    <3> QED
      BY <3>3, <3>4 DEF HeadersInv
  <2> QED
    BY <1>10, <2>2, <2>3, <2>4 DEF EndDictionaries, PlaceDict, FixedSize
<1>11. CASE WriteRun \/ EndRecords \/ WriteDirectory
  <2>1. /\ UNCHANGED <<dicts, texts, tuples, shape, interned>>
        /\ wpc \in {"records", "directory"}
    BY <1>11 DEF WriteRun, EndRecords, WriteDirectory, builder_vars, store, record
  <2> QED
    BY <1>6, <2>1
<1>12. CASE SinkFails \/ UNCHANGED vars
  <2>1. /\ UNCHANGED <<dicts, texts, tuples, shape, interned>>
        /\ wpc' = wpc \/ wpc' = "thrown"
    BY <1>12 DEF SinkFails, vars, writer_vars, output_vars, builder_vars, store, record
  <2> QED
    BY <1>6, <2>1
<1> QED
  BY <1>8, <1>9, <1>10, <1>11, <1>12 DEF Next, Writing

----------------------------------------------------------------------------
(* The frame of the file: header, schema block and footer.                 *)

SchemaBytes ==
    Sizes.schema_header + Cardinality(Fields) * Sizes.field_desc
      + Len(dicts) * Sizes.dict_entry + Cardinality(Fields) * Sizes.name

FrameAs(f) ==
    /\ f.head = "mmpack" /\ f.foot.mark = "mmpack"
    /\ f.foot.record_count = count /\ f.foot.image_size = f.length
    /\ f.foot.schema_offset = Padded(f.foot.dir_offset + f.foot.dir_count * DirStride(Widths))
    /\ f.foot.schema_size = SchemaBytes
    /\ f.length = f.foot.schema_offset + SchemaBytes + Sizes.footer
    /\ f.schema = Schema(Widths)

(* Everything written before the directory ends where the directory        *)
(* starts.                                                                 *)
BelowDirectory(at) ==
    /\ at \in Nat /\ Sizes.header <= at /\ Len(Rows) <= at
    /\ \A i \in 1..Len(directory) :
          /\ Sizes.header <= directory[i].entry.offset
          /\ directory[i].entry.offset + SlotBytes(directory[i]) <= at
    /\ \A n \in 1..Len(dicts) : EntryPlaced(dicts[n].entry, at)

FrameInv == file # None => FrameAs(file[1]) /\ BelowDirectory(file[1].foot.dir_offset)

(* Every step keeps the frame.                                             *)
LEMMA NextFrame ==
    TypeOK /\ FileInv /\ WalkInv /\ TypesInv /\ PlacesInv /\ RoomInv /\ FrameInv /\ [Next]_vars
    => FrameInv'
<1> SUFFICES ASSUME TypeOK, FileInv, WalkInv, TypesInv, PlacesInv, RoomInv, FrameInv, [Next]_vars
             PROVE  FrameInv'
  OBVIOUS
<1>1. ASSUME UNCHANGED <<count, mode, options, shape, interned, dicts, directory>>,
             FrameAs(file'[1])
      PROVE  FrameAs(file[1])'
  <2>1. Widths' = Widths
    BY <1>1, SameFile
  <2>2. SchemaBytes' = SchemaBytes
    BY <1>1 DEF SchemaBytes
  <2>3. Schema(Widths)' = Schema(Widths)
    BY <1>1, <2>1 DEF Schema, address_width, value_stride, ref_width, uint8
  <2> QED
    BY <1>1, <2>1, <2>2, <2>3 DEF FrameAs, Padded, DirStride, DirAt
<1>2. ASSUME UNCHANGED <<staging, dicts, directory>>, BelowDirectory(file'[1].foot.dir_offset)
      PROVE  BelowDirectory(file[1].foot.dir_offset)'
  BY <1>2 DEF BelowDirectory, EntryPlaced, SlotBytes, Rows
<1>3. CASE WriteDirectory
  <2> DEFINE f == file'[1]
  <2>1. UNCHANGED <<staging, count, mode, options, shape, interned, dicts, directory>>
        /\ wpc = "directory"
    BY <1>3 DEF WriteDirectory, builder_vars, world, store
  <2>2. FrameAs(f)
    BY <1>3 DEF WriteDirectory, FrameAs, SchemaBytes, Some, Widths, UsesDense
  <2>3. f.foot.dir_offset = pos
    BY <1>3 DEF WriteDirectory, Some
  <2>4. BelowDirectory(pos)
    BY <2>1 DEF BelowDirectory, PlacesInv, RoomInv, WalkInv
  <2>5. BelowDirectory(f.foot.dir_offset)
    BY <2>3, <2>4
  <2> QED
    BY <1>1, <1>2, <2>1, <2>2, <2>5 DEF FrameInv
<1>4. CASE UNCHANGED <<file, staging, count, mode, options, shape, interned, dicts, directory>>
  BY <1>1, <1>2, <1>4 DEF FrameInv
<1>5. CASE wpc # "written" /\ file' = file
  <2>1. file = None
    BY <1>5 DEF FileInv
  <2> QED
    BY <1>5, <2>1 DEF FrameInv
<1>6. CASE Consume
  <2>1. wpc = "off" /\ file' = file
    BY <1>6 DEF Consume, WalkInv, writer_vars
  <2> QED
    BY <1>5, <2>1
<1>7. CASE StartLayout \/ MeasureRun \/ Price \/ WriteTextDict \/ EndDictionaries \/ WriteRun
           \/ EndRecords \/ SinkFails
  BY <1>5, <1>7
     DEF StartLayout, MeasureRun, Price, WriteTextDict, EndDictionaries, WriteRun, EndRecords,
         SinkFails, output_vars
<1>8. CASE UNCHANGED vars
  BY <1>4, <1>8 DEF vars, writer_vars, output_vars, builder_vars, world, store
<1> QED
  BY <1>3, <1>6, <1>7, <1>8 DEF Next, Writing

----------------------------------------------------------------------------
(* A finished file passes every check.                                     *)

(* A written file that is no longer than a word can say, of addresses no   *)
(* wider than 8 bits can say.                                              *)
Laid ==
    /\ Finished
    /\ ShapeInv /\ DictsInv /\ ContentsInv
    /\ BlobInv /\ HeadersInv /\ FrameInv /\ CountInv

(* The parts of the file.                                                  *)
F == file[1]
DirOffset == F.foot.dir_offset
DirCount == F.foot.dir_count
SlotStride == DirStride(Widths)
SchemaOffset == F.foot.schema_offset

LEMMA LaidIs ==
    ASSUME Laid
    PROVE  /\ Finished /\ TypeOK /\ ShapeMeasured /\ options.align \in BOOLEAN
           /\ FrameAs(F) /\ BelowDirectory(DirOffset) /\ ContentsAs(F)
           /\ Len(dicts) = TextCount + (IF interned THEN 1 ELSE 0)
           /\ TextCount \in Nat /\ Len(dicts) \in Nat
           /\ interned => FixedDictAs(dicts[TextCount + 1])
           /\ \A f \in TextFields : TextDictAs(f, dicts[text_slot(f) + 1])
           /\ interned => tuple_count <= MaxDictEntries
           /\ count = Len(Rows) /\ F.length = pos /\ pos < WordSize
<1>1. Finished /\ TypeOK /\ wpc = "written" /\ pos < WordSize
  BY DEF Laid, Finished
<1>2. file # None /\ FileWritten /\ ShapeTyped /\ interned \in BOOLEAN
  BY <1>1, FinishedIs DEF Finished, FileInv
<1>3. options.align \in BOOLEAN
  BY <1>2, WriterAssumption DEF ShapeTyped
<1>4. TextCount \in Nat /\ Len(dicts) = TextCount + (IF interned THEN 1 ELSE 0)
  BY <1>1, TextFieldsCounted DEF Laid, DictsInv, TextCount
<1>5. ASSUME NEW f \in TextFields PROVE TextDictAs(f, dicts[text_slot(f) + 1])
  <2>1. text_slot(f) \in 0..(TextCount - 1)
    BY TextSlots DEF TextCount
  <2>2. text_slot(f) < Len(dicts)
    BY <1>2, <1>4, <2>1
  <2> QED
    BY <2>2 DEF Laid, HeadersInv
<1>6. interned => tuple_count <= MaxDictEntries
  BY <1>1 DEF Finished, SlotsInv
<1> QED
  BY <1>1, <1>2, <1>3, <1>4, <1>5, <1>6
     DEF Laid, ShapeInv, FrameInv, ContentsInv, HeadersInv, CountInv, F, DirOffset,
         FileWritten, WrittenAs

(* A product of sizes is a size.                                           *)
LEMMA ProductNat == \A x, y \in Nat : x * y \in Nat
OBVIOUS

(* The parts of the file follow each other.                                *)
LEMMA FileParts ==
    ASSUME Laid
    PROVE  /\ DirOffset \in Nat /\ Sizes.header <= DirOffset /\ Sizes.header \in Nat
           /\ DirCount = Cardinality(DOMAIN Out) /\ DirCount \in Nat
           /\ SlotStride \in Nat /\ DirCount * SlotStride \in Nat
           /\ SchemaOffset \in Nat /\ DirOffset + DirCount * SlotStride <= SchemaOffset
           /\ SchemaBytes \in Nat /\ Sizes.schema_header \in Nat
           /\ Sizes.schema_header <= SchemaBytes
           /\ F.foot.schema_size = SchemaBytes
           /\ F.length = SchemaOffset + SchemaBytes + Sizes.footer
           /\ F.length \in Nat /\ F.length < WordSize
           /\ Sizes.footer \in Nat /\ WordBytes <= Sizes.footer /\ WordBytes \in Nat
<1>1. FrameAs(F) /\ BelowDirectory(DirOffset) /\ Finished /\ F.length = pos /\ pos < WordSize
  BY LaidIs
<1>2. DirOffset \in Nat /\ Sizes.header <= DirOffset
  BY <1>1 DEF BelowDirectory
<1>3. DirCount = Cardinality(DOMAIN Out) /\ DirCount \in Nat
  BY <1>1, SlotsOfFile, FinishedIs DEF FileWritten, WrittenAs, DirCount, F
<1>4. SlotStride \in Nat
  BY StrideNat DEF SlotStride, Widths
<1>5. DirCount * SlotStride \in Nat
  BY <1>3, <1>4, ProductNat
<1> DEFINE used == DirCount * SlotStride
<1> HIDE DEF used
<1>6. DirOffset + used \in Nat
  BY <1>2, <1>5 DEF used
<1>7. SchemaOffset = Padded(DirOffset + used)
  BY <1>1 DEF FrameAs, SchemaOffset, DirOffset, DirCount, SlotStride, used
<1>8. SchemaOffset \in Nat /\ DirOffset + used <= SchemaOffset
  BY <1>6, <1>7, PaddedNat
<1>9. /\ Sizes.header \in Nat /\ Sizes.schema_header \in Nat /\ Sizes.field_desc \in Nat
      /\ Sizes.dict_entry \in Nat /\ Sizes.name \in Nat /\ Sizes.footer \in Nat
      /\ WordBytes <= Sizes.footer /\ WordBytes \in Nat
  BY FormatAssumption, WeightNat
<1>10. SchemaBytes \in Nat /\ Sizes.schema_header <= SchemaBytes
  <2> DEFINE a == Cardinality(Fields) * Sizes.field_desc  b == Len(dicts) * Sizes.dict_entry
             c == Cardinality(Fields) * Sizes.name
  <2>1. Cardinality(Fields) \in Nat /\ Len(dicts) \in Nat
    BY FieldIds, LaidIs
  <2>2. a \in Nat /\ b \in Nat /\ c \in Nat
    BY <1>9, <2>1, ProductNat
  <2>3. SchemaBytes = Sizes.schema_header + a + b + c
    BY DEF SchemaBytes
  <2> HIDE DEF a, b, c
  <2> QED
    BY <1>9, <2>2, <2>3
<1>11. F.foot.schema_size = SchemaBytes /\ F.length = SchemaOffset + SchemaBytes + Sizes.footer
  BY <1>1 DEF FrameAs, SchemaOffset
<1>12. F.length \in Nat
  BY <1>8, <1>9, <1>10, <1>11
<1> QED
  BY <1>1, <1>2, <1>3, <1>4, <1>5, <1>8, <1>9, <1>10, <1>11, <1>12 DEF used

(* The length and the frame.                                               *)
LEMMA FramePasses ==
    ASSUME Laid
    PROVE  /\ F.length >= Sizes.header + Sizes.footer
           /\ F.head = "mmpack" /\ F.foot.mark = "mmpack" /\ F.foot.image_size = F.length
           /\ Open!SchemaBlockInside
<1> DEFINE used == DirCount * SlotStride
<1>1. /\ DirOffset \in Nat /\ Sizes.header <= DirOffset /\ Sizes.header \in Nat
      /\ used \in Nat /\ SchemaOffset \in Nat /\ DirOffset + used <= SchemaOffset
      /\ SchemaBytes \in Nat /\ Sizes.schema_header \in Nat
      /\ Sizes.schema_header <= SchemaBytes /\ F.foot.schema_size = SchemaBytes
      /\ F.length = SchemaOffset + SchemaBytes + Sizes.footer /\ Sizes.footer \in Nat
  BY FileParts
<1> HIDE DEF used
<1>2. F.length >= Sizes.header + Sizes.footer
  BY <1>1
<1>3. F.head = "mmpack" /\ F.foot.mark = "mmpack" /\ F.foot.image_size = F.length
  BY LaidIs DEF FrameAs
<1>4. F.length - Sizes.footer = SchemaOffset + SchemaBytes
  BY <1>1
<1>5. /\ SchemaOffset <= F.length - Sizes.footer
      /\ SchemaBytes <= (F.length - Sizes.footer) - SchemaOffset
  BY <1>1, <1>4
<1>6. Open!SchemaBlockInside
  BY <1>1, <1>5 DEF Open!SchemaBlockInside, Open!foot, Open!tail, F, SchemaOffset
<1> QED
  BY <1>2, <1>3, <1>6

(* The widths of the directory.                                            *)
LEMMA WidthsAre ==
    /\ Widths.offset \in NaturalWidths /\ Widths.count \in NaturalWidths
    /\ Widths.partition = 0 \/ Widths.partition \in NaturalWidths
    /\ Widths.remap_count = 0 \/ Widths.remap_count \in NaturalWidths
    /\ Widths.schema_id = IF Widths.remap_count # 0 THEN 1 ELSE 0
    /\ Widths.width \in {0, 1} /\ Widths.skip \in {0, 1}
    /\ (Widths.partition = 0) <=> UsesDense
    /\ directory_layout(Schema(Widths)) = Widths
<1>1. NaturalWidths \subseteq 1..WordBytes /\ 0 \notin NaturalWidths
  BY WordAssumption
<1>2. \A v : width_for(v) \in NaturalWidths
  BY WidthRange
<1>3. /\ Widths.offset \in NaturalWidths /\ Widths.count \in NaturalWidths
      /\ Widths.partition = 0 \/ Widths.partition \in NaturalWidths
      /\ Widths.width \in {0, 1} /\ Widths.skip \in {0, 1}
      /\ (Widths.partition = 0) <=> UsesDense
  BY <1>1, <1>2 DEF Widths, DirWidths, make_dir_layout
<1>4. /\ Widths.remap_count = 0 \/ Widths.remap_count \in NaturalWidths
      /\ Widths.schema_id = IF Widths.remap_count # 0 THEN 1 ELSE 0
  BY <1>1, <1>2 DEF Widths, DirWidths, make_dir_layout
<1>5. Widths = [partition |-> Widths.partition, offset |-> Widths.offset,
                count |-> Widths.count, schema_id |-> Widths.schema_id,
                remap_count |-> Widths.remap_count, width |-> Widths.width,
                skip |-> Widths.skip]
  BY DEF Widths, DirWidths, make_dir_layout
<1>6. Schema(Widths).dir = Widths
  BY DEF Schema
<1>7. directory_layout(Schema(Widths)) = Widths
  BY <1>4, <1>5, <1>6 DEF directory_layout, make_dir_layout
<1> QED
  BY <1>3, <1>4, <1>7

(* The address of a finished build has a width, and a tuple a stride.      *)
LEMMA StridesAre ==
    ASSUME Laid
    PROVE  /\ address_width \in Nat \ {0} /\ uint8(address_width) = address_width
           /\ value_stride \in Nat \ {0}
           /\ ref_width \in NaturalWidths /\ ref_width \in 1..WordBytes
           /\ F.schema.address_width = address_width
           /\ F.schema.record_stride = address_width + Payload /\ Payload \in Nat \ {0}
           /\ interned \in BOOLEAN
<1>1. Finished /\ ShapeMeasured /\ FrameAs(F)
  BY LaidIs
<1>2. /\ ShapeTyped /\ value_stride # 0 /\ address_width \in Nat
      /\ address_width < Sizes.uint8 /\ interned \in BOOLEAN
      /\ ~wide => address_width <= WordBytes
  BY <1>1, FinishedIs
<1>3. ref_width \in 1..WordBytes /\ value_stride \in Nat \ {0}
  BY <1>2 DEF ShapeTyped
<1>4. ref_width \in NaturalWidths
  BY <1>1, WidthRange DEF ShapeMeasured
<1>5. address_width # 0
  <2>1. address_width = AddressWidth /\ wpc = "written" /\ TypeOK /\ StagedInv
    BY <1>1 DEF Finished, RangesInv
  <2>2. CASE ~wide
    BY <2>1, <2>2, WidthRange DEF AddressWidth
  <2>3. CASE wide
    <3>1. address_width = Len(pending_address) /\ pending_address # <<>>
      BY <2>1, <2>3 DEF AddressWidth, StagedInv, wide
    <3>2. pending_address \in Seq(Byte)
      BY <2>1 DEF TypeOK
    <3> QED
      BY <3>1, <3>2
  <2> QED
    BY <2>2, <2>3
<1>6. uint8(address_width) = address_width
  BY <1>2, Uint8Same
<1>7. F.schema.address_width = address_width /\ F.schema.record_stride = address_width + Payload
  BY <1>1, <1>6 DEF FrameAs, Schema, Payload
<1>8. Payload \in Nat \ {0}
  BY <1>2, <1>3, WeightNat DEF Payload
<1> QED
  BY <1>2, <1>3, <1>4, <1>5, <1>6, <1>7, <1>8

(* The header of the schema block.                                         *)
LEMMA SchemaPasses ==
    ASSUME Laid
    PROVE  Open!SchemaHeaderOk
<1>1. FrameAs(F) /\ Len(dicts) = TextCount + (IF interned THEN 1 ELSE 0) /\ TextCount \in Nat
  BY LaidIs
<1>2. F.schema = Schema(Widths) /\ F.foot.schema_size = SchemaBytes
  BY <1>1 DEF FrameAs
<1>3. /\ address_width \in Nat \ {0} /\ value_stride \in Nat \ {0}
      /\ ref_width \in NaturalWidths /\ ref_width \in 1..WordBytes
      /\ F.schema.address_width = address_width
      /\ F.schema.record_stride = address_width + Payload
      /\ interned \in BOOLEAN
  BY StridesAre
<1>4. /\ F.schema.mark = "mmpack" /\ F.schema.dir = Widths
      /\ F.schema.mode = IF interned THEN "interned" ELSE "inline"
      /\ F.schema.value_stride = value_stride
      /\ F.schema.ref_width = IF interned THEN ref_width ELSE 0
      /\ F.schema.value_dict = IF interned THEN TextCount ELSE 0
      /\ F.schema.dict_count = Len(dicts)
      /\ F.schema.field_count = Cardinality(Fields)
      /\ F.schema.name_bytes = Cardinality(Fields) * Sizes.name
      /\ F.schema.address_span = IF mode \in {"explicit", "explicit_wide"} THEN 0 ELSE AddressSpan
  BY <1>2 DEF Schema, TextCount
<1>5. Open!SchemaEnd - SchemaOffset = SchemaBytes
  <2> DEFINE a == Cardinality(Fields) * Sizes.field_desc  b == Len(dicts) * Sizes.dict_entry
             c == Cardinality(Fields) * Sizes.name
  <2>1. Open!SchemaEnd = SchemaOffset + Sizes.schema_header + a + b + c
    BY <1>4 DEF Open!SchemaEnd, Open!NamesAt, Open!DictsAt, Open!FieldsAt, Open!foot,
                Open!schema, F, SchemaOffset
  <2>2. SchemaBytes = Sizes.schema_header + a + b + c
    BY DEF SchemaBytes
  <2>3. SchemaOffset \in Nat /\ Sizes.schema_header \in Nat
    BY FileParts
  <2>4. Sizes.field_desc \in Nat /\ Sizes.dict_entry \in Nat /\ Sizes.name \in Nat
        /\ Cardinality(Fields) \in Nat /\ Len(dicts) \in Nat
    BY FieldIds, LaidIs, FormatAssumption
  <2>5. a \in Nat /\ b \in Nat /\ c \in Nat
    BY <2>4, ProductNat
  <2> HIDE DEF a, b, c
  <2> QED
    BY <2>1, <2>2, <2>3, <2>5
<1>6. Open!SchemaEnd - F.foot.schema_offset <= F.foot.schema_size
  <2>1. SchemaBytes \in Nat
    BY FileParts
  <2> QED
    BY <1>2, <1>5, <2>1 DEF SchemaOffset
<1>7. F.schema.address_span <= WordSize
  BY <1>4, BuilderAssumption, WeightNat
<1>8. /\ Open!ValidOrAbsent(F.schema.dir.partition) /\ Open!ValidOrAbsent(F.schema.dir.remap_count)
      /\ Open!is_valid_width(F.schema.dir.offset) /\ Open!is_valid_width(F.schema.dir.count)
      /\ F.schema.dir.width <= 1 /\ F.schema.dir.skip <= 1
  <2>1. Widths.width \in {0, 1} /\ Widths.skip \in {0, 1}
    BY WidthsAre
  <2>2. Widths.width <= 1 /\ Widths.skip <= 1
    BY <2>1
  <2> QED
    BY <1>4, <2>2, WidthsAre DEF Open!ValidOrAbsent, Open!is_valid_width
<1>9. Open!is_interned(F) <=> interned
  BY <1>4 DEF Open!is_interned
<1>10. interned => Open!is_valid_width(F.schema.ref_width) /\ F.schema.value_dict < F.schema.dict_count
  BY <1>1, <1>3, <1>4 DEF Open!is_valid_width
<1>11. F.schema.record_stride >= Open!RecordMinimum
  <2>1. Open!RecordMinimum = address_width + Payload
    BY <1>3, <1>4, <1>9 DEF Open!RecordMinimum, Open!schema, F, Payload
  <2>2. Payload \in Nat
    BY StridesAre
  <2> QED
    BY <1>3, <2>1, <2>2
<1>12. F.schema.value_stride # 0 /\ F.schema.address_width # 0
       /\ F.schema.mode \in {"inline", "interned"}
  BY <1>3, <1>4
<1>13. Open!schema = F.schema /\ Open!foot = F.foot /\ file[1] = F
  BY DEF Open!schema, Open!foot, F
<1>14. F.schema.mark = "mmpack"
  BY <1>4
<1>15. Open!is_interned(F) => Open!is_valid_width(F.schema.ref_width)
                              /\ F.schema.value_dict < F.schema.dict_count
  BY <1>9, <1>10
<1> QED
  BY <1>6, <1>7, <1>8, <1>11, <1>12, <1>13, <1>14, <1>15
     DEF Open!SchemaHeaderOk, Open!WordSize, WordSize

(* The index in a text field's descriptor is that of a text dictionary:    *)
(* its own while it fits 16 bits, another one's after.                     *)
LEMMA DictIndexRange ==
    ASSUME NEW f \in TextFields
    PROVE  uint16(text_slot(f)) \in 0..(TextCount - 1)
<1>1. text_slot(f) \in 0..(TextCount - 1) /\ TextCount \in Nat
  BY TextSlots, TextFieldsCounted DEF TextCount
<1>2. uint16(text_slot(f)) \in 0..text_slot(f)
  BY <1>1, Uint16Index
<1> QED
  BY <1>1, <1>2

(* Every field has a width of its kind and lies in the tuple, and its name *)
(* in the name blob.                                                       *)
LEMMA FieldsPass ==
    ASSUME Laid, NEW f \in 0..(F.schema.field_count - 1)
    PROVE  Open!FieldOk(F.schema.fields[f])
<1>1. FrameAs(F) /\ ContentsAs(F) /\ ShapeMeasured /\ options.align \in BOOLEAN
      /\ Len(dicts) = TextCount + (IF interned THEN 1 ELSE 0) /\ TextCount \in Nat
  BY LaidIs
<1>2. F.schema = Schema(Widths)
  BY <1>1 DEF FrameAs
<1>3. /\ F.schema.field_count = Cardinality(Fields) /\ F.schema.fields = shape.descs
      /\ F.schema.value_stride = value_stride /\ F.schema.dict_count = Len(dicts)
      /\ F.schema.name_bytes = Cardinality(Fields) * Sizes.name
      /\ F.schema.nuls = {g * Sizes.name + Sizes.name - 1 : g \in Fields}
  BY <1>2 DEF Schema
<1>4. f \in Fields /\ Cardinality(Fields) \in Nat \ {0} /\ f \in Nat /\ f < Cardinality(Fields)
  BY <1>3, FieldIds
<1> DEFINE d == F.schema.fields[f]
<1>5. d = Desc(f, Offsets[f])
  BY <1>1, <1>3, <1>4 DEF ShapeMeasured
<1>6. /\ d.kind = FieldKind[f] /\ d.width = FieldWidth(f) /\ d.offset = Offsets[f]
      /\ d.name_offset = f * Sizes.name
      /\ d.dict_index = IF f \in TextFields THEN uint16(text_slot(f)) ELSE 0
  BY <1>5 DEF Desc
<1> HIDE DEF d
<1>7. FieldKind[f] \in {"uint", "sint", "f32", "f64", "bytes", "text"}
      /\ RawWidth[f] \in 0..WordBytes
  BY <1>4, BuilderAssumption
<1>8. Open!WidthFits(d)
  <2>1. CASE FieldKind[f] \in {"uint", "sint", "text"}
    <3>1. FieldWidth(f) \in NaturalWidths
      BY <2>1, WidthRange DEF FieldWidth
    <3> QED
      BY <1>6, <2>1, <3>1 DEF Open!WidthFits, Open!is_valid_width
  <2>2. CASE FieldKind[f] = "f32"
    <3>1. FieldWidth(f) = Sizes.f32
      BY <1>4, <2>2, WriterAssumption DEF FieldWidth
    <3> QED
      BY <1>6, <2>2, <3>1 DEF Open!WidthFits
  <2>3. CASE FieldKind[f] = "f64"
    <3>1. FieldWidth(f) = Sizes.f64
      BY <1>4, <2>3, WriterAssumption DEF FieldWidth
    <3> QED
      BY <1>6, <2>3, <3>1 DEF Open!WidthFits
  <2>4. CASE FieldKind[f] = "bytes"
    <3>1. FieldWidth(f) \in 1..WordBytes
      BY <1>4, FieldWidthRange
    <3> QED
      BY <1>6, <2>4, <3>1 DEF Open!WidthFits
  <2> QED
    BY <1>7, <2>1, <2>2, <2>3, <2>4
<1>9. d.kind \in {"uint", "sint", "text", "f32", "f64", "bytes"}
  BY <1>6, <1>7
<1>10. d.offset <= value_stride /\ d.width <= value_stride - d.offset
  <2>1. /\ Offsets \in [Fields -> Nat] /\ LastField \in Fields
        /\ FieldWidth(f) \in Nat /\ FieldWidth(LastField) \in Nat
    <3>1. LastField \in Fields
      BY FieldIds DEF LastField
    <3>2. Offsets \in [Fields -> Nat]
      BY <1>1, OffsetsFollow DEF Offsets
    <3> QED
      BY <1>4, <3>1, <3>2, FieldWidthRange, WeightNat
  <2>2. value_stride = Offsets[LastField] + FieldWidth(LastField)
    BY <1>1 DEF ShapeMeasured
  <2>3. f = LastField \/ f < LastField
    BY <1>4, FieldIds DEF LastField
  <2>4. f < LastField => Offsets[f] + FieldWidth(f) <= Offsets[LastField]
    BY <1>1, <1>4, <2>1, FieldsApart DEF Offsets
  <2> DEFINE o == Offsets[f]  w == FieldWidth(f)  p == Offsets[LastField]
             q == FieldWidth(LastField)
  <2>5. o \in Nat /\ w \in Nat /\ p \in Nat /\ q \in Nat /\ value_stride = p + q
    BY <1>4, <2>1, <2>2
  <2>6. (o = p /\ w = q) \/ o + w <= p
    BY <2>3, <2>4
  <2>7. d.offset = o /\ d.width = w
    BY <1>6
  <2> HIDE DEF o, w, p, q
  <2> QED
    BY <2>5, <2>6, <2>7
<1>11. d.kind = "text" => d.dict_index < Len(dicts)
  <2> SUFFICES ASSUME d.kind = "text" PROVE d.dict_index < Len(dicts)
    OBVIOUS
  <2>1. f \in TextFields
    BY <1>4, <1>6 DEF TextFields
  <2>2. d.dict_index \in 0..(TextCount - 1)
    BY <1>6, <2>1, DictIndexRange
  <2> QED
    BY <1>1, <2>2
<1>12. /\ d.name_offset < F.schema.name_bytes
       /\ \E n \in d.name_offset..(F.schema.name_bytes - 1) : n \in F.schema.nuls
  <2> DEFINE c == Cardinality(Fields)  z == Sizes.name  x == f * z  y == c * z  n == x + z - 1
  <2>1. z \in Nat \ {0} /\ c \in Nat
    BY <1>4, FormatAssumption
  <2>2. (f + 1) * z <= y
    BY <1>4, <2>1, TimesAtLeast
  <2>3. (f + 1) * z = x + z /\ x \in Nat /\ y \in Nat
    <3>1. (f + 1) * z = f * z + 1 * z
      BY <1>4, <2>1, Distributes
    <3> QED
      BY <1>4, <2>1, <3>1, ProductNat
  <2>4. n \in F.schema.nuls
    BY <1>3, <1>4
  <2>5. d.name_offset = x /\ F.schema.name_bytes = y
    BY <1>3, <1>6
  <2> HIDE DEF x, y, z, c
  <2>6. x < y /\ n \in x..(y - 1)
    BY <2>1, <2>2, <2>3
  <2> QED
    BY <2>4, <2>5, <2>6
<1> QED
  BY <1>3, <1>8, <1>9, <1>10, <1>11, <1>12
     DEF Open!FieldOk, Open!Kinds, Open!schema, F, d

(* The reader's operators are those of the model.                          *)
LEMMA ReaderOperators ==
    /\ Open!WordSize = WordSize
    /\ \A f : Open!is_interned(f) <=> is_interned(f)
    /\ \A f : Open!value_part(f) = value_part(f)
    /\ \A f, d : Open!layout_of(f, d) = layout_of(f, d)
    /\ \A f, s : Open!dir_slot(f, s) = dir_slot(f, s)
    /\ \A w : Open!DirStride(w) = DirStride(w)
    /\ \A w : Open!directory_layout(w) = directory_layout(w)
    /\ \A a, b : Open!Plus(a, b) = Plus(a, b) /\ Open!Times(a, b) = Times(a, b)
<1>1. Open!WordSize = WordSize
  BY DEF Open!WordSize, WordSize
<1>2. \A f : Open!is_interned(f) <=> is_interned(f)
  BY DEF Open!is_interned, is_interned
<1>3. \A f : Open!value_part(f) = value_part(f)
  BY DEF Open!value_part, value_part
<1>4. \A f, d : Open!layout_of(f, d) = layout_of(f, d)
  BY <1>3 DEF Open!layout_of, layout_of
<1>5. \A w : Open!directory_layout(w) = directory_layout(w)
  BY DEF Open!directory_layout, directory_layout, Open!make_dir_layout, make_dir_layout
<1>6. \A f, s : Open!dir_slot(f, s) = dir_slot(f, s)
  BY <1>5 DEF Open!dir_slot, dir_slot, Open!decode_dir_entry, decode_dir_entry, Open!store_uint,
              store_uint, Open!uint32, uint32
<1>7. \A w : Open!DirStride(w) = DirStride(w)
  BY DEF Open!DirStride, DirStride, Open!DirAt, DirAt
<1>8. \A a, b : Open!Plus(a, b) = Plus(a, b) /\ Open!Times(a, b) = Times(a, b)
  BY <1>1 DEF Open!Plus, Plus, Open!Times, Times
<1> QED
  BY <1>1, <1>2, <1>3, <1>4, <1>5, <1>6, <1>7, <1>8

(* What divides into a place fits it.                                      *)
LEMMA FitsQuotient ==
    ASSUME NEW n \in Nat, NEW s \in Nat \ {0}, NEW room \in Nat, n * s <= room
    PROVE  n <= room \div s
<1> DEFINE q == room \div s  r == room % s
<1>1. q \in Nat /\ r \in Nat /\ r < s /\ room = q * s + r
  BY Quotient
<1> HIDE DEF q, r
<1>2. ASSUME q + 1 <= n PROVE FALSE
  <2>1. (q + 1) * s <= n * s /\ (q + 1) * s = q * s + 1 * s
    BY <1>1, <1>2, TimesAtLeast, Distributes
  <2> DEFINE a == q * s  b == n * s
  <2>2. a \in Nat /\ b \in Nat
    BY <1>1, ProductNat
  <2>3. a + s <= b /\ b <= room /\ room = a + r
    BY <1>1, <2>1
  <2> HIDE DEF a, b
  <2> QED
    BY <1>1, <2>2, <2>3
<1>3. n <= q
  BY <1>1, <1>2
<1> QED
  BY <1>3 DEF q

(* A slot of the directory is at least a byte.                             *)
LEMMA StrideIsPositive == SlotStride \in Nat \ {0}
<1>1. NaturalWidths \subseteq 1..WordBytes /\ WordBytes \in Nat
  BY WordAssumption
<1>2. \A v : v = 0 \/ v \in NaturalWidths => v \in 0..WordBytes
  <2> SUFFICES ASSUME NEW v, v = 0 \/ v \in NaturalWidths PROVE v \in 0..WordBytes
    OBVIOUS
  <2>1. CASE v = 0
    BY <1>1, <2>1
  <2>2. CASE v \in NaturalWidths
    <3>1. v \in 1..WordBytes
      BY <1>1, <2>2
    <3> QED
      BY <1>1, <3>1
  <2> QED
    BY <2>1, <2>2
<1>3. Widths.offset \in 1..WordBytes /\ Widths.count \in 1..WordBytes
  BY <1>1, WidthsAre
<1>4. Widths.partition \in 0..WordBytes
  <2>1. Widths.partition = 0 \/ Widths.partition \in NaturalWidths
    BY WidthsAre
  <2> QED
    BY <1>2, <2>1
<1>5. Widths.remap_count \in 0..WordBytes
  <2>1. Widths.remap_count = 0 \/ Widths.remap_count \in NaturalWidths
    BY WidthsAre
  <2> QED
    BY <1>2, <2>1
<1>6. Widths.schema_id \in {0, 1} /\ Widths.width \in {0, 1} /\ Widths.skip \in {0, 1}
  BY WidthsAre
<1>7. SlotStride = Widths.partition + Widths.offset + Widths.count + Widths.schema_id
                     + Widths.remap_count + Widths.width + Widths.skip
  BY DEF SlotStride, DirStride, DirAt
<1> QED
  BY <1>1, <1>3, <1>7, <1>4, <1>5, <1>6

(* The directory lies where the footer says, and a record is at least an   *)
(* address.                                                                *)
LEMMA GeometryPasses ==
    ASSUME Laid
    PROVE  /\ F.schema.record_stride # 0 /\ F.schema.record_stride >= F.schema.address_width
           /\ Open!has_key_mapping(F.schema) => Open!narrow_address(F.schema)
           /\ Open!DirStride(Open!dir) # 0
           /\ (Open!dir.partition = 0) = F.foot.dense
           /\ Open!DirectoryInside
<1>1. FrameAs(F) /\ Finished
  BY LaidIs
<1>2. /\ address_width \in Nat \ {0} /\ Payload \in Nat \ {0}
      /\ F.schema.record_stride = address_width + Payload
      /\ F.schema.address_width = address_width
  BY StridesAre
<1>3. F.schema.record_stride # 0 /\ F.schema.record_stride >= F.schema.address_width
  BY <1>2
<1>4. Open!has_key_mapping(F.schema) => Open!narrow_address(F.schema)
  <2>1. F.schema.address_span
           = IF mode \in {"explicit", "explicit_wide"} THEN 0 ELSE AddressSpan
    BY <1>1 DEF FrameAs, Schema
  <2>2. wide => mode = "explicit_wide"
    BY <1>1 DEF Finished, StagedInv, wide
  <2>3. ~wide => address_width <= WordBytes
    BY <1>1, FinishedIs
  <2> QED
    BY <1>2, <2>1, <2>2, <2>3 DEF Open!has_key_mapping, Open!narrow_address
<1>5. Open!dir = Widths
  <2>1. F.schema = Schema(Widths) /\ Open!dir = Open!directory_layout(F.schema)
    BY <1>1 DEF FrameAs, Open!dir, Open!schema, F
  <2> QED
    BY <2>1, ReaderOperators, WidthsAre
<1>6. Open!DirStride(Open!dir) = SlotStride /\ SlotStride \in Nat \ {0}
  BY <1>5, ReaderOperators, StrideIsPositive DEF SlotStride
<1>7. (Open!dir.partition = 0) = F.foot.dense
  <2>1. F.foot.dense = UsesDense /\ UsesDense \in BOOLEAN
    BY <1>1, FinishedIs, SlotsOfFile DEF FileWritten, WrittenAs, F
  <2> QED
    BY <1>5, <2>1, WidthsAre
<1>8. Open!DirectoryInside
  <2> DEFINE used == DirCount * SlotStride
  <2>1. /\ DirOffset \in Nat /\ Sizes.header <= DirOffset /\ Sizes.header \in Nat
        /\ DirCount \in Nat
        /\ used \in Nat /\ SchemaOffset \in Nat /\ DirOffset + used <= SchemaOffset
        /\ SchemaBytes \in Nat /\ Sizes.schema_header \in Nat
        /\ Sizes.schema_header <= SchemaBytes
        /\ F.length = SchemaOffset + SchemaBytes + Sizes.footer /\ Sizes.footer \in Nat
        /\ WordBytes <= Sizes.footer /\ WordBytes \in Nat
    BY FileParts
  <2> DEFINE room == (F.length - Sizes.footer) - DirOffset
  <2>2. used <= room /\ room \in Nat
    <3> HIDE DEF used
    <3> QED
      BY <2>1
  <2>3. DirOffset <= F.length - Sizes.footer /\ DirOffset + used + WordBytes <= F.length
    <3> HIDE DEF used
    <3> QED
      BY <2>1
  <2> HIDE DEF room
  <2>4. DirCount <= room \div SlotStride
    BY <1>6, <2>1, <2>2, FitsQuotient
  <2>5. /\ Open!tail = F.length - Sizes.footer /\ Open!foot.dir_offset = DirOffset
        /\ Open!foot.dir_count = DirCount /\ file[1].length = F.length
    BY DEF Open!tail, Open!foot, F, DirOffset, DirCount
  <2> QED
    BY <1>6, <2>1, <2>3, <2>4, <2>5 DEF Open!DirectoryInside, room
<1> QED
  BY <1>3, <1>4, <1>6, <1>7, <1>8

----------------------------------------------------------------------------
(* The slots.                                                              *)

(* A slot that was written says where its block is and how it is laid out, *)
(* and the block lies between the header and the directory.                *)
LEMMA BlockPlaced ==
    ASSUME Laid, NEW i \in 1..Len(directory)
    PROVE  LET d == directory[i]
               e == d.entry
           IN  /\ EntryTyped(e) /\ e.count \in Nat \ {0}
               /\ e.schema_id \in 0..MaxLocalWidth /\ (e.schema_id # 0 => interned)
               /\ d.block.stride \in Nat \ {0}
               /\ d.block.stride
                     = e.width + (IF e.schema_id # 0 THEN e.schema_id ELSE Payload)
               /\ e.offset \in Nat /\ Sizes.header <= e.offset
               /\ e.remap_count \in Nat /\ e.remap_count * RemapEntrySize \in Nat
               /\ e.count * d.block.stride \in Nat
               /\ SlotBytes(d) = e.remap_count * RemapEntrySize + e.count * d.block.stride
               /\ e.offset + SlotBytes(d) <= DirOffset
<1> DEFINE d == directory[i]  e == d.entry
<1>1. Finished /\ BelowDirectory(DirOffset)
  BY LaidIs
<1>2. PICK k \in 1..Len(Rows) : Describes(d, ranges[i], k) /\ Covers(ranges[i], Run(k - 1))
  BY <1>1, SlotOfRun
<1>3. EntryTyped(e) /\ e.count # 0
  BY <1>1, SlotFits
<1>4. d.block.stride \in Nat \ {0}
  BY <1>1, <1>2, FinishedIs, SlotSize DEF Finished, Covers
<1>5. e.count \in Nat /\ e.remap_count \in Nat /\ e.offset \in Nat
  BY <1>3, WeightNat DEF EntryTyped, Word
<1>6. RemapEntrySize \in Nat
  BY LayoutAssumption, WordAssumption
<1>7. e.remap_count * RemapEntrySize \in Nat /\ e.count * d.block.stride \in Nat
  BY <1>4, <1>5, <1>6, ProductNat
<1>8. Sizes.header <= e.offset /\ e.offset + SlotBytes(d) <= DirOffset
  BY <1>1 DEF BelowDirectory
<1>9. /\ e.schema_id \in 0..MaxLocalWidth /\ (e.schema_id # 0 => interned)
      /\ d.block.remap_bytes = e.remap_count * RemapEntrySize
      /\ d.block.stride = e.width + (IF e.schema_id # 0 THEN e.schema_id ELSE Payload)
  BY <1>2 DEF Describes
<1>10. SlotBytes(d) = e.remap_count * RemapEntrySize + e.count * d.block.stride
  BY <1>9 DEF SlotBytes
<1> QED
  BY <1>3, <1>4, <1>5, <1>7, <1>8, <1>9, <1>10

(* A slot is a written one or a gap.                                       *)
LEMMA DirSlotIs ==
    ASSUME Laid, NEW s \in 0..(DirCount - 1)
    PROVE  /\ s \in DOMAIN Out /\ s \in Nat
           /\ Out[s].count # 0 =>
                 \E i \in 1..Len(directory) :
                    Out[s] = directory[i].entry /\ (~UsesDense => i = s + 1)
           /\ Out[s].count = 0 => Out[s].schema_id = 0 /\ Out[s].remap_count = 0
           /\ EntryTyped(Out[s])
<1>1. Finished
  BY LaidIs
<1>2. s \in DOMAIN Out /\ DOMAIN Out = 0..(DirCount - 1)
  BY <1>1, FileParts, SlotsOfFile
<1>3. EntryTyped(Out[s])
  BY <1>1, <1>2, SlotsOfFile
<1>4. Out[s].count # 0 =>
         \E i \in 1..Len(directory) :
            Out[s] = directory[i].entry /\ (~UsesDense => i = s + 1)
  BY <1>1, <1>2, BlocksFound, FinishedIs
<1>5. ASSUME Out[s].count = 0 PROVE Out[s].schema_id = 0
  <2>1. ~ \E i \in DOMAIN directory : Out[s] = Entries[i]
    BY <1>1, <1>5, FinishedIs, DirectoryOfWords, SlotFits
  <2>2. UsesDense
    BY <1>1, <1>2, <2>1, SlotsOfFile
  <2>3. Out = DenseSlots
    BY <2>2 DEF Out, SlotsOut
  <2>4. CASE \E i \in DOMAIN directory : Entries[i].partition = s
    <3>1. Out[s] = Entries[CHOOSE i \in DOMAIN directory : Entries[i].partition = s]
      BY <1>2, <2>3, <2>4 DEF DenseSlots
    <3>2. (CHOOSE i \in DOMAIN directory : Entries[i].partition = s) \in DOMAIN directory
      BY <2>4
    <3> QED
      BY <2>1, <3>1, <3>2
  <2>5. CASE ~ \E i \in DOMAIN directory : Entries[i].partition = s
    BY <1>2, <2>3, <2>5 DEF DenseSlots, GapSlot
  <2> QED
    BY <2>4, <2>5
<1>6. Out[s].count = 0 => Out[s].remap_count = 0
  BY <1>3, <1>5 DEF EntryTyped
<1>7. s \in Nat
  <2>1. DirCount \in Nat
    BY FileParts
  <2> QED
    BY <2>1
<1> QED
  BY <1>2, <1>3, <1>4, <1>5, <1>6, <1>7

(* The records of a slot of the file, which has some, end where the next   *)
(* slot's start.                                                           *)
BlockEndOf(s) ==
    LET d == dir_slot(F, s)
    IN  d.offset + d.remap_count * RemapEntrySize + d.count * layout_of(F, d).stride

(* What the reader decodes of a slot.                                      *)
LEMMA SlotDecodes ==
    ASSUME Laid, NEW s \in 0..(DirCount - 1)
    PROVE  LET d == dir_slot(F, s)
           IN  /\ d.partition = IF UsesDense THEN s ELSE Out[s].partition
               /\ d.offset = Out[s].offset /\ d.count = Out[s].count
               /\ d.schema_id = Out[s].schema_id /\ d.remap_count = Out[s].remap_count
               /\ d.width = Out[s].width /\ d.skip = Out[s].skip
               /\ layout_of(F, d).stride
                     = Out[s].width + (IF Out[s].schema_id # 0 THEN Out[s].schema_id ELSE Payload)
<1> DEFINE d == dir_slot(F, s)
<1>1. Finished /\ s \in DOMAIN Out
  <2>1. Finished
    BY LaidIs
  <2>2. s \in DOMAIN Out
    BY DirSlotIs
  <2> QED
    BY <2>1, <2>2
<1>2. /\ d.partition = IF UsesDense THEN s ELSE Out[s].partition
      /\ d.offset = Out[s].offset /\ d.count = Out[s].count
      /\ d.schema_id = Out[s].schema_id /\ d.remap_count = Out[s].remap_count
      /\ d.width = Out[s].width /\ d.skip = Out[s].skip
  BY <1>1, SlotReads DEF F
<1> HIDE DEF d
<1>3. value_part(F) = Payload
  BY StridesAre DEF value_part
<1>4. layout_of(F, d).stride
        = d.width + (IF d.schema_id # 0 THEN d.schema_id ELSE value_part(F))
  BY DEF layout_of
<1> QED
  BY <1>2, <1>3, <1>4 DEF d

(* A slot with records reads them where they were written.                 *)
LEMMA SlotBlock ==
    ASSUME Laid, NEW s \in 0..(DirCount - 1), dir_slot(F, s).count # 0,
           NEW i \in 1..Len(directory), Out[s] = directory[i].entry
    PROVE  LET d == dir_slot(F, s)
               stride == layout_of(F, d).stride
               table == d.remap_count * RemapEntrySize
               bytes == d.count * stride
           IN  /\ stride = directory[i].block.stride /\ stride \in Nat \ {0}
               /\ d.count \in Nat \ {0} /\ d.offset \in Nat /\ Sizes.header <= d.offset
               /\ d.offset = directory[i].entry.offset
               /\ table \in Nat /\ bytes \in Nat
               /\ SlotBytes(directory[i]) = table + bytes
               /\ d.offset + table + bytes <= DirOffset
               /\ BlockEndOf(s) = d.offset + table + bytes
<1> DEFINE d == dir_slot(F, s)  e == directory[i].entry  b == directory[i].block
<1>1. /\ d.offset = e.offset /\ d.count = e.count /\ d.remap_count = e.remap_count
      /\ layout_of(F, d).stride
            = e.width + (IF e.schema_id # 0 THEN e.schema_id ELSE Payload)
  BY SlotDecodes
<1>2. /\ e.count \in Nat \ {0} /\ b.stride \in Nat \ {0}
      /\ b.stride = e.width + (IF e.schema_id # 0 THEN e.schema_id ELSE Payload)
      /\ e.offset \in Nat /\ Sizes.header <= e.offset
      /\ e.remap_count * RemapEntrySize \in Nat /\ e.count * b.stride \in Nat
      /\ SlotBytes(directory[i]) = e.remap_count * RemapEntrySize + e.count * b.stride
      /\ e.offset + SlotBytes(directory[i]) <= DirOffset
  BY BlockPlaced
<1>3. layout_of(F, d).stride = b.stride
  BY <1>1, <1>2
<1> DEFINE table == d.remap_count * RemapEntrySize  bytes == d.count * layout_of(F, d).stride
<1>4. /\ table = e.remap_count * RemapEntrySize /\ bytes = e.count * b.stride
      /\ BlockEndOf(s) = d.offset + table + bytes
  BY <1>1, <1>3 DEF BlockEndOf
<1> HIDE DEF table, bytes
<1>5. table \in Nat /\ bytes \in Nat /\ SlotBytes(directory[i]) = table + bytes
  BY <1>2, <1>4
<1>6. d.offset + table + bytes <= DirOffset
  <2>1. d.offset \in Nat /\ DirOffset \in Nat /\ d.offset + SlotBytes(directory[i]) <= DirOffset
    BY <1>1, <1>2, FileParts
  <2> HIDE DEF d
  <2> QED
    BY <1>5, <2>1
<1> QED
  BY <1>1, <1>2, <1>3, <1>4, <1>5, <1>6 DEF table, bytes

(* The address stretch and the remap table of a slot are in order, and its *)
(* records have a stride.                                                  *)
LEMMA SlotPasses ==
    ASSUME Laid, NEW s \in 0..(DirCount - 1)
    PROVE  LET d == dir_slot(F, s)
           IN  /\ d.width <= F.schema.address_width
               /\ d.skip <= F.schema.address_width - d.width
               /\ Open!RemapOk(d)
               /\ Open!layout_of(F, d).stride # 0
<1> DEFINE d == dir_slot(F, s)  o == Out[s]
<1>1. EntryTyped(o) /\ (o.count = 0 => o.schema_id = 0 /\ o.remap_count = 0)
  BY DirSlotIs
<1>2. /\ d.count = o.count /\ d.schema_id = o.schema_id /\ d.remap_count = o.remap_count
      /\ d.width = o.width /\ d.skip = o.skip
      /\ layout_of(F, d).stride
            = o.width + (IF o.schema_id # 0 THEN o.schema_id ELSE Payload)
  BY SlotDecodes
<1>3. /\ F.schema.address_width = address_width /\ address_width \in Nat
      /\ Payload \in Nat \ {0} /\ interned \in BOOLEAN
  BY StridesAre
<1>4. o.count # 0 => o.schema_id \in 0..MaxLocalWidth /\ (o.schema_id # 0 => interned)
  <2> SUFFICES ASSUME o.count # 0
               PROVE  o.schema_id \in 0..MaxLocalWidth /\ (o.schema_id # 0 => interned)
    OBVIOUS
  <2>1. PICK i \in 1..Len(directory) : o = directory[i].entry
    BY DirSlotIs
  <2> QED
    BY <2>1, BlockPlaced
<1>5. Open!is_interned(F) <=> interned
  <2>1. F.schema.mode = IF interned THEN "interned" ELSE "inline"
    BY LaidIs DEF ContentsAs
  <2> QED
    BY <1>3, <2>1 DEF Open!is_interned
<1>6. /\ o.width \in Nat /\ o.skip \in Nat /\ o.skip + o.width <= address_width
      /\ o.schema_id \in Nat /\ (o.schema_id = 0 <=> o.remap_count = 0)
  BY <1>1 DEF EntryTyped
<1> HIDE DEF d, o
<1>7. d.width <= address_width /\ d.skip <= address_width - d.width
  BY <1>2, <1>3, <1>6
<1>8. d.schema_id # 0 => /\ d.schema_id <= MaxLocalWidth /\ interned
                         /\ d.remap_count # 0 /\ d.count # 0
  BY <1>1, <1>2, <1>4, <1>6
<1>9. d.schema_id = 0 => d.remap_count = 0
  BY <1>2, <1>6
<1>10. Open!RemapOk(d)
  BY <1>5, <1>8, <1>9 DEF Open!RemapOk, F
<1>11. layout_of(F, d).stride # 0
  <2>1. CASE o.schema_id # 0
    BY <1>2, <1>6, <2>1
  <2>2. CASE o.schema_id = 0
    BY <1>2, <1>3, <1>6, <2>2
  <2> QED
    BY <2>1, <2>2
<1> QED
  BY <1>3, <1>7, <1>10, <1>11, ReaderOperators DEF d

(* The directory starts at a place a word can say.                         *)
LEMMA DirectoryOfWord ==
    ASSUME Laid
    PROVE  DirOffset \in Nat /\ DirOffset < WordSize /\ WordSize \in Nat
<1> DEFINE used == DirCount * SlotStride
<1>1. /\ DirOffset \in Nat /\ used \in Nat /\ SchemaOffset \in Nat
      /\ DirOffset + used <= SchemaOffset /\ SchemaBytes \in Nat /\ Sizes.footer \in Nat
      /\ F.length = SchemaOffset + SchemaBytes + Sizes.footer /\ F.length < WordSize
  BY FileParts
<1> HIDE DEF used
<1>2. WordSize \in Nat
  BY WeightNat
<1> QED
  BY <1>1, <1>2

(* The records of a slot pass when they start no lower than the floor, and *)
(* the floor they leave is where they end.                                 *)
LEMMA RecordsPass ==
    ASSUME Laid, NEW s \in 0..(DirCount - 1), dir_slot(F, s).count # 0
    PROVE  LET d == dir_slot(F, s)
           IN  /\ floor <= d.offset => Open!RecordsFit(d)
               /\ Open!RecordsEnd(d) = BlockEndOf(s)
<1> DEFINE d == dir_slot(F, s)  stride == layout_of(F, d).stride
           table == d.remap_count * RemapEntrySize  bytes == d.count * stride
<1>1. PICK i \in 1..Len(directory) : Out[s] = directory[i].entry
  <2>1. Out[s].count # 0
    BY SlotDecodes
  <2> QED
    BY <2>1, DirSlotIs
<1>2. /\ stride \in Nat \ {0} /\ d.count \in Nat \ {0} /\ d.offset \in Nat
      /\ table \in Nat /\ bytes \in Nat
      /\ d.offset + table + bytes <= DirOffset
      /\ BlockEndOf(s) = d.offset + table + bytes
  BY <1>1, SlotBlock
<1>3. DirOffset \in Nat /\ DirOffset < WordSize /\ WordSize \in Nat
  BY DirectoryOfWord
<1>4. /\ Open!layout_of(F, d) = layout_of(F, d)
      /\ layout_of(F, d).records = d.offset + (IF d.schema_id # 0 THEN table ELSE 0)
  BY ReaderOperators DEF layout_of
<1>5. d.schema_id = 0 => table = 0
  <2>1. d.schema_id = Out[s].schema_id /\ d.remap_count = Out[s].remap_count
    BY SlotDecodes
  <2>2. Out[s].schema_id = 0 => Out[s].remap_count = 0
    BY DirSlotIs DEF EntryTyped
  <2>3. RemapEntrySize \in Nat
    BY LayoutAssumption, WordAssumption
  <2> QED
    BY <2>1, <2>2, <2>3
<1>6. layout_of(F, d).records = d.offset + table
  <2> HIDE DEF d, table
  <2>1. CASE d.schema_id # 0
    BY <1>4, <2>1
  <2>2. CASE d.schema_id = 0
    BY <1>2, <1>4, <1>5, <2>2
  <2> QED
    BY <2>1, <2>2
<1>7. Open!RecordsEnd(d) = BlockEndOf(s)
  <2>1. Open!RecordsEnd(d) = Plus(layout_of(F, d).records, Times(d.count, stride))
    BY <1>4, ReaderOperators DEF Open!RecordsEnd, F
  <2>2. Times(d.count, stride) = bytes % WordSize
    BY DEF Times
  <2> HIDE DEF bytes, table, d, stride
  <2>3. bytes % WordSize = bytes
    <3>1. bytes \in Nat /\ bytes < WordSize
      BY <1>2, <1>3
    <3> QED
      BY <1>3, <3>1
  <2>4. Plus(d.offset + table, bytes) = (d.offset + table + bytes) % WordSize
    BY DEF Plus
  <2>5. (d.offset + table + bytes) % WordSize = d.offset + table + bytes
    <3> DEFINE x == d.offset + table + bytes
    <3>1. x \in Nat /\ x < WordSize
      BY <1>2, <1>3
    <3> HIDE DEF x
    <3>2. x % WordSize = x
      BY <1>3, <3>1
    <3> QED
      BY <3>2 DEF x
  <2> QED
    BY <1>2, <1>6, <2>1, <2>2, <2>3, <2>4, <2>5
<1>8. ASSUME floor <= d.offset PROVE Open!RecordsFit(d)
  <2> DEFINE available == DirOffset - d.offset  room == available - table
  <2>1. /\ d.offset <= DirOffset /\ available \in Nat /\ table <= available
        /\ room \in Nat /\ bytes <= room
    <3> DEFINE o == d.offset
    <3>1. /\ o \in Nat /\ table \in Nat /\ bytes \in Nat /\ DirOffset \in Nat
          /\ o + table + bytes <= DirOffset
      BY <1>2, <1>3
    <3> HIDE DEF bytes, table, o
    <3>2. /\ o <= DirOffset /\ DirOffset - o \in Nat /\ table <= DirOffset - o
          /\ (DirOffset - o) - table \in Nat /\ bytes <= (DirOffset - o) - table
      BY <3>1
    <3> QED
      BY <3>2 DEF o
  <2> HIDE DEF room
  <2>2. d.count <= room \div stride
    BY <1>2, <2>1, FitsQuotient
  <2>3. Open!foot.dir_offset = DirOffset
    BY DEF Open!foot, F, DirOffset
  <2>4. d.offset >= floor
    BY <1>8
  <2> QED
    BY <1>4, <2>1, <2>2, <2>3, <2>4 DEF Open!RecordsFit, room, F
<1> QED
  BY <1>7, <1>8

(* The slots are in partition order, and their records in slot order.      *)
LEMMA SlotsFollow ==
    ASSUME Laid, NEW s \in 0..(DirCount - 1), NEW t \in 0..(DirCount - 1), s < t
    PROVE  /\ dir_slot(F, s).partition < dir_slot(F, t).partition
           /\ dir_slot(F, s).count # 0 /\ dir_slot(F, t).count # 0 =>
                 BlockEndOf(s) <= dir_slot(F, t).offset
<1>1. /\ Finished /\ s \in DOMAIN Out /\ t \in DOMAIN Out /\ s \in Nat /\ t \in Nat
  BY LaidIs, DirSlotIs
<1>2. /\ dir_slot(F, s).partition = IF UsesDense THEN s ELSE Out[s].partition
      /\ dir_slot(F, t).partition = IF UsesDense THEN t ELSE Out[t].partition
      /\ dir_slot(F, s).count = Out[s].count /\ dir_slot(F, t).count = Out[t].count
      /\ dir_slot(F, s).offset = Out[s].offset /\ dir_slot(F, t).offset = Out[t].offset
  BY SlotDecodes
<1>3. UsesDense \in BOOLEAN
  BY <1>1, SlotsOfFile
<1>4. /\ DOMAIN directory = 1..Len(directory)
      /\ \A i \in DOMAIN directory : Entries[i] = directory[i].entry
  BY <1>1, FinishedIs, DirectoryOfWords
<1>5. ASSUME NEW z \in DOMAIN Out, Out[z].count # 0
      PROVE  \E i \in 1..Len(directory) :
                /\ Out[z] = directory[i].entry
                /\ IF UsesDense THEN directory[i].entry.partition = z ELSE i = z + 1
  <2>1. \E i \in DOMAIN directory :
           /\ Out[z] = Entries[i]
           /\ IF UsesDense THEN Entries[i].partition = z ELSE i = z + 1
    BY <1>1, <1>5, SlotsOfFile
  <2> QED
    BY <1>4, <2>1
<1>6. dir_slot(F, s).partition < dir_slot(F, t).partition
  <2>1. CASE UsesDense
    BY <1>2, <2>1
  <2>2. CASE ~UsesDense
    <3>1. /\ s + 1 \in 1..Len(directory) /\ Out[s] = directory[s + 1].entry
          /\ t + 1 \in 1..Len(directory) /\ Out[t] = directory[t + 1].entry
      BY <1>1, <1>4, <2>2, SlotsOfFile
    <3>2. s + 1 < t + 1
      BY <1>1
    <3>3. directory[s + 1].entry.partition < directory[t + 1].entry.partition
      BY <1>1, <3>1, <3>2, SlotsRise
    <3> QED
      BY <1>2, <2>2, <3>1, <3>3
  <2> QED
    BY <1>3, <2>1, <2>2
<1>7. ASSUME dir_slot(F, s).count # 0, dir_slot(F, t).count # 0
      PROVE  BlockEndOf(s) <= dir_slot(F, t).offset
  <2>1. PICK i \in 1..Len(directory) : /\ Out[s] = directory[i].entry
                                      /\ IF UsesDense THEN directory[i].entry.partition = s
                                                      ELSE i = s + 1
    BY <1>1, <1>2, <1>7, <1>5
  <2>2. PICK j \in 1..Len(directory) : /\ Out[t] = directory[j].entry
                                      /\ IF UsesDense THEN directory[j].entry.partition = t
                                                      ELSE j = t + 1
    BY <1>1, <1>2, <1>7, <1>5
  <2>3. Len(directory) \in Nat
    BY <1>1, FinishedIs
  <2>4. i < j
    <3>1. CASE ~UsesDense
      BY <1>1, <2>1, <2>2, <3>1
    <3>2. CASE UsesDense
      <4>1. directory[i].entry.partition = s /\ directory[j].entry.partition = t
        BY <2>1, <2>2, <3>2
      <4>2. i = j => s = t
        BY <4>1
      <4>3. j < i => t < s
        BY <1>1, <4>1, SlotsRise
      <4> QED
        BY <1>1, <2>3, <4>2, <4>3
    <3> QED
      BY <1>3, <3>1, <3>2
  <2>5. directory[i].entry.offset + SlotBytes(directory[i]) <= directory[j].entry.offset
    <3>1. i \in 1..(j - 1)
      BY <2>3, <2>4
    <3>2. PlacesInv
      BY <1>1 DEF Finished
    <3> QED
      BY <3>1, <3>2 DEF PlacesInv
  <2>6. BlockEndOf(s) = directory[i].entry.offset + SlotBytes(directory[i])
    <3> DEFINE d == dir_slot(F, s)  table == d.remap_count * RemapEntrySize
               bytes == d.count * layout_of(F, d).stride
    <3>1. /\ d.offset \in Nat /\ table \in Nat /\ bytes \in Nat
          /\ d.offset = directory[i].entry.offset
          /\ SlotBytes(directory[i]) = table + bytes
          /\ BlockEndOf(s) = d.offset + table + bytes
      BY <1>7, <2>1, SlotBlock
    <3> HIDE DEF d, table, bytes
    <3> QED
      BY <3>1
  <2> QED
    BY <1>2, <2>2, <2>5, <2>6
<1> QED
  BY <1>6, <1>7

----------------------------------------------------------------------------
(* The records, counted.                                                   *)

(* The records of a slot, and those of the slots before it.                *)
RowsOf(s) == {n \in 1..Len(Rows) : \E x \in Nat : RowAt(s, x, n)}
RowsBefore(s) == {n \in 1..Len(Rows) : \E t \in 0..(s - 1), x \in Nat : RowAt(t, x, n)}
TotalBefore(s) == Cardinality(RowsBefore(s))

(* A slot has as many records as it says.                                  *)
LEMMA RowsOfCounted ==
    ASSUME Laid, NEW s \in 0..(DirCount - 1)
    PROVE  IsFiniteSet(RowsOf(s)) /\ Cardinality(RowsOf(s)) = Out[s].count
<1>1. Finished /\ Len(Rows) \in Nat
  BY LaidIs, FinishedIs
<1>2. s \in DOMAIN Out
  BY DirSlotIs
<1>3. Out[s].count \in Nat
  BY DirSlotIs, WeightNat DEF EntryTyped, Word
<1>4. \A i, k : SlotHolds(s, i, k) => /\ Out[s] = directory[i].entry
                                      /\ i \in 1..Len(directory) /\ k \in 1..Len(Rows)
  BY DEF SlotHolds
<1>5. CASE Out[s].count = 0
  <2>1. RowsOf(s) = {}
    <3> SUFFICES ASSUME NEW n, NEW x \in Nat, RowAt(s, x, n) PROVE FALSE
      BY DEF RowsOf
    <3>1. PICK i \in 1..Len(directory), k \in 1..Len(Rows) :
             SlotHolds(s, i, k) /\ x \in 0..(directory[i].entry.count - 1)
      BY DEF RowAt
    <3>2. directory[i].entry.count = 0
      BY <1>4, <1>5, <3>1
    <3> QED
      BY <3>1, <3>2
  <2> QED
    BY <1>5, <2>1, FS_EmptySet
<1>6. CASE Out[s].count # 0
  <2>1. 0 \in 0..(Out[s].count - 1)
    BY <1>3, <1>6
  <2>2. PICK n \in 1..Len(Rows) : RowAt(s, 0, n)
    BY <1>1, <1>2, <2>1, RecordsHaveRows
  <2>3. PICK i \in 1..Len(directory), k \in 1..Len(Rows) : SlotHolds(s, i, k)
    BY <2>2 DEF RowAt
  <2> DEFINE c == Out[s].count
  <2>4. c = directory[i].entry.count /\ k \in Nat
    BY <1>1, <1>4, <2>3
  <2>5. RowsOf(s) \subseteq k..(k + c - 1)
    <3> SUFFICES ASSUME NEW m \in RowsOf(s) PROVE m \in k..(k + c - 1)
      OBVIOUS
    <3>1. PICK x \in Nat : RowAt(s, x, m)
      BY DEF RowsOf
    <3>2. PICK j \in 1..Len(directory), l \in 1..Len(Rows) :
             SlotHolds(s, j, l) /\ x \in 0..(directory[j].entry.count - 1) /\ m = l + x
      BY <3>1 DEF RowAt
    <3>3. j = i /\ l = k
      BY <1>1, <2>3, <3>2, OneRunOfSlot
    <3>4. x \in 0..(c - 1) /\ m = k + x
      BY <2>4, <3>2, <3>3
    <3> HIDE DEF c
    <3>5. c \in Nat /\ k \in Nat
      BY <1>3, <2>4 DEF c
    <3> QED
      BY <3>4, <3>5
  <2>6. k..(k + c - 1) \subseteq RowsOf(s)
    <3> SUFFICES ASSUME NEW m \in k..(k + c - 1) PROVE m \in RowsOf(s)
      OBVIOUS
    <3> DEFINE x == m - k
    <3>1. x \in 0..(c - 1) /\ x \in Nat /\ m = k + x
      <4> HIDE DEF c
      <4>1. c \in Nat /\ k \in Nat
        BY <1>3, <2>4 DEF c
      <4> QED
        BY <4>1
    <3>2. RowAt(s, x, m)
      <4> HIDE DEF x, c
      <4> QED
        BY <2>3, <2>4, <3>1 DEF RowAt
    <3>3. m \in 1..Len(Rows)
      BY <1>1, <3>2, RowPlaced
    <3> QED
      BY <3>1, <3>2, <3>3 DEF RowsOf
  <2>7. RowsOf(s) = k..(k + c - 1)
    BY <2>5, <2>6
  <2> HIDE DEF c
  <2>8. IsFiniteSet(k..(k + c - 1)) /\ Cardinality(k..(k + c - 1)) = c
    <3>1. c \in Nat \ {0} /\ k + c - 1 \in Int /\ k \in Int
      BY <1>3, <1>6, <2>4 DEF c
    <3> DEFINE b == k + c - 1
    <3>2. IsFiniteSet(k..b) /\ Cardinality(k..b) = IF k > b THEN 0 ELSE b - k + 1
      <4> HIDE DEF b
      <4> QED
        BY <3>1, FS_Interval DEF b
    <3>3. b = k + c - 1
      OBVIOUS
    <3>4. k \in Nat
      BY <2>4
    <3> HIDE DEF b
    <3>5. k <= b /\ b - k + 1 = c /\ b \in Nat
      BY <3>1, <3>3, <3>4
    <3>6. (IF k > b THEN 0 ELSE b - k + 1) = c
      BY <3>4, <3>5
    <3> QED
      BY <3>2, <3>6 DEF b
  <2> QED
    BY <2>7, <2>8 DEF c
<1> QED
  BY <1>5, <1>6

(* The records before a slot add up, from none to all of them.             *)
LEMMA TotalsAddUp ==
    ASSUME Laid
    PROVE  /\ TotalBefore(0) = 0 /\ TotalBefore(DirCount) = Len(Rows)
           /\ \A s \in 0..(DirCount - 1) :
                 TotalBefore(s + 1) = TotalBefore(s) + Out[s].count
           /\ \A s \in Nat : TotalBefore(s) \in 0..Len(Rows)
<1>1. Finished /\ Len(Rows) \in Nat /\ DirCount \in Nat /\ DOMAIN Out = 0..(DirCount - 1)
  BY LaidIs, FinishedIs, FileParts, SlotsOfFile
<1>2. IsFiniteSet(1..Len(Rows)) /\ Cardinality(1..Len(Rows)) = Len(Rows)
  <2> DEFINE n == Len(Rows)
  <2>1. IsFiniteSet(1..n) /\ Cardinality(1..n) = IF 1 > n THEN 0 ELSE n - 1 + 1
    <3> HIDE DEF n
    <3>1. 1 \in Int /\ n \in Int
      BY <1>1 DEF n
    <3> QED
      BY <3>1, FS_Interval
  <2> HIDE DEF n
  <2>2. n \in Nat
    BY <1>1 DEF n
  <2>3. (IF 1 > n THEN 0 ELSE n - 1 + 1) = n
    BY <2>2
  <2> QED
    BY <2>1, <2>3 DEF n
<1>3. \A s : RowsBefore(s) \subseteq 1..Len(Rows)
  BY DEF RowsBefore
<1>4. \A s : IsFiniteSet(RowsBefore(s)) /\ TotalBefore(s) \in 0..Len(Rows)
  <2> SUFFICES ASSUME NEW s
               PROVE  IsFiniteSet(RowsBefore(s)) /\ TotalBefore(s) \in 0..Len(Rows)
    OBVIOUS
  <2>1. IsFiniteSet(RowsBefore(s)) /\ Cardinality(RowsBefore(s)) <= Cardinality(1..Len(Rows))
    BY <1>2, <1>3, FS_Subset
  <2>2. Cardinality(RowsBefore(s)) \in Nat
    BY <2>1, FS_CardinalityType
  <2> DEFINE c == Cardinality(RowsBefore(s))
  <2> HIDE DEF c
  <2>3. c \in 0..Len(Rows)
    BY <1>1, <1>2, <2>1, <2>2 DEF c
  <2> QED
    BY <2>1, <2>3 DEF TotalBefore, c
<1>5. TotalBefore(0) = 0
  <2>1. RowsBefore(0) = {}
    BY DEF RowsBefore
  <2> QED
    BY <2>1, FS_EmptySet DEF TotalBefore
<1>6. TotalBefore(DirCount) = Len(Rows)
  <2>1. 1..Len(Rows) \subseteq RowsBefore(DirCount)
    <3> SUFFICES ASSUME NEW n \in 1..Len(Rows) PROVE n \in RowsBefore(DirCount)
      OBVIOUS
    <3>1. PICK t \in DOMAIN Out, x \in Nat : RowAt(t, x, n)
      BY <1>1, RowsHaveRecords
    <3>2. t \in 0..(DirCount - 1)
      BY <1>1
    <3> QED
      BY <3>1, <3>2 DEF RowsBefore
  <2>2. RowsBefore(DirCount) = 1..Len(Rows)
    BY <1>3, <2>1
  <2> QED
    BY <1>2, <2>2 DEF TotalBefore
<1>7. ASSUME NEW s \in 0..(DirCount - 1)
      PROVE  TotalBefore(s + 1) = TotalBefore(s) + Out[s].count
  <2>1. s \in Nat
    BY <1>1
  <2>2. 0..((s + 1) - 1) = (0..(s - 1)) \cup {s}
    BY <2>1
  <2>3. RowsBefore(s + 1) = RowsBefore(s) \cup RowsOf(s)
    BY <2>2 DEF RowsBefore, RowsOf
  <2>4. RowsBefore(s) \cap RowsOf(s) = {}
    <3> SUFFICES ASSUME NEW n \in RowsBefore(s), n \in RowsOf(s) PROVE FALSE
      OBVIOUS
    <3>1. PICK t \in 0..(s - 1), x \in Nat : RowAt(t, x, n)
      BY DEF RowsBefore
    <3>2. PICK y \in Nat : RowAt(s, y, n)
      BY DEF RowsOf
    <3>3. s = t
      BY <1>1, <3>1, <3>2, OnePlaceOfRow
    <3> QED
      BY <2>1, <3>1, <3>3
  <2>5. IsFiniteSet(RowsBefore(s)) /\ IsFiniteSet(RowsOf(s))
        /\ Cardinality(RowsOf(s)) = Out[s].count
    BY <1>4, RowsOfCounted
  <2> DEFINE A == RowsBefore(s)  B == RowsOf(s)
  <2>6. Cardinality(A \cup B) = Cardinality(A) + Cardinality(B) - Cardinality(A \cap B)
    <3> HIDE DEF A, B
    <3>1. IsFiniteSet(A) /\ IsFiniteSet(B)
      BY <2>5 DEF A, B
    <3> QED
      BY <3>1, FS_Union
  <2>7. Cardinality(A \cap B) = 0
    BY <2>4, FS_EmptySet
  <2>8. Cardinality(A) \in Nat /\ Cardinality(B) \in Nat
    BY <2>5, FS_CardinalityType
  <2>9. Cardinality(A \cup B) = Cardinality(A) + Cardinality(B)
    <3> DEFINE a == Cardinality(A)  b == Cardinality(B)  c == Cardinality(A \cup B)
               z == Cardinality(A \cap B)
    <3>1. a \in Nat /\ b \in Nat /\ z = 0 /\ c = a + b - z
      BY <2>6, <2>7, <2>8
    <3> HIDE DEF a, b, c, z
    <3>2. c = a + b
      BY <3>1
    <3> QED
      BY <3>2 DEF a, b, c
  <2> QED
    BY <2>3, <2>5, <2>9 DEF TotalBefore
<1> QED
  BY <1>4, <1>5, <1>6, <1>7

----------------------------------------------------------------------------
(* The dictionaries.                                                       *)

(* Every dictionary number below the number of text fields is one's.       *)
LEMMA TextFieldOf ==
    ASSUME NEW m \in Nat, m < TextCount
    PROVE  \E g \in TextFields : text_slot(g) = m
<1>1. TextFields \in SUBSET Fields /\ Fields \in SUBSET Nat /\ IsFiniteSet(Fields)
  BY WriterAssumption, BuilderAssumption DEF TextFields
<1>2. TextFields \in SUBSET Nat /\ IsFiniteSet(TextFields)
  BY <1>1, FS_Subset
<1> QED
  BY <1>2, RankExists DEF text_slot, TextCount

(* The offsets of the texts are no truncated ones: they rise to the size   *)
(* of the payload.                                                         *)
LEMMA OffsetsPass ==
    ASSUME Laid, NEW f \in TextFields, NEW h, h = dicts[text_slot(f) + 1].content
    PROVE  Open!OffsetsOk(h)
<1>1. TypeOK /\ TextDictAs(f, dicts[text_slot(f) + 1]) /\ BlobInv
  BY LaidIs DEF Laid
<1> DEFINE t == texts[f]  n == Len(t)
<1>2. n \in Nat /\ IsTexts(t)
  BY <1>1, TextsTyped
<1>3. TextBytes(f) = BytesOf(t, n) /\ TextBytes(f) <= MaxBlob
  BY <1>1 DEF TextBytes, BlobInv
<1>4. h.count = n /\ h.payload = BytesOf(t, n)
      /\ \A k \in 0..n : h.offsets[k] = uint32(BytesOf(t, k))
  BY <1>1, <1>3 DEF TextDictAs
<1>5. Weight[RemapEntrySize] \in Nat /\ MaxBlob = Weight[RemapEntrySize] - 1
  <2>1. RemapEntrySize \in 0..WordBytes
    BY LayoutAssumption, WordAssumption
  <2> QED
    BY <2>1, WeightNat, WriterAssumption
<1> HIDE DEF t, n
<1>6. ASSUME NEW k \in 0..n
      PROVE  h.offsets[k] = BytesOf(t, k) /\ BytesOf(t, k) \in Nat /\ BytesOf(t, k) <= BytesOf(t, n)
  <2>1. k \in Nat /\ k <= n
    BY <1>2
  <2>2. BytesOf(t, k) \in Nat /\ BytesOf(t, n) \in Nat /\ BytesOf(t, k) <= BytesOf(t, n)
    BY <1>2, <2>1, BytesGrow DEF n
  <2> DEFINE x == BytesOf(t, k)  y == BytesOf(t, n)  w == Weight[RemapEntrySize]
  <2>3. x \in Nat /\ y \in Nat /\ x <= y /\ y <= w - 1 /\ w \in Nat
    BY <1>3, <1>5, <2>2
  <2> HIDE DEF x, y, w
  <2>4. x % w = x
    BY <2>3
  <2> QED
    BY <1>4, <2>2, <2>4 DEF uint32, x, y, w
<1>7. ASSUME NEW k \in 0..n, k > 0 PROVE h.offsets[k - 1] <= h.offsets[k]
  <2>1. k \in Nat /\ k - 1 \in Nat /\ k - 1 \in 0..n /\ k - 1 <= k /\ k <= n
    BY <1>2, <1>7
  <2>2. BytesOf(t, k - 1) <= BytesOf(t, k)
    BY <1>2, <2>1, BytesGrow DEF n
  <2> QED
    BY <1>6, <2>1, <2>2
<1>8. n \in 0..n
  BY <1>2
<1> QED
  BY <1>4, <1>6, <1>7, <1>8 DEF Open!OffsetsOk

(* Every dictionary has the kind and the size its place in the schema asks *)
(* for.                                                                    *)
LEMMA DictsPass ==
    ASSUME Laid, NEW n \in 0..(F.schema.dict_count - 1)
    PROVE  /\ Open!DictInside(F.schema.dicts[n])
           /\ Open!IsValueDict(n) => Open!FixedOk(F.dicts[n], F.schema.dicts[n].size)
           /\ ~Open!IsValueDict(n) => /\ Open!BlobOk(F.dicts[n], F.schema.dicts[n].size)
                                      /\ Open!OffsetsOk(F.dicts[n])
<1> DEFINE e == dicts[n + 1].entry  h == dicts[n + 1].content
<1>1. /\ FrameAs(F) /\ ContentsAs(F) /\ BelowDirectory(DirOffset)
      /\ TextCount \in Nat /\ Len(dicts) = TextCount + (IF interned THEN 1 ELSE 0)
      /\ interned => FixedDictAs(dicts[TextCount + 1])
      /\ \A f \in TextFields : TextDictAs(f, dicts[text_slot(f) + 1])
  BY LaidIs
<1>2. F.schema = Schema(Widths)
  BY <1>1 DEF FrameAs
<1>3. /\ F.schema.dict_count = Len(dicts)
      /\ F.schema.dicts = [i \in 0..(Len(dicts) - 1) |-> dicts[i + 1].entry]
      /\ F.schema.value_stride = value_stride
  BY <1>2 DEF Schema
<1>4. interned \in BOOLEAN /\ value_stride \in Nat
  BY StridesAre
<1>5. Len(dicts) \in Nat /\ n \in Nat /\ n < Len(dicts) /\ n + 1 \in 1..Len(dicts)
  BY <1>1, <1>3, <1>4
<1>6. F.schema.dicts[n] = e /\ F.dicts[n] = h
  BY <1>1, <1>3, <1>5 DEF ContentsAs
<1>7. EntryPlaced(e, DirOffset)
  BY <1>1, <1>5 DEF BelowDirectory
<1>8. DirOffset \in Nat /\ DirOffset <= F.length - Sizes.footer /\ F.length - Sizes.footer \in Nat
  <2> DEFINE used == DirCount * SlotStride
  <2>1. /\ DirOffset \in Nat /\ used \in Nat /\ SchemaOffset \in Nat
        /\ DirOffset + used <= SchemaOffset /\ SchemaBytes \in Nat /\ Sizes.footer \in Nat
        /\ F.length = SchemaOffset + SchemaBytes + Sizes.footer
    BY FileParts
  <2> HIDE DEF used
  <2> QED
    BY <2>1
<1>9. DictHeaderSize \in Nat /\ RemapEntrySize \in Nat
  BY LayoutAssumption, WordAssumption
<1>10. Open!IsValueDict(n) <=> interned /\ n = TextCount
  <2>1. F.schema.mode = IF interned THEN "interned" ELSE "inline"
    BY <1>1 DEF ContentsAs
  <2>2. Open!is_interned(F) <=> interned
    BY <1>4, <2>1 DEF Open!is_interned
  <2>3. interned => F.schema.value_dict = TextCount
    BY <1>1 DEF ContentsAs
  <2> QED
    BY <2>2, <2>3 DEF Open!IsValueDict, Open!schema, F
<1>11. n # TextCount \/ ~interned => n < TextCount
  BY <1>1, <1>4, <1>5
<1>12. CASE interned /\ n = TextCount
  <2>1. FixedDictAs(dicts[n + 1])
    BY <1>1, <1>12
  <2>2. /\ h.mark = "mmpack" /\ h.type = "fixed" /\ h.count = tuple_count
        /\ h.payload = value_stride /\ e.size = FixedSize
    BY <2>1 DEF FixedDictAs
  <2>3. FixedSize = DictHeaderSize + tuple_count * value_stride
    BY DEF FixedSize, fixed_dictionary_size
  <2>4. tuple_count \in Nat
    BY LaidIs DEF TypeOK, tuple_count
  <2>5. tuple_count * value_stride \in Nat
    BY <1>4, <2>4, ProductNat
  <2>6. e.size \in Nat /\ DictHeaderSize <= e.size
        /\ DictHeaderSize + h.count * h.payload <= e.size
    <3> DEFINE x == tuple_count * value_stride
    <3>1. h.count * h.payload = x /\ e.size = DictHeaderSize + x /\ x \in Nat
      BY <2>2, <2>3, <2>5
    <3> HIDE DEF x
    <3> QED
      BY <1>9, <3>1
  <2>7. Open!FixedOk(h, e.size)
    BY <1>3, <2>2, <2>6 DEF Open!FixedOk, Open!schema, F
  <2>8. Open!DictInside(e)
    BY <1>7, <1>8, <2>6 DEF Open!DictInside, Open!tail, EntryPlaced, F
  <2> QED
    BY <1>6, <1>10, <1>12, <2>7, <2>8
<1>13. CASE ~(interned /\ n = TextCount)
  <2>1. n < TextCount
    BY <1>11, <1>13
  <2>2. PICK f \in TextFields : text_slot(f) = n
    BY <1>5, <2>1, TextFieldOf
  <2>3. TextDictAs(f, dicts[n + 1])
    BY <1>1, <2>2
  <2>4. TextBytes(f) \in Nat /\ Len(texts[f]) \in Nat
    BY LaidIs, TextsTyped, BlobSizeIs
  <2> DEFINE x == (Len(texts[f]) + 1) * RemapEntrySize
  <2>5. x \in Nat
    BY <1>9, <2>4, ProductNat
  <2>6. /\ h.mark = "mmpack" /\ h.type = "blob" /\ h.count = Len(texts[f])
        /\ h.payload = TextBytes(f) /\ e.size = DictHeaderSize + x + TextBytes(f)
    BY <2>3 DEF TextDictAs
  <2>7. Open!BlobEnd(h) = DictHeaderSize + x + TextBytes(f)
    BY <2>6 DEF Open!BlobEnd
  <2> HIDE DEF x
  <2>8. Open!BlobEnd(h) <= e.size /\ DictHeaderSize <= e.size /\ e.size \in Nat
    BY <1>9, <2>4, <2>5, <2>6, <2>7
  <2>9. Open!BlobOk(h, e.size)
    BY <2>6, <2>8 DEF Open!BlobOk
  <2>10. Open!DictInside(e)
    BY <1>7, <1>8, <2>8 DEF Open!DictInside, Open!tail, EntryPlaced, F
  <2>11. Open!OffsetsOk(h)
    BY <2>2, OffsetsPass
  <2> QED
    BY <1>6, <1>10, <1>13, <2>9, <2>10, <2>11
<1> QED
  BY <1>12, <1>13

(* No text field points at the value dictionary.                           *)
LEMMA TextFieldsPass ==
    ASSUME Laid, NEW f \in 0..(F.schema.field_count - 1)
    PROVE  ~(F.schema.fields[f].kind = "text"
               /\ Open!IsValueDict(F.schema.fields[f].dict_index))
<1> SUFFICES ASSUME F.schema.fields[f].kind = "text",
                    Open!IsValueDict(F.schema.fields[f].dict_index)
             PROVE  FALSE
  OBVIOUS
<1>1. FrameAs(F) /\ ContentsAs(F) /\ ShapeMeasured /\ TextCount \in Nat
  BY LaidIs
<1>2. F.schema.field_count = Cardinality(Fields) /\ F.schema.fields = shape.descs
  BY <1>1 DEF FrameAs, Schema
<1>3. f \in Fields
  BY <1>2, FieldIds
<1>4. F.schema.fields[f] = Desc(f, Offsets[f])
  BY <1>1, <1>2, <1>3 DEF ShapeMeasured
<1>5. /\ F.schema.fields[f].kind = FieldKind[f]
      /\ F.schema.fields[f].dict_index = IF f \in TextFields THEN uint16(text_slot(f)) ELSE 0
  BY <1>4 DEF Desc
<1>6. f \in TextFields
  BY <1>3, <1>5 DEF TextFields
<1>7. F.schema.fields[f].dict_index \in 0..(TextCount - 1)
  BY <1>5, <1>6, DictIndexRange
<1>8. interned \in BOOLEAN
  BY StridesAre
<1>9. F.schema.mode = IF interned THEN "interned" ELSE "inline"
  BY <1>1 DEF ContentsAs
<1>10. interned
  BY <1>8, <1>9 DEF Open!IsValueDict, Open!is_interned, F
<1>11. F.schema.value_dict = TextCount
  BY <1>1, <1>10 DEF ContentsAs
<1>12. F.schema.fields[f].dict_index = TextCount
  BY <1>11 DEF Open!IsValueDict, Open!schema, F
<1> QED
  BY <1>1, <1>7, <1>12

----------------------------------------------------------------------------
(* The opening of a written file.                                          *)

(* The records of the slots before s, added up as try_open adds them.      *)
CountBefore(s) == Total([t \in 0..(DirCount - 1) |-> dir_slot(F, t).count], 0..(s - 1))

(* The slots before i have passed: p is the partition of the last of them, *)
(* the records of the others start at fl or after it, and tt of them have  *)
(* gone by.                                                                *)
SlotsPassed(i, p, fl, tt) ==
    /\ i \in 0..DirCount
    /\ i > 0 => p = dir_slot(F, i - 1).partition
    /\ \A t \in i..(DirCount - 1) : dir_slot(F, t).count # 0 => fl <= dir_slot(F, t).offset
    /\ tt = CountBefore(i)

(* try_open is at check o with these values of its loop variables, and has *)
(* not rejected the file.                                                  *)
OpeningAt(o, i, p, fl, tt, st) ==
    /\ o \in {"size", "frame", "schema", "fields", "geometry", "slots", "dictionaries",
              "dictionary", "offsets", "texts", "done"}
    /\ st = IF o = "done" THEN "ok" ELSE "open"
    /\ o \in {"size", "frame", "schema", "fields", "geometry"} => fl = Sizes.header /\ tt = 0
    /\ o \in {"fields", "texts"} => i \in 0..F.schema.field_count
    /\ o = "slots" => SlotsPassed(i, p, fl, tt)
    /\ o = "dictionaries" => i \in 0..F.schema.dict_count
    /\ o \in {"dictionary", "offsets"} => i \in 0..(F.schema.dict_count - 1)
    /\ o = "offsets" => ~(is_interned(F) /\ i = F.schema.value_dict)

Progress == OpeningAt(opc, item, previous, floor, total, status)

Unopened ==
    /\ opc = "size" /\ item = 0 /\ previous = 0 /\ floor = Sizes.header /\ total = 0
    /\ status = "open"

(* Nothing is opened before it is written, and nothing that is written and *)
(* fits is rejected.                                                       *)
AcceptInv ==
    /\ wpc # "written" => Unopened
    /\ wpc = "written" /\ AddressFits /\ ImageFits => Progress

(* The counts of the slots add up to the records.                          *)
LEMMA CountsAddUp ==
    ASSUME Laid
    PROVE  /\ CountBefore(0) = 0 /\ CountBefore(DirCount) = Len(Rows)
           /\ \A s \in 0..(DirCount - 1) :
                 CountBefore(s + 1) = CountBefore(s) + dir_slot(F, s).count
           /\ \A s \in 0..DirCount : CountBefore(s) \in 0..Len(Rows)
<1> DEFINE h == [t \in 0..(DirCount - 1) |-> dir_slot(F, t).count]
<1>1. DirCount \in Nat /\ Len(Rows) \in Nat
  BY LaidIs, FileParts, FinishedIs
<1>2. /\ TotalBefore(0) = 0 /\ TotalBefore(DirCount) = Len(Rows)
      /\ \A s \in 0..(DirCount - 1) : TotalBefore(s + 1) = TotalBefore(s) + Out[s].count
      /\ \A s \in Nat : TotalBefore(s) \in 0..Len(Rows)
  BY TotalsAddUp
<1>3. ASSUME NEW s \in 0..(DirCount - 1)
      PROVE  dir_slot(F, s).count = Out[s].count /\ Out[s].count \in Nat
  <2>1. Out[s].count \in Nat
    BY DirSlotIs, WeightNat DEF EntryTyped, Word
  <2> QED
    BY <2>1, SlotDecodes
<1>4. \A s : CountBefore(s) = Total(h, 0..(s - 1))
  BY DEF CountBefore
<1>5. \A t \in 0..(DirCount - 1) : h[t] = Out[t].count /\ h[t] \in Nat
  BY <1>3
<1> HIDE DEF h
<1>6. CountBefore(0) = 0
  <2>1. 0..(0 - 1) = {}
    OBVIOUS
  <2> QED
    BY <1>4, <2>1, TotalEmpty
<1>7. ASSUME NEW s \in 0..(DirCount - 1)
      PROVE  CountBefore(s + 1) = CountBefore(s) + Out[s].count
  <2>1. s \in Nat /\ s < DirCount
    BY <1>1
  <2> DEFINE S == 0..((s + 1) - 1)
  <2>2. IsFiniteSet(S) /\ s \in S /\ S \ {s} = 0..(s - 1) /\ S \subseteq 0..(DirCount - 1)
    <3>1. S = 0..s
      BY <2>1
    <3>2. IsFiniteSet(0..s)
      BY <2>1, FS_Interval
    <3> HIDE DEF S
    <3> QED
      BY <1>1, <2>1, <3>1, <3>2
  <2>3. \A t \in S : h[t] \in Nat
    BY <1>5, <2>2
  <2> HIDE DEF S
  <2>4. Total(h, S) = h[s] + Total(h, S \ {s})
    BY <2>2, <2>3, TotalRemove
  <2>5. IsFiniteSet(S \ {s}) /\ \A t \in S \ {s} : h[t] \in Nat
    BY <2>2, <2>3, FS_Subset
  <2>6. Total(h, S \ {s}) \in Nat
    BY <2>5, TotalNat
  <2>7. CountBefore(s + 1) = Total(h, S) /\ CountBefore(s) = Total(h, S \ {s})
    BY <1>4, <2>2 DEF S
  <2> DEFINE a == Total(h, S)  b == Total(h, S \ {s})  c == h[s]
  <2>8. c = Out[s].count /\ c \in Nat /\ b \in Nat /\ a = c + b
    BY <1>5, <2>4, <2>6
  <2> HIDE DEF a, b, c
  <2>9. a = b + c
    BY <2>8
  <2> QED
    BY <2>7, <2>8, <2>9 DEF a, b, c
<1>8. \A s \in Nat : s <= DirCount => CountBefore(s) = TotalBefore(s)
  <2> DEFINE Same == {s \in Nat : s <= DirCount => CountBefore(s) = TotalBefore(s)}
  <2>1. 0 \in Same
    BY <1>2, <1>6
  <2>2. ASSUME NEW s \in Nat, s \in Same PROVE s + 1 \in Same
    <3> SUFFICES ASSUME s + 1 <= DirCount PROVE CountBefore(s + 1) = TotalBefore(s + 1)
      BY <2>2
    <3>1. s \in 0..(DirCount - 1) /\ s <= DirCount
      BY <1>1
    <3>2. CountBefore(s) = TotalBefore(s)
      BY <2>2, <3>1
    <3> QED
      BY <1>2, <1>7, <3>1, <3>2
  <2> HIDE DEF Same
  <2>3. \A s \in Nat : s \in Same
    BY <2>1, <2>2, NatSetInduction
  <2> QED
    BY <2>3 DEF Same
<1>9. CountBefore(DirCount) = Len(Rows)
  BY <1>1, <1>2, <1>8
<1>10. \A s \in 0..DirCount : CountBefore(s) \in 0..Len(Rows)
  <2> SUFFICES ASSUME NEW s \in 0..DirCount PROVE CountBefore(s) \in 0..Len(Rows)
    OBVIOUS
  <2>1. s \in Nat /\ s <= DirCount
    BY <1>1
  <2> QED
    BY <1>2, <1>8, <2>1
<1> QED
  BY <1>3, <1>6, <1>7, <1>9, <1>10

(* One slot passes.                                                        *)
LEMMA SlotStep ==
    ASSUME Laid, Progress, opc = "slots", item < DirCount
    PROVE  /\ Open!SlotOk(dir_slot(F, item))
           /\ SlotsPassed(item + 1, dir_slot(F, item).partition,
                          IF dir_slot(F, item).count # 0 THEN Open!RecordsEnd(dir_slot(F, item)) ELSE floor,
                          Open!Plus(total, dir_slot(F, item).count))
<1> DEFINE d == dir_slot(F, item)
<1>1. /\ item \in 0..DirCount
      /\ item > 0 => previous = dir_slot(F, item - 1).partition
      /\ \A t \in item..(DirCount - 1) : dir_slot(F, t).count # 0 => floor <= dir_slot(F, t).offset
      /\ total = CountBefore(item)
  BY DEF Progress, OpeningAt, SlotsPassed
<1>2. DirCount \in Nat
  BY FileParts
<1>3. item \in 0..(DirCount - 1) /\ item \in Nat /\ item \in item..(DirCount - 1)
  BY <1>1, <1>2
<1>4. /\ d.width <= F.schema.address_width /\ d.skip <= F.schema.address_width - d.width
      /\ Open!RemapOk(d) /\ Open!layout_of(F, d).stride # 0
  BY <1>3, SlotPasses
<1>5. item > 0 => previous < d.partition
  <2> SUFFICES ASSUME item > 0 PROVE previous < d.partition
    OBVIOUS
  <2>1. item - 1 \in 0..(DirCount - 1) /\ item - 1 < item
    BY <1>2, <1>3
  <2> QED
    BY <1>1, <1>3, <2>1, SlotsFollow
<1>6. d.count # 0 => Open!RecordsFit(d) /\ Open!RecordsEnd(d) = BlockEndOf(item)
  BY <1>1, <1>3, RecordsPass
<1>7. Open!SlotOk(d)
  BY <1>4, <1>5, <1>6 DEF Open!SlotOk, Open!schema, F
<1> DEFINE fl == IF d.count # 0 THEN Open!RecordsEnd(d) ELSE floor
<1>8. ASSUME NEW t \in (item + 1)..(DirCount - 1), dir_slot(F, t).count # 0
      PROVE  fl <= dir_slot(F, t).offset
  <2>1. t \in item..(DirCount - 1) /\ t \in 0..(DirCount - 1) /\ item < t
    BY <1>2, <1>3
  <2>2. CASE d.count # 0
    <3>1. BlockEndOf(item) <= dir_slot(F, t).offset
      BY <1>3, <1>8, <2>1, <2>2, SlotsFollow
    <3> QED
      BY <1>6, <2>2, <3>1
  <2>3. CASE d.count = 0
    BY <1>1, <1>8, <2>1, <2>3
  <2> QED
    BY <2>2, <2>3
<1>9. Open!Plus(total, d.count) = CountBefore(item + 1)
  <2>1. CountBefore(item + 1) = total + d.count
    BY <1>1, <1>3, CountsAddUp
  <2>2. item + 1 \in 0..DirCount
    BY <1>2, <1>3
  <2>3. CountBefore(item + 1) \in 0..Len(Rows)
    BY <2>2, CountsAddUp
  <2>4. BelowDirectory(DirOffset) /\ Len(Rows) \in Nat
    BY LaidIs, FinishedIs
  <2>5. Len(Rows) <= DirOffset
    BY <2>4 DEF BelowDirectory
  <2>6. DirOffset \in Nat /\ DirOffset < WordSize /\ WordSize \in Nat
    BY DirectoryOfWord
  <2> DEFINE c == CountBefore(item + 1)
  <2>7. c % WordSize = c
    <3>1. c \in Nat /\ c < WordSize
      <4> HIDE DEF c
      <4>1. c \in 0..Len(Rows)
        BY <2>3 DEF c
      <4> QED
        BY <2>4, <2>5, <2>6, <4>1
    <3> HIDE DEF c
    <3> QED
      BY <2>6, <3>1
  <2>8. Open!Plus(total, d.count) = (total + d.count) % WordSize
    BY ReaderOperators DEF Plus
  <2> QED
    BY <2>1, <2>7, <2>8
<1>10. item + 1 \in 0..DirCount /\ (item + 1) - 1 = item
  BY <1>2, <1>3
<1>11. SlotsPassed(item + 1, d.partition, fl, Open!Plus(total, d.count))
  BY <1>8, <1>9, <1>10 DEF SlotsPassed
<1> QED
  BY <1>7, <1>11

(* The counts of the loops.                                                *)
LEMMA LoopBounds ==
    ASSUME Laid
    PROVE  /\ F.schema.field_count \in Nat /\ F.schema.dict_count \in Nat /\ DirCount \in Nat
           /\ F.foot.record_count = Len(Rows)
           /\ \A n : Open!IsValueDict(n) <=> is_interned(F) /\ n = F.schema.value_dict
<1>1. FrameAs(F) /\ Len(dicts) \in Nat /\ count = Len(Rows)
  BY LaidIs
<1>2. F.schema.field_count = Cardinality(Fields) /\ F.schema.dict_count = Len(dicts)
      /\ F.foot.record_count = Len(Rows)
  BY <1>1 DEF FrameAs, Schema
<1>3. Cardinality(Fields) \in Nat /\ DirCount \in Nat
  BY FieldIds, FileParts
<1>4. \A n : Open!IsValueDict(n) <=> is_interned(F) /\ n = F.schema.value_dict
  BY ReaderOperators DEF Open!IsValueDict, Open!schema, F
<1> QED
  BY <1>1, <1>2, <1>3, <1>4

(* Every check of a file that was laid out passes.                         *)
LEMMA OpeningAdvances ==
    ASSUME Laid, Progress, Open!Next
    PROVE  OpeningAt(opc', item', previous', floor', total', status')
<1>1. /\ F.schema.field_count \in Nat /\ F.schema.dict_count \in Nat /\ DirCount \in Nat
      /\ F.foot.record_count = Len(Rows)
      /\ \A n : Open!IsValueDict(n) <=> is_interned(F) /\ n = F.schema.value_dict
  BY LoopBounds
<1>2. /\ status = IF opc = "done" THEN "ok" ELSE "open"
      /\ opc \in {"size", "frame", "schema", "fields", "geometry"} =>
            floor = Sizes.header /\ total = 0
      /\ opc \in {"fields", "texts"} => item \in 0..F.schema.field_count
      /\ opc = "slots" => SlotsPassed(item, previous, floor, total)
      /\ opc = "dictionaries" => item \in 0..F.schema.dict_count
      /\ opc \in {"dictionary", "offsets"} => item \in 0..(F.schema.dict_count - 1)
      /\ opc = "offsets" => ~(is_interned(F) /\ item = F.schema.value_dict)
  BY DEF Progress, OpeningAt
<1>3. file[1] = F /\ Open!schema = F.schema /\ Open!foot = F.foot
  BY DEF F, Open!schema, Open!foot
<1>4. CASE Open!CheckSize
  <2>1. F.length >= Sizes.header + Sizes.footer
    BY FramePasses
  <2>2. /\ opc = "size" /\ opc' = "frame"
        /\ previous' = previous /\ floor' = floor /\ total' = total /\ status' = status
    BY <1>3, <1>4, <2>1 DEF Open!CheckSize, Open!Checks, Open!GoesOn
  <2> QED
    BY <1>2, <2>2 DEF OpeningAt
<1>5. CASE Open!CheckFrame
  <2>1. /\ F.head = "mmpack" /\ F.foot.mark = "mmpack" /\ F.foot.image_size = F.length
        /\ Open!SchemaBlockInside
    BY FramePasses
  <2>2. /\ opc = "frame" /\ opc' = "schema"
        /\ previous' = previous /\ floor' = floor /\ total' = total /\ status' = status
    BY <1>3, <1>5, <2>1 DEF Open!CheckFrame, Open!GoesOn
  <2> QED
    BY <1>2, <2>2 DEF OpeningAt
<1>6. CASE Open!OpenSchema
  <2>1. Open!SchemaHeaderOk
    BY SchemaPasses
  <2>2. /\ opc = "schema" /\ opc' = "fields" /\ item' = 0
        /\ previous' = previous /\ floor' = floor /\ total' = total /\ status' = status
    BY <1>6, <2>1 DEF Open!OpenSchema, Open!Checks, Open!GoesOn
  <2> QED
    BY <1>1, <1>2, <2>2 DEF OpeningAt
<1>7. CASE Open!CheckField
  <2>1. opc = "fields" /\ item < F.schema.field_count /\ item \in 0..(F.schema.field_count - 1)
    BY <1>1, <1>2, <1>3, <1>7 DEF Open!CheckField
  <2>2. Open!FieldOk(F.schema.fields[item])
    BY <2>1, FieldsPass
  <2>3. /\ opc' = "fields" /\ item' = item + 1
        /\ previous' = previous /\ floor' = floor /\ total' = total /\ status' = status
    BY <1>3, <1>7, <2>1, <2>2 DEF Open!CheckField, Open!Iterates
  <2>4. item + 1 \in 0..F.schema.field_count
    BY <1>1, <2>1
  <2> QED
    BY <1>2, <2>1, <2>3, <2>4 DEF OpeningAt
<1>8. CASE Open!EndFields
  <2>1. /\ opc = "fields" /\ opc' = "geometry"
        /\ previous' = previous /\ floor' = floor /\ total' = total /\ status' = status
    BY <1>8 DEF Open!EndFields, Open!GoesOn
  <2> QED
    BY <1>2, <2>1 DEF OpeningAt
<1>9. CASE Open!CheckGeometry
  <2>1. /\ F.schema.record_stride # 0 /\ ~(F.schema.record_stride < F.schema.address_width)
        /\ Open!has_key_mapping(F.schema) => Open!narrow_address(F.schema)
        /\ Open!DirStride(Open!dir) # 0
        /\ (Open!dir.partition = 0) = F.foot.dense
        /\ Open!DirectoryInside
    <3>1. F.schema.record_stride \in Nat /\ F.schema.address_width \in Nat
      BY StridesAre
    <3> QED
      BY <3>1, GeometryPasses
  <2>2. /\ opc = "geometry" /\ opc' = "slots" /\ item' = 0
        /\ previous' = previous /\ floor' = floor /\ total' = total /\ status' = status
    BY <1>3, <1>9, <2>1 DEF Open!CheckGeometry, Open!GoesOn
  <2>3. floor = Sizes.header /\ total = 0
    BY <1>2, <2>2
  <2>4. SlotsPassed(0, previous, floor, total)
    <3>1. ASSUME NEW t \in 0..(DirCount - 1), dir_slot(F, t).count # 0
          PROVE  floor <= dir_slot(F, t).offset
      <4>1. Out[t].count # 0
        BY <3>1, SlotDecodes
      <4>2. PICK n \in 1..Len(directory) : Out[t] = directory[n].entry
        BY <4>1, DirSlotIs
      <4>3. Sizes.header <= dir_slot(F, t).offset
        BY <3>1, <4>2, SlotBlock
      <4> QED
        BY <2>3, <4>3
    <3>2. total = CountBefore(0)
      BY <2>3, CountsAddUp
    <3>3. 0 \in 0..DirCount
      BY <1>1
    <3> QED
      BY <3>1, <3>2, <3>3 DEF SlotsPassed
  <2> QED
    BY <1>2, <2>2, <2>4 DEF OpeningAt
<1>10. CASE Open!CheckSlot
  <2>1. opc = "slots" /\ item < DirCount
    BY <1>3, <1>10 DEF Open!CheckSlot, DirCount
  <2>2. Open!dir_slot(F, item) = dir_slot(F, item)
    BY ReaderOperators
  <2>3. /\ Open!SlotOk(dir_slot(F, item))
        /\ SlotsPassed(item + 1, dir_slot(F, item).partition,
                       IF dir_slot(F, item).count # 0 THEN Open!RecordsEnd(dir_slot(F, item)) ELSE floor,
                       Open!Plus(total, dir_slot(F, item).count))
    BY <2>1, SlotStep
  <2>4. /\ item' = item + 1 /\ previous' = dir_slot(F, item).partition
        /\ floor' = IF dir_slot(F, item).count # 0 THEN Open!RecordsEnd(dir_slot(F, item)) ELSE floor
        /\ total' = Open!Plus(total, dir_slot(F, item).count)
        /\ opc' = opc /\ status' = status
    BY <1>3, <1>10, <2>2, <2>3 DEF Open!CheckSlot
  <2>5. SlotsPassed(item', previous', floor', total')
    BY <2>3, <2>4
  <2> QED
    BY <1>2, <2>1, <2>4, <2>5 DEF OpeningAt
<1>11. CASE Open!CheckTotal
  <2>1. opc = "slots" /\ item = DirCount
    BY <1>3, <1>11 DEF Open!CheckTotal, DirCount
  <2>2. total = CountBefore(item)
    BY <1>2, <2>1 DEF SlotsPassed
  <2>3. total = F.foot.record_count
    BY <1>1, <2>1, <2>2, CountsAddUp
  <2>4. opc' = "dictionaries" /\ item' = 0 /\ status' = status
    BY <1>3, <1>11, <2>3 DEF Open!CheckTotal, Open!GoesOn
  <2> QED
    BY <1>1, <1>2, <2>1, <2>4 DEF OpeningAt
<1>12. CASE Open!CheckDictBlock
  <2>1. opc = "dictionaries" /\ item < F.schema.dict_count
        /\ item \in 0..(F.schema.dict_count - 1)
    BY <1>1, <1>2, <1>3, <1>12 DEF Open!CheckDictBlock
  <2>2. Open!DictInside(F.schema.dicts[item])
    BY <2>1, DictsPass
  <2>3. opc' = "dictionary" /\ item' = item /\ status' = status
    BY <1>3, <1>12, <2>2 DEF Open!CheckDictBlock
  <2> QED
    BY <1>2, <2>1, <2>3 DEF OpeningAt
<1>13. CASE Open!CheckDictHeader
  <2>1. opc = "dictionary" /\ item \in 0..(F.schema.dict_count - 1)
    BY <1>2, <1>13 DEF Open!CheckDictHeader
  <2>2. item + 1 \in 0..F.schema.dict_count
    BY <1>1, <2>1
  <2>3. CASE Open!IsValueDict(item)
    <3>1. opc' = "dictionaries" /\ item' = item + 1 /\ status' = status
      BY <1>13, <2>3 DEF Open!CheckDictHeader
    <3> QED
      BY <1>2, <2>1, <2>2, <3>1 DEF OpeningAt
  <2>4. CASE ~Open!IsValueDict(item)
    <3>1. opc' = "offsets" /\ item' = item /\ status' = status
      BY <1>13, <2>4 DEF Open!CheckDictHeader
    <3>2. ~(is_interned(F) /\ item = F.schema.value_dict)
      BY <1>1, <2>4
    <3> QED
      BY <1>2, <2>1, <3>1, <3>2 DEF OpeningAt
  <2> QED
    BY <2>3, <2>4
<1>14. CASE Open!CheckOffsets
  <2>1. opc = "offsets" /\ item \in 0..(F.schema.dict_count - 1)
    BY <1>2, <1>14 DEF Open!CheckOffsets
  <2>2. item + 1 \in 0..F.schema.dict_count
    BY <1>1, <2>1
  <2>3. opc' = "dictionaries" /\ item' = item + 1 /\ status' = status
    BY <1>14 DEF Open!CheckOffsets
  <2> QED
    BY <1>2, <2>1, <2>2, <2>3 DEF OpeningAt
<1>15. CASE Open!DictRejected
  <2>1. item \in 0..(F.schema.dict_count - 1)
    BY <1>2, <1>15 DEF Open!DictRejected
  <2>2. /\ Open!IsValueDict(item) => Open!FixedOk(F.dicts[item], F.schema.dicts[item].size)
        /\ ~Open!IsValueDict(item) => /\ Open!BlobOk(F.dicts[item], F.schema.dicts[item].size)
                                      /\ Open!OffsetsOk(F.dicts[item])
    BY <2>1, DictsPass
  <2>3. CASE opc = "dictionary"
    BY <1>3, <1>15, <2>2, <2>3 DEF Open!DictRejected
  <2>4. CASE opc = "offsets"
    <3>1. ~Open!IsValueDict(item)
      BY <1>1, <1>2, <2>4
    <3> QED
      BY <1>3, <1>15, <2>2, <2>4, <3>1 DEF Open!DictRejected
  <2> QED
    BY <1>15, <2>3, <2>4 DEF Open!DictRejected
<1>16. CASE Open!EndDicts
  <2>1. opc = "dictionaries" /\ opc' = "texts" /\ item' = 0 /\ status' = status
    BY <1>16 DEF Open!EndDicts, Open!GoesOn
  <2> QED
    BY <1>1, <1>2, <2>1 DEF OpeningAt
<1>17. CASE Open!CheckTextField
  <2>1. opc = "texts" /\ item < F.schema.field_count /\ item \in 0..(F.schema.field_count - 1)
    BY <1>1, <1>2, <1>3, <1>17 DEF Open!CheckTextField
  <2>2. ~(F.schema.fields[item].kind = "text"
            /\ Open!IsValueDict(F.schema.fields[item].dict_index))
    BY <2>1, TextFieldsPass
  <2>3. opc' = opc /\ item' = item + 1 /\ status' = status
    BY <1>3, <1>17, <2>2 DEF Open!CheckTextField, Open!Iterates
  <2>4. item + 1 \in 0..F.schema.field_count
    BY <1>1, <2>1
  <2> QED
    BY <1>2, <2>1, <2>3, <2>4 DEF OpeningAt
<1>18. CASE Open!Accept
  <2>1. opc' = "done" /\ status' = "ok"
    BY <1>18 DEF Open!Accept, Open!Returns
  <2> QED
    BY <2>1 DEF OpeningAt
<1> QED
  BY <1>4, <1>5, <1>6, <1>7, <1>8, <1>9, <1>10, <1>11, <1>12, <1>13, <1>14, <1>15, <1>16,
     <1>17, <1>18 DEF Open!Next

----------------------------------------------------------------------------
(* Every build, and the opening of the file it wrote.                      *)

(* What keeps the file Laid out, for the steps of both.                    *)
AcceptedInv ==
    /\ BuiltInv
    /\ CountInv /\ BlobInv
    /\ ShapeInv /\ DictsInv /\ ContentsInv
    /\ RoomInv /\ HeadersInv /\ FrameInv
    /\ AcceptInv

(* A written file of these hypotheses has every property its checks need.  *)
LEMMA WrittenIsLaid ==
    ASSUME BuiltInv, CountInv, BlobInv, ShapeInv, DictsInv, ContentsInv, HeadersInv, FrameInv,
           wpc = "written", AddressFits, ImageFits
    PROVE  Laid
<1>1. file # None /\ FileWritten
  BY DEF BuiltInv, FileInv
<1>2. pos < WordSize
  BY <1>1 DEF ImageFits, FileWritten, WrittenAs
<1>3. SortedFlagExact
  BY DEF BuiltInv, OrderInv
<1>4. Finished
  BY <1>1, <1>2, <1>3 DEF BuiltInv, Finished
<1> QED
  BY <1>4 DEF Laid

(* A build starts no opening.                                              *)
LEMMA InitAccepted == BuildInit => AcceptedInv
<1> SUFFICES ASSUME BuildInit PROVE AcceptedInv
  OBVIOUS
<1>1. Init /\ BuilderInit /\ Open!OpenInit /\ wpc = "off" /\ row = 0 /\ dicts = <<>>
      /\ directory = <<>> /\ file = None
  BY DEF BuildInit, Init
<1>2. BuiltInv
  BY InitBuilt
<1>3. Len(dicts) = 0 /\ Len(directory) = 0 /\ \A f \in TextFields : text_slot(f) \in Nat
  BY <1>1, TextSlots
<1>4. CountInv
  BY <1>1 DEF BuilderInit, NoStaging, CountInv, Rows
<1>5. BlobInv
  <2>1. ASSUME NEW f \in TextFields PROVE TextBytes(f) <= MaxBlob
    <3>1. Len(texts[f]) = 0
      <4>1. f \in Fields
        BY <2>1 DEF TextFields
      <4>2. texts[f] = <<>>
        BY <1>1, <4>1 DEF BuilderInit
      <4> QED
        BY <4>2
    <3>2. TextBytes(f) = 0
      BY <3>1, NoBytes DEF TextBytes
    <3> QED
      BY <3>2, BuilderAssumption
  <2> QED
    BY <2>1 DEF BlobInv
<1>6. ShapeInv /\ ContentsInv
  BY <1>1 DEF ShapeInv, ContentsInv
<1>7. DictsInv
  BY <1>1, <1>3 DEF DictsInv
<1>8. RoomInv
  BY <1>1, <1>3 DEF RoomInv
<1>9. HeadersInv
  <2>1. \A f \in TextFields : ~(text_slot(f) < Len(dicts))
    BY <1>3
  <2> QED
    BY <1>1, <2>1 DEF HeadersInv
<1>10. FrameInv
  BY <1>1 DEF FrameInv
<1>11. AcceptInv
  BY <1>1 DEF AcceptInv, Unopened, Open!OpenInit
<1> QED
  BY <1>2, <1>4, <1>5, <1>6, <1>7, <1>8, <1>9, <1>10, <1>11 DEF AcceptedInv

(* What an opening has passed depends on the file alone.                   *)
LEMMA ProgressKept ==
    ASSUME file' = file, NEW o, NEW k, NEW p, NEW fl, NEW tt, NEW st,
           o = opc', k = item', p = previous', fl = floor', tt = total', st = status',
           OpeningAt(o, k, p, fl, tt, st)
    PROVE  Progress'
BY DEF Progress, OpeningAt, SlotsPassed, CountBefore, DirCount, F

(* A build step opens nothing, and none follows the written file.          *)
LEMMA BuildKeepsAccept ==
    WalkInv /\ AcceptInv /\ Build => AcceptInv'
<1> SUFFICES ASSUME WalkInv, AcceptInv, Build PROVE AcceptInv'
  OBVIOUS
<1>1. Next /\ opc' = opc /\ item' = item /\ previous' = previous /\ floor' = floor
      /\ total' = total /\ status' = status
  BY DEF Build, opening_vars
<1>2. CASE wpc = "written"
  <2>1. ~Writing /\ ~SinkFails
    BY <1>2 DEF Writing, StartLayout, MeasureRun, Price, WriteTextDict, EndDictionaries,
                WriteRun, EndRecords, WriteDirectory, SinkFails
  <2>2. ~Consume
    BY <1>2 DEF Consume, WalkInv
  <2> QED
    BY <1>1, <2>1, <2>2 DEF Next
<1>3. CASE wpc # "written"
  <2>1. Unopened
    BY <1>3 DEF AcceptInv
  <2>2. Unopened'
    BY <1>1, <2>1 DEF Unopened
  <2>3. Progress'
    BY <2>2 DEF Unopened, Progress, OpeningAt
  <2> QED
    BY <2>2, <2>3 DEF AcceptInv
<1> QED
  BY <1>2, <1>3

(* An opening step passes its check.                                       *)
LEMMA OpeningKeepsAccept ==
    ASSUME BuiltInv, CountInv, BlobInv, ShapeInv, DictsInv, ContentsInv, HeadersInv, FrameInv,
           AcceptInv, Opening
    PROVE  AcceptInv'
<1>1. wpc = "written" /\ Open!Next /\ UNCHANGED vars
  BY DEF Opening
<1>2. wpc' = wpc /\ file' = file /\ blob' = blob /\ wide_width' = wide_width
  BY <1>1 DEF vars, writer_vars, output_vars, builder_vars, world
<1>3. AddressFits' /\ ImageFits' => AddressFits /\ ImageFits
  BY <1>2 DEF AddressFits, ImageFits, wide
<1>4. ASSUME AddressFits', ImageFits' PROVE Progress'
  <2>1. Laid
    BY <1>1, <1>3, <1>4, WrittenIsLaid
  <2>2. Progress
    BY <1>1, <1>3, <1>4 DEF AcceptInv
  <2>3. OpeningAt(opc', item', previous', floor', total', status')
    BY <1>1, <2>1, <2>2, OpeningAdvances
  <2> QED
    BY <1>2, <2>3, ProgressKept
<1> QED
  BY <1>1, <1>2, <1>4 DEF AcceptInv

(* Every step keeps all of it.                                             *)
LEMMA NextAccepted == AcceptedInv /\ [BuildNext]_all_vars => AcceptedInv'
<1> SUFFICES ASSUME AcceptedInv, [BuildNext]_all_vars PROVE AcceptedInv'
  OBVIOUS
<1>1. [Next]_vars
  BY DEF BuildNext, Build, Opening, all_vars
<1>2. /\ BuiltInv /\ TypeOK /\ Shape /\ WalkInv /\ TypesInv /\ RangesInv /\ SlotsInv
      /\ PlacesInv /\ FileInv
      /\ CountInv /\ BlobInv /\ ShapeInv /\ DictsInv /\ ContentsInv
      /\ RoomInv /\ HeadersInv /\ FrameInv /\ AcceptInv
  BY DEF AcceptedInv, BuiltInv
<1>3. [BuilderNext]_builder_vars
  BY <1>1, BuilderSteps
<1>4. BuiltInv'
  BY <1>2, NextBuilt
<1>5. TypeOK' /\ TypesInv'
  BY <1>4 DEF BuiltInv
<1>6. CountInv'
  BY <1>2, <1>3, <1>5, NextCount
<1>7. BlobInv'
  BY <1>2, <1>3, NextBlobs
<1>8. ShapeInv'
  BY <1>1, <1>2, NextShape
<1>9. DictsInv'
  BY <1>1, <1>2, <1>5, NextDicts
<1>10. ContentsInv'
  BY <1>1, <1>2, NextContents
<1>11. RoomInv'
  BY <1>1, <1>2, <1>5, NextRoom
<1>12. HeadersInv'
  BY <1>1, <1>2, NextHeaders
<1>13. FrameInv'
  BY <1>1, <1>2, NextFrame
<1>14. AcceptInv'
  <2>1. CASE Build
    BY <1>2, <2>1, BuildKeepsAccept
  <2>2. CASE Opening
    BY <1>2, <2>2, OpeningKeepsAccept
  <2>3. CASE UNCHANGED all_vars
    <3>1. wpc' = wpc /\ file' = file /\ blob' = blob /\ wide_width' = wide_width
          /\ opc' = opc /\ item' = item /\ previous' = previous
          /\ floor' = floor /\ total' = total /\ status' = status
      BY <2>3 DEF all_vars, vars, writer_vars, output_vars, builder_vars, world, opening_vars
    <3>2. AddressFits' /\ ImageFits' => AddressFits /\ ImageFits
      BY <3>1 DEF AddressFits, ImageFits, wide
    <3>3. ASSUME wpc = "written", AddressFits', ImageFits' PROVE Progress'
      <4>1. OpeningAt(opc, item, previous, floor, total, status)
        BY <1>2, <3>2, <3>3 DEF AcceptInv, Progress
      <4> QED
        BY <3>1, <4>1, ProgressKept
    <3>4. wpc # "written" => Unopened'
      BY <1>2, <3>1 DEF AcceptInv, Unopened
    <3> QED
      BY <3>1, <3>3, <3>4 DEF AcceptInv
  <2> QED
    BY <2>1, <2>2, <2>3 DEF BuildNext
<1> QED
  BY <1>4, <1>6, <1>7, <1>8, <1>9, <1>10, <1>11, <1>12, <1>13, <1>14 DEF AcceptedInv

(* A file that finish wrote is never rejected: table::try_open, in all of  *)
(* its checks, finds nothing wrong with the offsets, widths, sizes and     *)
(* counts that choose_layout and write_image derived, whatever the client  *)
(* committed, in whatever order and with whatever options.  A byte address *)
(* is shorter than 256 bytes and the file shorter than 2^64.               *)
THEOREM WrittenFilesOpen ==
    BuildSpec => [](AddressFits /\ ImageFits => WrittenOpens)
<1>1. BuildInit => AcceptedInv
  BY InitAccepted
<1>2. AcceptedInv /\ [BuildNext]_all_vars => AcceptedInv'
  BY NextAccepted
<1>3. AcceptedInv => (AddressFits /\ ImageFits => WrittenOpens)
  <2> SUFFICES ASSUME AcceptInv, AddressFits, ImageFits PROVE WrittenOpens
    BY DEF AcceptedInv
  <2>1. CASE wpc = "written"
    BY <2>1 DEF AcceptInv, Progress, OpeningAt, WrittenOpens
  <2>2. CASE wpc # "written"
    BY <2>2 DEF AcceptInv, Unopened, WrittenOpens
  <2> QED
    BY <2>1, <2>2
<1> QED
  BY <1>1, <1>2, <1>3, PTL DEF BuildSpec

----------------------------------------------------------------------------
(* From end to end: what was committed is what a lookup finds.             *)

(* The proofs about a table, for the table that was opened.                *)
P == INSTANCE TableLookupProofs WITH
    Images <- {}, img <- image[1], slot <- at_slot, index <- at_index

(* TableLookupProofs has definitions of its own of the lookup and of the   *)
(* image it reads; they say what those of the library say. So the steps:   *)
LEMMA SameSteps == P!Next = Table!Next
BY DEF P!Byte, Table!Byte, P!WordSize, Table!WordSize, P!Word, Table!Word, P!Digit,
       Table!Digit, P!Minus, Table!Minus, P!Plus, Table!Plus, P!load_uint, Table!load_uint,
       P!LexLess, Table!LexLess, P!LexLeq, Table!LexLeq, P!NarrowKey, Table!NarrowKey,
       P!WideKey, Table!WideKey, P!KeyLess, Table!KeyLess, P!MapThenSumSet,
       Table!MapThenSumSet, P!MapThenFoldSet, Table!MapThenFoldSet, P!Min, Table!Min,
       P!narrow_address, Table!narrow_address, P!has_key_mapping, Table!has_key_mapping,
       P!partition_of, Table!partition_of, P!address_of, Table!address_of,
       P!slot_partition, Table!slot_partition, P!slot_count, Table!slot_count,
       P!probe_narrow, Table!probe_narrow, P!probe_wide, Table!probe_wide, P!NoCall,
       Table!NoCall, P!End, Table!End, P!At, Table!At, P!Target, Table!Target, P!Sought,
       Table!Sought, P!FirstSlots, Table!FirstSlots, P!Begin, Table!Begin, P!Return,
       Table!Return, P!Goto, Table!Goto, P!Walk, Table!Walk, P!Ask, Table!Ask, P!AskBegin,
       Table!AskBegin, P!AskNext, Table!AskNext, P!AskPrev, Table!AskPrev, P!ReturnEnd,
       Table!ReturnEnd, P!Mid, Table!Mid, P!Bisect, Table!Bisect, P!SlotGoesRight,
       Table!SlotGoesRight, P!DirectoryStep, Table!DirectoryStep, P!RecordGoesRight,
       Table!RecordGoesRight, P!PastAll, Table!PastAll, P!HasTail, Table!HasTail,
       P!SearchSlot, Table!SearchSlot, P!FloorBefore, Table!FloorBefore, P!BoundSlotFound,
       Table!BoundSlotFound, P!FindSlotFound, Table!FindSlotFound, P!FloorSlotFound,
       Table!FloorSlotFound, P!RecordsStep, Table!RecordsStep, P!BoundRecordFound,
       Table!BoundRecordFound, P!StoredMatches, Table!StoredMatches, P!FindRecordFound,
       Table!FindRecordFound, P!FloorRecordFound, Table!FloorRecordFound, P!NormalizeStep,
       Table!NormalizeStep, P!NormalizeDone, Table!NormalizeDone, P!FloorStep,
       Table!FloorStep, P!RetreatStep, Table!RetreatStep, P!Asks, Table!Asks, P!Steps,
       Table!Steps, P!Next, Table!Next

(* ... where a client starts ...                                           *)
LEMMA SameStart == P!NoCall = Table!NoCall /\ \A m : P!Begin(m) = Table!Begin(m)
BY DEF P!NoCall, Table!NoCall, P!End, Table!End, P!At, Table!At, P!FirstSlots,
       Table!FirstSlots, P!Begin, Table!Begin, P!slot_count, Table!slot_count, P!Min,
       Table!Min

(* ... what an image holds ...                                             *)
LEMMA SameImage ==
    /\ \A m : P!WellFormed(m) = WellFormed(m)
    /\ \A m : P!Contents(m) = Contents(m)
    /\ \A m, s, i : P!KeyAt(m, s, i) = KeyAt(m, s, i)
    /\ \A k, l : P!KeyLess(k, l) = KeyLess(k, l)
BY DEF P!Byte, Byte, P!WordSize, WordSize, P!Word, Word, P!Digit, Digit, P!Minus, Minus,
       P!Plus, Plus, P!load_uint, load_uint, P!store_uint, store_uint, P!LexLess, LexLess,
       P!LexLeq, LexLeq, P!NarrowKey, NarrowKey, P!WideKey, WideKey, P!KeyLess, KeyLess,
       P!narrow_address, narrow_address, P!has_key_mapping, has_key_mapping,
       P!partition_of, partition_of, P!address_of, address_of, P!slot_partition,
       slot_partition, P!slot_count, slot_count, P!address_at, address_at,
       P!address_into_at, address_into_at, P!KeyAt, KeyAt, P!Contents, Contents,
       P!WellFormed, WellFormed, P!Min, Min, P!MapThenSumSet, MapThenSumSet,
       P!MapThenFoldSet, MapThenFoldSet

(* ... its first and its last key ...                                      *)
LEMMA SameOrder ==
  \A S : P!Map!Least(S) = Committed!Map!Least(S) /\ P!Map!Greatest(S) = Committed!Map!Greatest(S)
BY SameImage DEF P!Map!Least, P!Map!Greatest, Committed!Map!Least, Committed!Map!Greatest

(* ... which keys lie on either side of a query, when the image holds the *)
(* committed keys ...                                                      *)
LEMMA SameBounds ==
    ASSUME Contents(image[1]) = CommittedKeys, NEW t
    PROVE  /\ P!Map!NotBelow(t) = Committed!Map!NotBelow(t)
           /\ P!Map!Above(t) = Committed!Map!Above(t)
           /\ P!Map!NotAbove(t) = Committed!Map!NotAbove(t)
           /\ P!Map!Below(t) = Committed!Map!Below(t)
BY SameImage DEF P!Map!NotBelow, P!Map!Above, P!Map!NotAbove, P!Map!Below,
   Committed!Map!NotBelow, Committed!Map!Above, Committed!Map!NotAbove, Committed!Map!Below

(* ... and what a lookup must find.                                        *)
LEMMA SameFound ==
    ASSUME pc # "closed", Contents(image[1]) = CommittedKeys, NEW r
    PROVE  P!Map!Found(r) = Committed!Map!Found(r)
BY SameImage, SameOrder, SameBounds DEF P!Map!Found, Committed!Map!Found

(* A one-to-one function of 1..N into itself is onto.                      *)
LEMMA OntoItself ==
    ASSUME NEW N \in Nat, NEW p \in [1..N -> 1..N],
           \A i, j \in 1..N : p[i] = p[j] => i = j
    PROVE  \A n \in 1..N : \E m \in 1..N : p[m] = n
<1> DEFINE D == 1..N
<1>1. p \in Injection(D, D)
  BY DEF Injection, IsInjective
<1>2. IsFiniteSet(D)
  BY FS_Interval
<1>3. p \in Surjection(D, D)
  BY <1>1, <1>2, FS_Injection
<1> QED
  BY <1>3 DEF Surjection

(* A call of the builder commits one key or none: finish reorders the      *)
(* records and loses none.                                                 *)
LEMMA BuilderCommits ==
    ASSUME TypeOK, Shape, CoverInv, [BuilderNext]_builder_vars
    PROVE  CommittedKeys' = CommittedKeys \/ \E k : CommittedKeys' = CommittedKeys \cup {k}
<1>1. CASE log' = log
  BY <1>1 DEF CommittedKeys
<1>2. CASE \E e : log' = Append(log, e)
  <2>1. PICK e : log' = Append(log, e)
    BY <1>2
  <2>2. Len(log) \in Nat /\ DOMAIN log = 1..Len(log)
    BY DEF CoverInv
  <2>3. DOMAIN log' = 1..(Len(log) + 1)
        /\ \A n \in 1..(Len(log) + 1) : log'[n] = IF n = Len(log) + 1 THEN e ELSE log[n]
    BY <2>1, <2>2
  <2>4. CommittedKeys' = CommittedKeys \cup {e.key}
    BY <2>2, <2>3 DEF CommittedKeys
  <2> QED
    BY <2>4
<1>3. CASE finish
  <2>1. DOMAIN Entering.rows = 1..Len(log) /\ Len(log) \in Nat /\ DOMAIN log = 1..Len(log)
    BY EnteringType DEF CoverInv, Shape, NoStaging
  <2>2. log' = log \/ \E p \in SortingPermutations(Entering) : log' = Permuted(log, p)
    BY <1>3 DEF finish, Entering
  <2>3. ASSUME NEW p \in SortingPermutations(Entering), log' = Permuted(log, p)
        PROVE  CommittedKeys' = CommittedKeys
    <3>1. /\ p \in [1..Len(log) -> 1..Len(log)]
          /\ \A i, j \in 1..Len(log) : p[i] = p[j] => i = j
      BY <2>1 DEF SortingPermutations
    <3>2. /\ \A n \in 1..Len(log) : \E m \in 1..Len(log) : p[m] = n
          /\ \A m \in 1..Len(log) : p[m] \in 1..Len(log)
      BY <2>1, <3>1, OntoItself
    <3>3. \A k : k \in CommittedKeys <=> \E n \in 1..Len(log) : k = log[n].key
      BY <2>1 DEF CommittedKeys
    <3>4. \A k : k \in CommittedKeys' <=> \E n \in 1..Len(log) : k = log[p[n]].key
      <4>1. DOMAIN log' = 1..Len(log) /\ \A n \in 1..Len(log) : log'[n] = log[p[n]]
        BY <2>1, <2>3 DEF Permuted
      <4> QED
        BY <4>1 DEF CommittedKeys
    <3>5. \A k : k \in CommittedKeys' => k \in CommittedKeys
      BY <3>2, <3>3, <3>4
    <3>6. \A k : k \in CommittedKeys => k \in CommittedKeys'
      BY <3>2, <3>3, <3>4
    <3> QED
      BY <3>5, <3>6
  <2> QED
    BY <1>1, <2>2, <2>3
<1> QED
  BY <1>1, <1>2, <1>3
     DEF BuilderNext, builder_vars, client, Throws, begin_record, begin_record_at, BeginNarrow,
         begin_record_at_wide, SetField, SetRejected, commit, CommitRejected, CommitRefused,
         set_staging, SetStagingRejected, BeginRejected, FinishRejected

(* The table try_open returns is well formed and holds exactly the keys    *)
(* the client committed.                                                   *)
LEMMA OpenedTable ==
    ASSUME RecordsInv, LongAddresses, ImageFits, status = "ok"
    PROVE  /\ wpc = "written"
           /\ WellFormed(image[1])
           /\ Contents(image[1]) = CommittedKeys
<1> DEFINE m == image[1]
<1>1. wpc = "written" /\ file # None /\ FileWritten
  BY DEF RecordsInv, BuiltInv, OpenedInv, FileInv
<1>2. pos < WordSize
  BY <1>1 DEF ImageFits, FileWritten, WrittenAs
<1>3. SortedFlagExact
  BY DEF RecordsInv, BuiltInv, OrderInv
<1>4. AddressFits
  BY FormatAssumption, WordAssumption DEF LongAddresses, AddressFits
<1>5. Finished
  BY <1>1, <1>2, <1>3, <1>4 DEF RecordsInv, BuiltInv, Finished
<1>6. Complete
  BY <1>5 DEF RecordsInv, Complete
<1>7. m = Attach(file[1])
  BY <1>1 DEF image, Some
<1> HIDE DEF m
<1>8. WellFormed(m)
  BY <1>5, <1>7, FinishedWellFormed
<1>9. /\ Len(log) = Len(Rows) /\ Len(Rows) \in Nat /\ DOMAIN log = 1..Len(log)
      /\ \A n \in 1..Len(Rows) : KeyOfRow(n) = log[n].key
  BY <1>6, CompleteIs DEF Complete, MeansInv, CoverInv, KeyOfRow, Rows
<1>10. ASSUME NEW s, NEW x, NEW n, RowAt(s, x, n)
       PROVE  n \in 1..Len(Rows) /\ KeyAt(m, s, x) = log[n].key
  BY <1>5, <1>7, <1>9, <1>10, KeyReads
<1>11. DOMAIN Out = 0..(m.dir_count - 1) /\ \A s \in DOMAIN Out : slot_count(m, s) = Out[s].count
  BY <1>6, <1>7, PlacesOfSlot
<1>12. ASSUME NEW s \in 0..(m.dir_count - 1), NEW x \in 0..(slot_count(m, s) - 1)
       PROVE  \E n \in DOMAIN log : KeyAt(m, s, x) = log[n].key
  <2>1. s \in DOMAIN Out /\ x \in 0..(Out[s].count - 1)
    BY <1>11
  <2>2. PICK n \in 1..Len(Rows) : RowAt(s, x, n)
    BY <1>5, <2>1, RecordsHaveRows
  <2> QED
    BY <1>9, <1>10, <2>2
<1>13. ASSUME NEW n \in DOMAIN log
       PROVE  \E s \in 0..(m.dir_count - 1) : \E x \in 0..(slot_count(m, s) - 1) :
                 KeyAt(m, s, x) = log[n].key
  <2>1. PICK p \in Places(m) : RowAt(p[1], p[2], n)
    BY <1>6, <1>7, <1>9, PlacesAreRows
  <2>2. p[1] \in 0..(m.dir_count - 1) /\ p[2] \in Nat /\ p[2] < slot_count(m, p[1])
    BY <1>9 DEF Places
  <2>3. slot_count(m, p[1]) \in Nat
    BY <1>6, <1>7, <1>11, <2>2, PlacesOfSlot
  <2>4. p[2] \in 0..(slot_count(m, p[1]) - 1)
    BY <2>2, <2>3
  <2> QED
    BY <1>10, <2>1, <2>2, <2>4
<1>14. Contents(m) = CommittedKeys
  <2>1. \A k : k \in Contents(m) <=> \E s \in 0..(m.dir_count - 1) :
                 \E x \in 0..(slot_count(m, s) - 1) : k = KeyAt(m, s, x)
    BY DEF Contents
  <2>2. \A k : k \in CommittedKeys <=> \E n \in DOMAIN log : k = log[n].key
    BY DEF CommittedKeys
  <2>3. \A k : k \in Contents(m) => k \in CommittedKeys
    BY <1>12, <2>1, <2>2
  <2>4. \A k : k \in CommittedKeys => k \in Contents(m)
    BY <1>13, <2>1, <2>2
  <2> QED
    BY <2>3, <2>4
<1> QED
  BY <1>1, <1>8, <1>14 DEF m

(* Nothing changes the log, the file or the verdict once it is opened.     *)
LEMMA TableStays ==
    ASSUME RecordsInv, AcceptedInv, LongAddresses, ImageFits, status = "ok",
           [BuildNext]_all_vars
    PROVE  UNCHANGED <<log, file, status>>
<1>1. WalkInv /\ wpc = "written"
  BY DEF RecordsInv, BuiltInv, OpenedInv
<1>2. AddressFits
  BY FormatAssumption, WordAssumption DEF LongAddresses, AddressFits
<1>3. opc = "done"
  BY <1>1, <1>2 DEF AcceptedInv, AcceptInv, Progress, OpeningAt
<1>4. ~Opening
  BY <1>3 DEF Opening, Open!Next, Open!CheckSize, Open!CheckFrame, Open!OpenSchema,
     Open!CheckField, Open!EndFields, Open!CheckGeometry, Open!CheckSlot, Open!CheckTotal,
     Open!CheckDictBlock, Open!CheckDictHeader, Open!CheckOffsets, Open!DictRejected,
     Open!EndDicts, Open!CheckTextField, Open!Accept, Open!Checks
<1>5. ~Next
  <2>1. ~Writing /\ ~SinkFails
    BY <1>1 DEF Writing, StartLayout, MeasureRun, Price, WriteTextDict, EndDictionaries,
                WriteRun, EndRecords, WriteDirectory, SinkFails
  <2>2. ~Consume
    BY <1>1 DEF Consume, WalkInv
  <2> QED
    BY <2>1, <2>2 DEF Next
<1> QED
  BY <1>4, <1>5 DEF BuildNext, Build, all_vars, vars, builder_vars, client, writer_vars,
     output_vars, opening_vars

(* A client that starts at begin() satisfies the invariant of the lookups. *)
LEMMA FreshTable == P!Fresh => P!SearchInv /\ P!Map!Init
BY P!FreshImplements, WordAssumption, LibraryAssumption
   DEF P!Word, P!WordSize, P!Byte, Word, WordSize, Byte

(* ... in the next state as in this one.                                   *)
LEMMA FreshTableNext == (P!Fresh)' => (P!SearchInv)' /\ (P!Map!Init)'
BY FreshTable, PTL

(* Every step of a lookup keeps that invariant and is one of the map.      *)
LEMMA TableNext ==
    P!SearchInv /\ [P!Next]_(P!vars) => (P!SearchInv)' /\ [P!Map!Next]_(P!Map!vars)
BY P!NextImplements, WordAssumption, LibraryAssumption
   DEF P!Word, P!WordSize, P!Byte, Word, WordSize, Byte

(* Before the table there is no iterator; after it, the file is the        *)
(* accepted one and the search is where TableLookupProofs says.            *)
LibraryInv ==
    /\ RecordsInv /\ AcceptedInv
    /\ pc = "closed" =>
          call = Table!NoCall /\ lo = 0 /\ len = 0 /\ at_slot = 0 /\ at_index = 0
    /\ pc # "closed" => status = "ok" /\ P!SearchInv

(* The key the iterator is at, and a step of the promised map.             *)
Cursor == IF pc # "closed" /\ it.slot < image[1].dir_count
          THEN {KeyAt(image[1], it.slot, it.index)} ELSE {}

Committing == [Committed!Next]_(Committed!vars)

(* A client without a table, and nothing committed, start both.            *)
LEMMA InitLibrary == LibraryInit => LibraryInv /\ Committed!Init
<1> SUFFICES ASSUME LibraryInit PROVE LibraryInv /\ Committed!Init
  OBVIOUS
<1>1. RecordsInv /\ AcceptedInv
  BY InitRecords, InitAccepted DEF LibraryInit
<1>2. log = <<>>
  BY DEF LibraryInit, BuildInit, Init, BuilderInit
<1>3. CommittedKeys = {}
  BY <1>2 DEF CommittedKeys
<1> QED
  BY <1>1, <1>3 DEF LibraryInit, LibraryInv, Committed!Init

(* Building and opening commit keys, and never touch a table in use.       *)
LEMMA BuildingImplements ==
    ASSUME OneAtATime, LibraryInv, LongAddresses, ImageFits,
           [BuildNext]_all_vars, UNCHANGED lookup_vars
    PROVE  LibraryInv' /\ Committing
<1>1. /\ RecordsInv /\ AcceptedInv /\ BuiltInv /\ TypeOK /\ Shape /\ CoverInv
      /\ UNCHANGED <<call, pc, lo, len, at_slot, at_index, it>>
  BY DEF LibraryInv, RecordsInv, BuiltInv, lookup_vars
<1>2. RecordsInv' /\ AcceptedInv'
  BY <1>1, NextRecords, NextAccepted
<1>3. CASE pc = "closed"
  <2>1. LibraryInv'
    BY <1>1, <1>2, <1>3 DEF LibraryInv, Table!NoCall
  <2>2. [BuilderNext]_builder_vars
    BY BuilderSteps DEF BuildNext, Build, Opening, all_vars
  <2>3. CommittedKeys' = CommittedKeys \/ \E k : CommittedKeys' = CommittedKeys \cup {k}
    BY <1>1, <2>2, BuilderCommits
  <2>4. CASE CommittedKeys' = CommittedKeys
    <3>1. (pc # "closed")' = (pc # "closed") /\ call' = call
      BY <1>1
    <3>2. Cursor' = Cursor
      BY <1>1, <1>3 DEF Cursor
    <3> QED
      BY <2>1, <2>4, <3>1, <3>2 DEF Committing, Committed!vars, Cursor
  <2>5. ASSUME NEW k, CommittedKeys' = CommittedKeys \cup {k} PROVE Committed!Commit
    BY <1>1, <1>3, <2>5 DEF Committed!Commit
  <2> QED
    BY <2>1, <2>3, <2>4, <2>5 DEF Committing, Committed!Next
<1>4. CASE pc # "closed"
  <2>1. status = "ok" /\ P!SearchInv
    BY <1>4 DEF LibraryInv
  <2>2. UNCHANGED <<log, file, status>>
    BY <1>1, <2>1, TableStays
  <2>3. image' = image /\ CommittedKeys' = CommittedKeys
    BY <2>2 DEF image, CommittedKeys
  <2>4. UNCHANGED P!vars
    BY <1>1, <2>3 DEF P!vars
  <2>5. (P!SearchInv)'
    BY <2>1, <2>4, TableNext
  <2>6. LibraryInv'
    BY <1>1, <1>2, <1>4, <2>1, <2>2, <2>5 DEF LibraryInv
  <2>7. UNCHANGED Committed!vars
    BY <1>1, <2>3 DEF Committed!vars
  <2> QED
    BY <2>6, <2>7 DEF Committing
<1> QED
  BY <1>3, <1>4

(* Taking the table is Open: begin() is at the least committed key.        *)
LEMMA BeginsImplements ==
    ASSUME OneAtATime, LibraryInv, LongAddresses, ImageFits, Begins
    PROVE  LibraryInv' /\ Committing
<1>1. /\ RecordsInv /\ AcceptedInv /\ status = "ok" /\ pc = "closed" /\ pc' = "idle"
      /\ it' = Table!Begin(image[1])
      /\ UNCHANGED all_vars /\ UNCHANGED <<call, lo, len, at_slot, at_index>>
  BY DEF LibraryInv, Begins
<1>2. call = Table!NoCall /\ lo = 0 /\ len = 0 /\ at_slot = 0 /\ at_index = 0
  BY <1>1 DEF LibraryInv
<1>3. UNCHANGED <<log, file, status>>
  BY <1>1 DEF all_vars, vars, builder_vars, client, writer_vars, output_vars, opening_vars
<1>4. image' = image /\ CommittedKeys' = CommittedKeys
  BY <1>3 DEF image, CommittedKeys
<1>5. WellFormed(image[1]) /\ Contents(image[1]) = CommittedKeys
  BY <1>1, OpenedTable
<1>6. (P!Fresh)'
  BY <1>1, <1>2, <1>4, <1>5, SameStart, SameImage DEF P!Fresh
<1>7. (P!SearchInv)' /\ (P!Map!Init)'
  BY <1>6, FreshTableNext
<1>8. RecordsInv' /\ AcceptedInv'
  BY <1>1, NextRecords, NextAccepted
<1>9. LibraryInv'
  BY <1>1, <1>3, <1>7, <1>8 DEF LibraryInv
<1>10. Cursor' = Committed!Map!Least(CommittedKeys)
  <2>1. Cursor' = IF it'.slot < image[1].dir_count
                  THEN {KeyAt(image[1], it'.slot, it'.index)} ELSE {}
    BY <1>1, <1>4 DEF Cursor
  <2>2. (IF it'.slot < image[1].dir_count
         THEN {P!KeyAt(image[1], it'.slot, it'.index)} ELSE {})
           = P!Map!Least(P!Contents(image[1]))
    BY <1>4, <1>7 DEF P!Map!Init, P!Map!Least
  <2> QED
    BY <1>5, <2>1, <2>2, SameImage, SameOrder
<1>11. Committed!Open
  BY <1>1, <1>4, <1>10 DEF Committed!Open, Cursor
<1> QED
  BY <1>9, <1>11 DEF Committing, Committed!Next

(* A step of a lookup is a step of the map of the committed keys.          *)
LEMMA LookingImplements ==
    ASSUME OneAtATime, LibraryInv, LongAddresses, ImageFits, Looking
    PROVE  LibraryInv' /\ Committing
<1>1. /\ RecordsInv /\ AcceptedInv /\ pc # "closed" /\ status = "ok" /\ P!SearchInv
      /\ UNCHANGED all_vars /\ P!Next
  BY SameSteps DEF LibraryInv, Looking
<1>2. RecordsInv' /\ AcceptedInv'
  BY <1>1, NextRecords, NextAccepted
<1>3. UNCHANGED <<log, file, status>>
  BY <1>1 DEF all_vars, vars, builder_vars, client, writer_vars, output_vars, opening_vars
<1>4. image' = image /\ CommittedKeys' = CommittedKeys
  BY <1>3 DEF image, CommittedKeys
<1>5. Contents(image[1]) = CommittedKeys
  BY <1>1, OpenedTable
<1>6. (P!SearchInv)' /\ [P!Map!Next]_(P!Map!vars)
  BY <1>1, TableNext
<1>7. pc' # "closed"
  BY <1>6 DEF P!SearchInv, P!IInv, P!TypeOK
<1>8. LibraryInv'
  BY <1>1, <1>2, <1>3, <1>6, <1>7 DEF LibraryInv
<1>9. Cursor = (IF it.slot < image[1].dir_count
               THEN {P!KeyAt(image[1], it.slot, it.index)} ELSE {})
      /\ Cursor' = (IF it'.slot < image[1].dir_count
               THEN {P!KeyAt(image[1], it'.slot, it'.index)} ELSE {})
  BY <1>1, <1>4, <1>7, SameImage DEF Cursor
<1>10. P!Map!Call => Committed!Map!Call
  BY <1>4, <1>9, SameStart DEF P!Map!Call, Committed!Map!Call, Cursor
<1>11. P!Map!Return => Committed!Map!Return
  BY <1>1, <1>4, <1>5, <1>9, SameStart, SameFound DEF P!Map!Return, Committed!Map!Return, Cursor
<1>12. UNCHANGED P!Map!vars => UNCHANGED Committed!Map!vars
  <2>1. UNCHANGED P!Map!vars => call' = call /\ Cursor' = Cursor
    BY <1>4, <1>9 DEF P!Map!vars
  <2> QED
    BY <1>4, <2>1 DEF Committed!Map!vars, Cursor
<1>13. [Committed!Map!Next]_(Committed!Map!vars)
  BY <1>6, <1>10, <1>11, <1>12 DEF P!Map!Next, Committed!Map!Next
<1>14. Committing
  BY <1>1, <1>4, <1>7, <1>13
     DEF Committing, Committed!Next, Committed!Lookup, Committed!vars, Committed!Map!vars
<1> QED
  BY <1>8, <1>14

(* So every step of the library is a step of the promised map.             *)
LEMMA NextLibrary ==
    ASSUME OneAtATime
    PROVE  LibraryInv /\ LongAddresses /\ ImageFits /\ [LibraryNext]_library_vars
              => LibraryInv' /\ Committing
<1> SUFFICES ASSUME LibraryInv, LongAddresses, ImageFits, [LibraryNext]_library_vars
             PROVE  LibraryInv' /\ Committing
  OBVIOUS
<1>1. CASE Building \/ UNCHANGED library_vars
  BY <1>1, BuildingImplements DEF Building, library_vars
<1> QED
  BY <1>1, BeginsImplements, LookingImplements DEF LibraryNext

(* The library is an ordered map of what was committed. For one record at  *)
(* a time (BuilderProofs), addresses longer than a word and shorter than   *)
(* 256 bytes, and a file that fits its offsets: whatever is committed, in  *)
(* whatever order and with whatever options, every find, lower_bound,      *)
(* upper_bound, floor, begin, ++ and -- on the table opened from the file  *)
(* returns what the map of the committed keys would: after set_field,      *)
(* commit, the sort of finish, the trimmed keys of choose_layout, the      *)
(* bytes of write_image and every check of try_open.                       *)
THEOREM LibraryIsCommittedMap ==
    OneAtATime => (LibrarySpec /\ [](LongAddresses /\ ImageFits) => IsCommittedMap)
<1> SUFFICES ASSUME OneAtATime
             PROVE  LibrarySpec /\ [](LongAddresses /\ ImageFits) => IsCommittedMap
  OBVIOUS
<1>1. LibraryInit => LibraryInv /\ Committed!Init
  BY InitLibrary
<1>2. LibraryInv /\ LongAddresses /\ ImageFits /\ [LibraryNext]_library_vars
         => LibraryInv' /\ [Committed!Next]_(Committed!vars)
  BY NextLibrary DEF Committing
<1> QED
  BY <1>1, <1>2, PTL DEF LibrarySpec, IsCommittedMap, Committed!Spec
=============================================================================
