-------------------------- MODULE TableOpenProofs --------------------------
(***************************************************************************)
(* For every file, of every size and content: what try_open loads while it *)
(* checks, and what a table loads after it has accepted, is inside the     *)
(* mapping.                                                                *)
(***************************************************************************)
EXTENDS TableOpen, TLAPS

----------------------------------------------------------------------------
(* The constants are positive, words are natural numbers.                  *)
LEMMA ConstantFacts ==
    /\ WordSize \in Nat \ {0} /\ Word \subseteq Nat
    /\ WordBytes \in Nat \ {0} /\ NaturalWidths \subseteq Nat
    /\ UInt8 \subseteq Nat /\ UInt32 \subseteq Nat
    /\ Sizes.header \in Nat /\ Sizes.footer \in Nat /\ Sizes.schema_header \in Nat
    /\ Sizes.field_desc \in Nat /\ Sizes.dict_entry \in Nat
    /\ Sizes.footer >= WordBytes /\ Sizes.header \in Word
    /\ DictHeaderSize \in Nat /\ RemapEntrySize \in Nat
    /\ \A n \in Nat : n % WordSize \in Word
    /\ \A n \in Word : n % WordSize = n
<1>1. WordSize \in Nat \ {0}
  BY WordAssumption DEF WordSize
<1>2. \A n \in Nat : n % WordSize \in Word
  BY <1>1 DEF Word
<1>3. \A n \in Word : n % WordSize = n
  BY <1>1 DEF Word
<1>4. RemapEntrySize \in Nat /\ DictHeaderSize \in Nat /\ Weight[RemapEntrySize] \in Nat
  BY LayoutAssumption, WordAssumption
<1>5. /\ Sizes.header \in Nat /\ Sizes.footer \in Nat /\ Sizes.schema_header \in Nat
      /\ Sizes.field_desc \in Nat /\ Sizes.dict_entry \in Nat /\ Sizes.uint8 \in Nat
      /\ Sizes.footer >= WordBytes /\ Sizes.header \in Word
  BY FormatAssumption
<1>6. UInt8 \subseteq Nat /\ UInt32 \subseteq Nat
  BY <1>4, <1>5 DEF UInt8, UInt32
<1>7. WordBytes \in Nat \ {0} /\ NaturalWidths \subseteq Nat
  BY WordAssumption
<1>8. Word \subseteq Nat
  BY <1>1 DEF Word
<1> QED
  BY <1>1, <1>2, <1>3, <1>4, <1>5, <1>6, <1>7, <1>8

(* m whole items before the n-th leave room for one more.                  *)
LEMMA ItemFits ==
    ASSUME NEW m \in Nat, NEW n \in Nat, NEW S \in Nat, m < n
    PROVE  m * S \in Nat /\ m * S + S <= n * S
<1> PICK d \in Nat : n = m + 1 + d
  <2>1. n - m - 1 \in Nat /\ n = m + 1 + (n - m - 1)
    OBVIOUS
  <2> QED
    BY <2>1
<1>1. n * S = m * S + S + d * S /\ d * S \in Nat /\ m * S \in Nat
  OBVIOUS
<1> QED
  BY <1>1

(* A count compared with a quotient bounds a product.                      *)
LEMMA QuotientBounds ==
    ASSUME NEW a \in Nat, NEW s \in Nat \ {0}, NEW c \in Nat, c <= a \div s
    PROVE  c * s \in Nat /\ c * s <= a
<1> DEFINE q == a \div s
<1>1. q \in Nat /\ q * s <= a
  OBVIOUS
<1> HIDE DEF q
<1>2. PICK d \in Nat : q = c + d
  <2>1. q - c \in Nat /\ q = c + (q - c)
    BY <1>1 DEF q
  <2> QED
    BY <2>1
<1>3. q * s = c * s + d * s /\ d * s \in Nat /\ c * s \in Nat
  BY <1>2
<1> QED
  BY <1>1, <1>3

----------------------------------------------------------------------------
(* What the checks establish of a file, part by part.                      *)
WidthsGood(f) ==
    /\ f.schema.dir.partition = 0 \/ f.schema.dir.partition \in NaturalWidths
    /\ f.schema.dir.offset \in NaturalWidths /\ f.schema.dir.count \in NaturalWidths
    /\ f.schema.dir.remap_count = 0 \/ f.schema.dir.remap_count \in NaturalWidths

(* A header and a footer fit the mapping.                                  *)
FrameGood(f) == f.length >= Sizes.header + Sizes.footer

(* The schema block is before the footer and holds its header.             *)
BlockGood(f) ==
    /\ f.foot.schema_offset + f.foot.schema_size <= f.length - Sizes.footer
    /\ f.foot.schema_size >= Sizes.schema_header

(* The four parts of the schema block are inside it, and a record holds an *)
(* address and a value.                                                    *)
SchemaGood(f) ==
    /\ f.foot.schema_offset + Sizes.schema_header + f.schema.field_count * Sizes.field_desc
         + f.schema.dict_count * Sizes.dict_entry + f.schema.name_bytes
         <= f.length - Sizes.footer
    /\ WidthsGood(f)
    /\ f.schema.record_stride
         >= f.schema.address_width
              + (IF is_interned(f) THEN f.schema.ref_width ELSE f.schema.value_stride)
    /\ is_interned(f) => f.schema.value_dict < f.schema.dict_count

(* A field lies in the value tuple; a text field names a dictionary.       *)
FieldGood(f, k) ==
    /\ f.schema.fields[k].offset + f.schema.fields[k].width <= f.schema.value_stride
    /\ f.schema.fields[k].kind = "text" =>
          f.schema.fields[k].dict_index < f.schema.dict_count

(* The bytes of a directory slot.                                          *)
SlotStride(f) == DirStride(directory_layout(f.schema))

(* The slots are inside the mapping, with a word to spare.                 *)
GeometryGood(f) ==
    /\ SlotStride(f) > 0
    /\ f.foot.dir_offset >= Sizes.header
    /\ f.foot.dir_offset + f.foot.dir_count * SlotStride(f) + WordBytes <= f.length

(* Where the records of slot s end, as a natural number.                   *)
End(f, s) == layout_of(f, dir_slot(f, s)).records + dir_slot(f, s).count * layout_of(f, dir_slot(f, s)).stride

(* The records of slot s lie between the header and the directory, and the *)
(* address it stores lies in the address field.                            *)
SlotGood(f, s) ==
    /\ dir_slot(f, s).skip + dir_slot(f, s).width <= f.schema.address_width
    /\ dir_slot(f, s).schema_id # 0 => is_interned(f)
    /\ layout_of(f, dir_slot(f, s)).stride > 0
    /\ dir_slot(f, s).count # 0 =>
          dir_slot(f, s).offset >= Sizes.header /\ End(f, s) <= f.foot.dir_offset

(* Slot t comes after slot s, in its partition and in its records.         *)
InOrder(f, s, t) ==
    /\ dir_slot(f, s).partition < dir_slot(f, t).partition
    /\ dir_slot(f, s).count # 0 /\ dir_slot(f, t).count # 0 => End(f, s) <= dir_slot(f, t).offset

(* The first n slots are good and in order.                                *)
SlotsGood(f, n) ==
    /\ \A s \in 0..(n - 1) : SlotGood(f, s)
    /\ \A s, t \in 0..(n - 1) : s < t => InOrder(f, s, t)

(* Dictionary n is the one references point into.                          *)
ValueDict(f, n) == is_interned(f) /\ n = f.schema.value_dict

(* A dictionary and its header lie before the footer.                      *)
DictPlaced(f, n) ==
    /\ f.schema.dicts[n].offset + f.schema.dicts[n].size <= f.length - Sizes.footer
    /\ f.schema.dicts[n].size >= DictHeaderSize

(* The offsets and the texts of a text dictionary lie in its block.        *)
BlobPlaced(f, n) ==
    /\ f.dicts[n].type = "blob"
    /\ DictHeaderSize + (f.dicts[n].count + 1) * RemapEntrySize + f.dicts[n].payload
         <= f.schema.dicts[n].size

(* A dictionary is inside its block: the elements of the value dictionary  *)
(* are as long as a tuple, the offsets of the texts never go down.         *)
DictGood(f, n) ==
    /\ DictPlaced(f, n)
    /\ IF ValueDict(f, n)
       THEN /\ f.dicts[n].payload = f.schema.value_stride
            /\ DictHeaderSize + f.dicts[n].count * f.dicts[n].payload
                 <= f.schema.dicts[n].size
       ELSE /\ BlobPlaced(f, n)
            /\ \A k \in 0..f.dicts[n].count :
                  /\ k > 0 => f.dicts[n].offsets[k - 1] <= f.dicts[n].offsets[k]
                  /\ f.dicts[n].offsets[k] <= f.dicts[n].payload

(* A text field does not name the value dictionary.                        *)
TextGood(f, k) ==
    f.schema.fields[k].kind = "text" => ~ValueDict(f, f.schema.fields[k].dict_index)

----------------------------------------------------------------------------
(* The bytes of a directory slot, and where its fields are, are natural    *)
(* numbers.                                                                *)
LEMMA StrideType ==
    ASSUME NEW f, IsFile(f)
    PROVE  SlotStride(f) \in Nat
<1> DEFINE w == directory_layout(f.schema)
<1>1. /\ f.schema.dir.partition \in Nat /\ f.schema.dir.offset \in Nat
      /\ f.schema.dir.count \in Nat /\ f.schema.dir.remap_count \in Nat
      /\ f.schema.dir.width \in Nat /\ f.schema.dir.skip \in Nat
  BY ConstantFacts DEF IsFile
<1>2. /\ w.partition \in Nat /\ w.offset \in Nat /\ w.count \in Nat /\ w.schema_id \in Nat
      /\ w.remap_count \in Nat /\ w.width \in Nat /\ w.skip \in Nat
  BY <1>1 DEF directory_layout, make_dir_layout
<1> HIDE DEF w
<1>3. DirAt(w).skip + w.skip \in Nat
  BY <1>2 DEF DirAt
<1> QED
  BY <1>3 DEF SlotStride, DirStride, w

(* A word cut to a width the schema block may have is a word, and no       *)
(* greater than before.                                                    *)
LEMMA CutWord ==
    ASSUME NEW v \in Word, NEW w \in NaturalWidths
    PROVE  store_uint(w, v) \in Word
<1>1. w \in 0..WordBytes
  BY WordAssumption
<1>2. Weight[w] \in Nat \ {0}
  BY <1>1, WordAssumption
<1>3. v \in Nat /\ WordSize \in Nat
  BY ConstantFacts
<1>4. v % Weight[w] \in Nat /\ v % Weight[w] <= v
  BY <1>2, <1>3
<1> QED
  BY <1>3, <1>4 DEF store_uint, Word

(* A decoded slot is made of natural numbers.                              *)
LEMMA SlotType ==
    ASSUME NEW f, IsFile(f), WidthsGood(f), NEW s \in 0..(f.foot.dir_count - 1)
    PROVE  /\ dir_slot(f, s).partition \in Word /\ dir_slot(f, s).offset \in Word
           /\ dir_slot(f, s).count \in Word /\ dir_slot(f, s).remap_count \in Nat
           /\ dir_slot(f, s).schema_id \in Nat
           /\ dir_slot(f, s).width \in Nat /\ dir_slot(f, s).skip \in Nat
<1> DEFINE w == directory_layout(f.schema)  raw == f.slots[s]
<1>1. /\ raw.partition \in Word /\ raw.offset \in Word /\ raw.count \in Word
      /\ raw.remap_count \in Word
      /\ raw.schema_id \in Nat /\ raw.width \in Nat /\ raw.skip \in Nat
  BY ConstantFacts DEF IsFile
<1>2. /\ w.partition = f.schema.dir.partition /\ w.offset = f.schema.dir.offset
      /\ w.count = f.schema.dir.count /\ w.remap_count = f.schema.dir.remap_count
  BY DEF directory_layout, make_dir_layout
<1>3. f.foot.dir_count \in Word /\ f.schema.address_width \in Nat
  BY ConstantFacts DEF IsFile
<1>4. s \in Word
  <2>1. WordSize \in Nat
    BY ConstantFacts
  <2>2. f.foot.dir_count \in Nat /\ f.foot.dir_count <= WordSize - 1
    BY <1>3, <2>1 DEF Word
  <2> HIDE DEF w, raw
  <2> QED
    BY <2>1, <2>2 DEF Word
<1> HIDE DEF w, raw
<1>5. /\ w.partition = 0 \/ store_uint(w.partition, raw.partition) \in Word
      /\ store_uint(w.offset, raw.offset) \in Word
      /\ store_uint(w.count, raw.count) \in Word
      /\ w.remap_count = 0 \/ store_uint(w.remap_count, raw.remap_count) \in Word
  BY <1>1, <1>2, CutWord DEF WidthsGood
<1>6. \A v \in Word : uint32(v) \in Nat
  <2> SUFFICES ASSUME NEW v \in Nat PROVE uint32(v) \in Nat
    BY ConstantFacts
  <2>1. Weight[RemapEntrySize] \in Nat \ {0}
    BY LayoutAssumption, WordAssumption
  <2> QED
    BY <2>1 DEF uint32
<1>7. dir_slot(f, s) = decode_dir_entry(w, raw, s, f.schema.address_width)
  BY DEF dir_slot, w, raw
<1> DEFINE d == decode_dir_entry(w, raw, s, f.schema.address_width)
<1>8. 0 \in Word /\ 0 \in Nat
  BY ConstantFacts DEF Word
<1>9. d.partition \in Word /\ d.offset \in Word /\ d.count \in Word
  BY <1>1, <1>4, <1>5, <1>8 DEF decode_dir_entry
<1>10. d.remap_count \in Nat
  BY <1>1, <1>5, <1>6, <1>8 DEF decode_dir_entry
<1>11. d.schema_id \in Nat /\ d.width \in Nat /\ d.skip \in Nat
  BY <1>1, <1>3, <1>8 DEF decode_dir_entry
<1> HIDE DEF d
<1> QED
  BY <1>7, <1>9, <1>10, <1>11 DEF d

(* So are the place and the width of its records.                          *)
LEMMA LayoutType ==
    ASSUME NEW f, IsFile(f), SchemaGood(f), NEW s \in 0..(f.foot.dir_count - 1)
    PROVE  /\ layout_of(f, dir_slot(f, s)).records \in Nat
           /\ layout_of(f, dir_slot(f, s)).records >= dir_slot(f, s).offset
           /\ layout_of(f, dir_slot(f, s)).stride \in Nat
           /\ layout_of(f, dir_slot(f, s)).ref_width \in Nat
<1> DEFINE d == dir_slot(f, s)
<1>1. /\ d.offset \in Nat /\ d.remap_count \in Nat /\ d.schema_id \in Nat /\ d.width \in Nat
  BY SlotType, ConstantFacts DEF SchemaGood
<1>2. d.remap_count * RemapEntrySize \in Nat
  BY <1>1, ConstantFacts
<1>3. /\ f.schema.record_stride \in Nat /\ f.schema.address_width \in Nat
      /\ f.schema.ref_width \in Nat /\ f.schema.value_stride \in Nat
  BY ConstantFacts DEF IsFile
<1>4. value_part(f) \in Nat
  BY <1>3 DEF value_part, SchemaGood
<1> HIDE DEF d
<1>5. /\ layout_of(f, d).records \in Nat /\ layout_of(f, d).records >= d.offset
      /\ layout_of(f, d).stride \in Nat /\ layout_of(f, d).ref_width \in Nat
  BY <1>1, <1>2, <1>3, <1>4 DEF layout_of
<1> QED
  BY <1>5 DEF d

(* The parts of a file are natural numbers.                                *)
LEMMA FileType ==
    ASSUME NEW f, IsFile(f)
    PROVE  /\ f.length \in Nat
           /\ f.foot.dir_offset \in Word /\ f.foot.dir_offset \in Nat
           /\ f.foot.dir_count \in Nat /\ f.foot.schema_offset \in Nat
           /\ f.foot.schema_size \in Nat
           /\ f.schema.field_count \in Nat /\ f.schema.dict_count \in Nat
           /\ f.schema.name_bytes \in Nat /\ f.schema.value_dict \in Nat
           /\ f.schema.record_stride \in Nat /\ f.schema.value_stride \in Nat
           /\ f.schema.address_width \in Nat /\ f.schema.ref_width \in Nat
           /\ \A k \in 0..(f.schema.field_count - 1) :
                 /\ f.schema.fields[k].width \in Nat /\ f.schema.fields[k].offset \in Nat
                 /\ f.schema.fields[k].dict_index \in Nat
           /\ \A n \in 0..(f.schema.dict_count - 1) :
                 /\ f.schema.dicts[n].offset \in Nat /\ f.schema.dicts[n].size \in Nat
                 /\ f.dicts[n].count \in Nat /\ f.dicts[n].payload \in Nat
                 /\ f.dicts[n].type = "blob" =>
                       \A k \in 0..f.dicts[n].count : f.dicts[n].offsets[k] \in Nat
<1>1. UInt16 \subseteq Nat
  BY FormatAssumption DEF UInt16
<1> QED
  BY <1>1, ConstantFacts DEF IsFile

----------------------------------------------------------------------------
(* What holds of a file f when the check c comes next.  A call that has    *)
(* rejected the file promises nothing.                                     *)
BeforeSlots == {"size", "frame", "schema", "fields", "geometry"}
InDicts == {"dictionaries", "dictionary", "offsets"}

(* The loop over the slots has passed n of them: `previous` and `floor`    *)
(* bound the partitions and the records seen so far.                       *)
SlotsSoFar(f, n, prev, fl) ==
    /\ SlotsGood(f, n)
    /\ fl >= Sizes.header /\ fl <= f.foot.dir_offset
    /\ \A s \in 0..(n - 1) :
          /\ dir_slot(f, s).partition <= prev
          /\ dir_slot(f, s).count # 0 => End(f, s) <= fl

(* The loop over the dictionaries has passed n of them and is at check c   *)
(* of the next.                                                            *)
DictsSoFar(f, c, n) ==
    /\ \A m \in 0..(n - 1) : DictGood(f, m)
    /\ c # "dictionaries" => n < f.schema.dict_count /\ DictPlaced(f, n)
    /\ c = "offsets" => ~ValueDict(f, n) /\ BlobPlaced(f, n)

(* All that has been checked when c comes next, item n of its loop.        *)
Passed(f, c, n, prev, fl) ==
    /\ c # "size" => FrameGood(f)
    /\ c \notin {"size", "frame"} => BlockGood(f)
    /\ c \notin {"size", "frame", "schema"} => SchemaGood(f)
    /\ c = "fields" => \A k \in 0..(n - 1) : FieldGood(f, k)
    /\ c \notin {"size", "frame", "schema", "fields"} =>
          \A k \in 0..(f.schema.field_count - 1) : FieldGood(f, k)
    /\ c \in BeforeSlots => fl = Sizes.header
    /\ c \notin BeforeSlots => GeometryGood(f)
    /\ c = "slots" => SlotsSoFar(f, n, prev, fl)
    /\ c \notin BeforeSlots \cup {"slots"} => SlotsGood(f, f.foot.dir_count)
    /\ c \in InDicts => DictsSoFar(f, c, n)
    /\ c \in {"texts", "done"} => \A m \in 0..(f.schema.dict_count - 1) : DictGood(f, m)
    /\ c = "texts" => \A k \in 0..(n - 1) : TextGood(f, k)
    /\ c = "done" => \A k \in 0..(f.schema.field_count - 1) : TextGood(f, k)

(* The inductive invariant: a call that has not rejected the file knows    *)
(* everything that its checks so far were made for.                        *)
Inv ==
    /\ OpenTypeOK
    /\ status \in {"open", "ok"} => Passed(file, opc, i, previous, floor)

----------------------------------------------------------------------------
(* A call that rejects the file keeps the invariant.                       *)
LEMMA ReturnsInv ==
    ASSUME Inv,
           NEW s \in {"too_small", "bad_magic", "bad_version", "bad_size", "bad_schema",
                      "bad_directory", "bad_dictionary"},
           Returns(s)
    PROVE  Inv'
<1>1. OpenTypeOK'
  BY DEF Inv, OpenTypeOK, Returns
<1>2. status' \notin {"open", "ok"}
  BY DEF Returns
<1> QED
  BY <1>1, <1>2 DEF Inv

(* Nothing is known when the call starts.                                  *)
LEMMA InitInv == Init => Inv
<1> SUFFICES ASSUME Init PROVE Inv
  OBVIOUS
<1>1. IsFile(file)
  BY OpenAssumption DEF Init
<1>2. Sizes.header \in Word /\ 0 \in Word
  BY ConstantFacts DEF Word
<1>3. OpenTypeOK
  BY <1>1, <1>2 DEF OpenTypeOK, Init, OpenInit
<1>4. Passed(file, opc, i, previous, floor)
  BY DEF Passed, Init, OpenInit, BeforeSlots, InDicts
<1> QED
  BY <1>3, <1>4 DEF Inv

(* The mapping holds a header and a footer.                                *)
LEMMA CheckSizeInv == Inv /\ CheckSize => Inv'
<1> SUFFICES ASSUME Inv, CheckSize PROVE Inv'
  OBVIOUS
<1>1. CASE file.length >= Sizes.header + Sizes.footer
  <2>1. opc = "size" /\ GoesOn("frame") /\ status = "open"
    BY <1>1 DEF CheckSize, Checks, Inv, OpenTypeOK
  <2>2. OpenTypeOK'
    BY <2>1 DEF Inv, OpenTypeOK, GoesOn
  <2>3. Passed(file, opc, i, previous, floor)'
    BY <1>1, <2>1 DEF Inv, Passed, GoesOn, FrameGood, BeforeSlots, InDicts
  <2> QED
    BY <2>2, <2>3 DEF Inv
<1>2. CASE ~(file.length >= Sizes.header + Sizes.footer)
  BY <1>2, ReturnsInv DEF CheckSize, Checks
<1> QED
  BY <1>1, <1>2

(* The footer names a schema block before itself.                          *)
LEMMA CheckFrameInv == Inv /\ CheckFrame => Inv'
<1> SUFFICES ASSUME Inv, CheckFrame PROVE Inv'
  OBVIOUS
<1>1. opc = "frame" /\ status = "open" /\ IsFile(file)
  BY DEF CheckFrame, Inv, OpenTypeOK
<1>2. CASE SchemaBlockInside /\ GoesOn("schema")
  <2>1. BlockGood(file)
    BY <1>1, <1>2, FileType, ConstantFacts DEF BlockGood, SchemaBlockInside, foot, tail
  <2>2. OpenTypeOK'
    BY <1>1, <1>2 DEF Inv, OpenTypeOK, GoesOn
  <2>3. Passed(file, opc, i, previous, floor)'
    BY <1>1, <1>2, <2>1 DEF Inv, Passed, GoesOn, BeforeSlots, InDicts
  <2> QED
    BY <2>2, <2>3 DEF Inv
<1>3. CASE \/ Returns("bad_magic") \/ Returns("bad_version") \/ Returns("bad_size")
           \/ Returns("bad_schema")
  BY <1>3, ReturnsInv
<1> QED
  BY <1>2, <1>3 DEF CheckFrame

(* The header of the schema block bounds its parts: its counts are 32-bit, *)
(* so their products do not wrap.                                          *)
LEMMA OpenSchemaInv == Inv /\ OpenSchema => Inv'
<1> SUFFICES ASSUME Inv, OpenSchema PROVE Inv'
  OBVIOUS
<1>1. opc = "schema" /\ status = "open" /\ IsFile(file) /\ BlockGood(file)
  BY DEF OpenSchema, Checks, Inv, OpenTypeOK, Passed
<1>2. CASE SchemaHeaderOk
  <2>1. GoesOn("fields")
    BY <1>2 DEF OpenSchema, Checks
  <2>2. WidthsGood(file)
    BY <1>2 DEF SchemaHeaderOk, WidthsGood, ValidOrAbsent, is_valid_width, schema
  <2>3. file.foot.schema_offset + Sizes.schema_header
          + file.schema.field_count * Sizes.field_desc
          + file.schema.dict_count * Sizes.dict_entry + file.schema.name_bytes
          <= file.length - Sizes.footer
    <3> DEFINE fields == file.schema.field_count * Sizes.field_desc
               dicts == file.schema.dict_count * Sizes.dict_entry
    <3>1. fields \in Nat /\ dicts \in Nat
      BY <1>1, FileType, ConstantFacts
    <3>2. SchemaEnd = file.foot.schema_offset + Sizes.schema_header + fields + dicts
                        + file.schema.name_bytes
      BY DEF SchemaEnd, NamesAt, DictsAt, FieldsAt, schema, foot
    <3>3. SchemaEnd - file.foot.schema_offset <= file.foot.schema_size
      BY <1>2 DEF SchemaHeaderOk, schema, foot
    <3> HIDE DEF fields, dicts
    <3> QED
      BY <1>1, <3>1, <3>2, <3>3, FileType, ConstantFacts DEF BlockGood, fields, dicts
  <2>4. SchemaGood(file)
    BY <1>2, <2>2, <2>3 DEF SchemaGood, SchemaHeaderOk, RecordMinimum, schema
  <2>5. OpenTypeOK'
    BY <1>1, <2>1, FileType DEF Inv, OpenTypeOK, GoesOn, schema
  <2>6. Passed(file, opc, i, previous, floor)'
    BY <1>1, <2>1, <2>4 DEF Inv, Passed, GoesOn, BeforeSlots, InDicts
  <2> QED
    BY <2>5, <2>6 DEF Inv
<1>3. CASE ~SchemaHeaderOk
  BY <1>3, ReturnsInv DEF OpenSchema, Checks
<1> QED
  BY <1>2, <1>3

(* One more field is in the tuple.                                         *)
LEMMA CheckFieldInv == Inv /\ CheckField => Inv'
<1> SUFFICES ASSUME Inv, CheckField PROVE Inv'
  OBVIOUS
<1>1. /\ opc = "fields" /\ status = "open" /\ IsFile(file)
      /\ i \in Nat /\ file.schema.field_count \in Nat /\ i < file.schema.field_count
  BY FileType DEF CheckField, Inv, OpenTypeOK, schema
<1>2. CASE FieldOk(schema.fields[i])
  <2>1. /\ i' = i + 1
        /\ UNCHANGED <<file, opc, previous, floor, total, status>>
    BY <1>2 DEF CheckField, Iterates
  <2>2. FieldGood(file, i)
    BY <1>1, <1>2, FileType DEF FieldOk, FieldGood, schema
  <2>3. \A k \in 0..i : FieldGood(file, k)
    BY <1>1, <2>2 DEF Inv, Passed
  <2>4. OpenTypeOK'
    BY <1>1, <2>1 DEF Inv, OpenTypeOK, schema
  <2>5. Passed(file, opc, i, previous, floor)'
    BY <1>1, <2>1, <2>3 DEF Inv, Passed, BeforeSlots, InDicts
  <2> QED
    BY <2>4, <2>5 DEF Inv
<1>3. CASE ~FieldOk(schema.fields[i])
  BY <1>3, ReturnsInv DEF CheckField, Iterates
<1> QED
  BY <1>2, <1>3

(* All fields are.                                                         *)
LEMMA EndFieldsInv == Inv /\ EndFields => Inv'
<1> SUFFICES ASSUME Inv, EndFields PROVE Inv'
  OBVIOUS
<1>1. /\ opc = "fields" /\ status = "open" /\ i = file.schema.field_count
      /\ GoesOn("geometry")
  BY DEF EndFields, Inv, OpenTypeOK, schema
<1>2. OpenTypeOK'
  BY <1>1 DEF Inv, OpenTypeOK, GoesOn
<1>3. Passed(file, opc, i, previous, floor)'
  BY <1>1 DEF Inv, Passed, GoesOn, BeforeSlots, InDicts
<1> QED
  BY <1>2, <1>3 DEF Inv

(* The directory is inside the mapping.                                    *)
LEMMA CheckGeometryInv == Inv /\ CheckGeometry => Inv'
<1> SUFFICES ASSUME Inv, CheckGeometry PROVE Inv'
  OBVIOUS
<1>1. /\ opc = "geometry" /\ status = "open" /\ IsFile(file) /\ floor = Sizes.header
  BY DEF CheckGeometry, Inv, OpenTypeOK, Passed, BeforeSlots
<1>2. CASE DirStride(dir) # 0 /\ DirectoryInside /\ GoesOn("slots")
  <2>1. SlotStride(file) \in Nat /\ SlotStride(file) # 0
    BY <1>1, <1>2, StrideType DEF SlotStride, dir, schema
  <2>2. GeometryGood(file)
    BY <1>2, <2>1 DEF GeometryGood, DirectoryInside, SlotStride, dir, schema, foot
  <2>3. SlotsSoFar(file, 0, previous, floor)
    BY <1>1, <2>2, ConstantFacts DEF SlotsSoFar, SlotsGood, GeometryGood
  <2>4. OpenTypeOK'
    BY <1>1, <1>2, FileType DEF Inv, OpenTypeOK, GoesOn, foot
  <2>5. Passed(file, opc, i, previous, floor)'
    BY <1>1, <1>2, <2>2, <2>3 DEF Inv, Passed, GoesOn, BeforeSlots, InDicts
  <2> QED
    BY <2>4, <2>5 DEF Inv
<1>3. CASE Returns("bad_schema") \/ Returns("bad_directory")
  BY <1>3, ReturnsInv
<1> QED
  BY <1>2, <1>3 DEF CheckGeometry

(* A slot that passes is good, its records start after those before it,    *)
(* and its end is computed without a wrap.                                 *)
LEMMA SlotPasses ==
    ASSUME IsFile(file), SchemaGood(file), i \in 0..(file.foot.dir_count - 1),
           floor >= Sizes.header, floor \in Nat, SlotOk(dir_slot(file, i))
    PROVE  /\ SlotGood(file, i)
           /\ dir_slot(file, i).count # 0 =>
                 /\ dir_slot(file, i).offset >= floor
                 /\ End(file, i) >= dir_slot(file, i).offset
                 /\ RecordsEnd(dir_slot(file, i)) = End(file, i)
                 /\ RecordsEnd(dir_slot(file, i)) \in Word
<1> DEFINE d == dir_slot(file, i)
           lay == layout_of(file, d)
           table_bytes == d.remap_count * RemapEntrySize
           available == file.foot.dir_offset - d.offset
<1>1. /\ d.offset \in Nat /\ d.count \in Nat /\ d.count \in Word /\ d.remap_count \in Nat
      /\ d.schema_id \in Nat /\ d.width \in Nat /\ d.skip \in Nat
  BY SlotType, ConstantFacts DEF SchemaGood
<1>2. lay.records \in Nat /\ lay.stride \in Nat /\ lay.records >= d.offset
  BY LayoutType
<1>3. lay.records = d.offset + (IF d.schema_id # 0 THEN table_bytes ELSE 0)
  BY DEF layout_of
<1>4. table_bytes \in Nat
  BY <1>1, ConstantFacts
<1>5. /\ d.width <= file.schema.address_width
      /\ d.skip <= file.schema.address_width - d.width
      /\ RemapOk(d) /\ lay.stride # 0
      /\ d.count # 0 => RecordsFit(d)
  BY DEF SlotOk, schema
<1>6. d.schema_id # 0 => is_interned(file)
  BY <1>5 DEF RemapOk
<1>7. d.schema_id = 0 => table_bytes = 0
  BY <1>1, <1>5, ConstantFacts DEF RemapOk
<1>8. ASSUME d.count # 0
      PROVE  /\ d.offset >= floor
             /\ d.count * lay.stride \in Nat
             /\ lay.records + d.count * lay.stride <= file.foot.dir_offset
  <2>1. /\ d.offset >= floor /\ d.offset <= file.foot.dir_offset
        /\ table_bytes <= available
        /\ d.count <= (available - table_bytes) \div lay.stride
    BY <1>5, <1>8 DEF RecordsFit, foot
  <2>2. available - table_bytes \in Nat
    BY <1>1, <1>4, <2>1, FileType
  <2>3. d.count * lay.stride \in Nat /\ d.count * lay.stride <= available - table_bytes
    <3> HIDE DEF d, lay, table_bytes, available
    <3> QED
      BY <1>1, <1>2, <1>5, <2>1, <2>2, QuotientBounds
  <2>4. lay.records = d.offset + table_bytes
    BY <1>1, <1>3, <1>4, <1>7
  <2> DEFINE block == d.count * lay.stride
  <2>5. block \in Nat /\ block <= available - table_bytes
    BY <2>3
  <2> HIDE DEF block, lay, table_bytes, d
  <2>6. lay.records + block <= file.foot.dir_offset
    BY <1>1, <1>4, <2>4, <2>5, FileType
  <2> QED
    BY <2>1, <2>5, <2>6 DEF block
<1>9. End(file, i) = lay.records + d.count * lay.stride
  BY DEF End
<1>10. ASSUME d.count # 0 PROVE RecordsEnd(d) = End(file, i) /\ End(file, i) \in Word
  <2> DEFINE block == d.count * lay.stride
  <2>1. block \in Nat /\ lay.records + block <= file.foot.dir_offset
    BY <1>8, <1>10
  <2>2. RecordsEnd(d) = (lay.records + (block % WordSize)) % WordSize
    BY DEF RecordsEnd, Plus, Times
  <2> HIDE DEF block, lay
  <2>3. file.foot.dir_offset \in Nat /\ file.foot.dir_offset <= WordSize - 1
    BY FileType, ConstantFacts DEF Word
  <2>4. block \in Word /\ lay.records + block \in Word
    BY <1>2, <2>1, <2>3, ConstantFacts, SMTT(20) DEF Word
  <2>5. block % WordSize = block /\ (lay.records + block) % WordSize = lay.records + block
    BY <2>4, ConstantFacts
  <2> QED
    BY <1>9, <2>2, <2>4, <2>5 DEF block
<1>11. SlotGood(file, i)
  <2>1. d.skip + d.width <= file.schema.address_width
    BY <1>1, <1>5, FileType
  <2>2. lay.stride > 0
    BY <1>2, <1>5
  <2>3. d.count # 0 => d.offset >= Sizes.header /\ End(file, i) <= file.foot.dir_offset
    BY <1>1, <1>8, <1>9, ConstantFacts
  <2> QED
    BY <1>6, <2>1, <2>2, <2>3 DEF SlotGood
<1>12. d.count # 0 => End(file, i) >= d.offset
  <2> DEFINE block == d.count * lay.stride
  <2>1. d.count # 0 => block \in Nat
    BY <1>8
  <2>2. End(file, i) = lay.records + block
    BY <1>9
  <2> HIDE DEF block, lay
  <2> QED
    BY <1>1, <1>2, <2>1, <2>2
<1> QED
  BY <1>8, <1>10, <1>11, <1>12

(* One more slot is good and after the others: `floor` is at or above the  *)
(* end of every slot before, so its records start after theirs.            *)
LEMMA CheckSlotInv == Inv /\ CheckSlot => Inv'
<1> SUFFICES ASSUME Inv, CheckSlot PROVE Inv'
  OBVIOUS
<1> DEFINE d == dir_slot(file, i)
<1>1. /\ opc = "slots" /\ status = "open" /\ IsFile(file)
      /\ i \in Nat /\ i \in 0..(file.foot.dir_count - 1)
      /\ previous \in Word /\ floor \in Word /\ total \in Word
      /\ SchemaGood(file) /\ SlotsSoFar(file, i, previous, floor)
  BY FileType DEF CheckSlot, Inv, OpenTypeOK, Passed, foot
<1>2. /\ floor \in Nat /\ floor >= Sizes.header /\ floor <= file.foot.dir_offset
      /\ previous \in Nat /\ total \in Nat /\ file.foot.dir_offset \in Nat
      /\ file.foot.dir_count \in Nat
  BY <1>1, FileType, ConstantFacts DEF SlotsSoFar
<1>3. CASE SlotOk(d)
  <2>1. /\ i' = i + 1 /\ previous' = d.partition
        /\ floor' = IF d.count # 0 THEN RecordsEnd(d) ELSE floor
        /\ total' = Plus(total, d.count)
        /\ UNCHANGED <<file, opc, status>>
    BY <1>3 DEF CheckSlot
  <2>2. /\ SlotGood(file, i)
        /\ d.count # 0 =>
              /\ d.offset >= floor /\ End(file, i) >= d.offset
              /\ RecordsEnd(d) = End(file, i) /\ RecordsEnd(d) \in Word
    BY <1>1, <1>2, <1>3, SlotPasses
  <2>3. i > 0 => previous < d.partition
    BY <1>3 DEF SlotOk
  <2>4. /\ d.partition \in Word /\ d.partition \in Nat
        /\ d.count \in Nat /\ d.offset \in Nat
        /\ \A s \in 0..(i - 1) : dir_slot(file, s).partition \in Nat
    <3>1. \A s \in 0..(file.foot.dir_count - 1) :
             /\ dir_slot(file, s).partition \in Word
             /\ dir_slot(file, s).offset \in Word /\ dir_slot(file, s).count \in Word
      BY <1>1, SlotType DEF SchemaGood
    <3>2. \A s \in 0..(i - 1) : s \in 0..(file.foot.dir_count - 1)
      BY <1>1, <1>2
    <3> QED
      BY <1>1, <3>1, <3>2, ConstantFacts
  <2>5. \A s \in 0..(i - 1) : End(file, s) \in Nat \/ dir_slot(file, s).count = 0
    <3> SUFFICES ASSUME NEW s \in 0..(i - 1), dir_slot(file, s).count # 0
                 PROVE  End(file, s) \in Nat
      OBVIOUS
    <3> DEFINE e == dir_slot(file, s)  rec == layout_of(file, e).records
               stride == layout_of(file, e).stride
    <3>1. s \in 0..(file.foot.dir_count - 1)
      BY <1>1, FileType
    <3>2. rec \in Nat /\ stride \in Nat /\ e.count \in Nat
      BY <1>1, <3>1, LayoutType, SlotType, ConstantFacts DEF SchemaGood
    <3>3. End(file, s) = rec + e.count * stride
      BY DEF End
    <3> HIDE DEF e, rec, stride
    <3> QED
      BY <3>2, <3>3
  <2>6. SlotsGood(file, i + 1)
    <3>1. \A s \in 0..i : SlotGood(file, s)
      BY <1>1, <2>2 DEF SlotsSoFar, SlotsGood
    <3>2. ASSUME NEW s \in 0..(i - 1) PROVE InOrder(file, s, i)
      <4>1. dir_slot(file, s).partition <= previous /\ previous < d.partition
        BY <1>1, <2>3 DEF SlotsSoFar
      <4>2. dir_slot(file, s).partition < d.partition
        BY <1>2, <2>4, <4>1
      <4>3. dir_slot(file, s).count # 0 /\ d.count # 0 => End(file, s) <= d.offset
        BY <1>1, <1>2, <2>2, <2>4, <2>5 DEF SlotsSoFar
      <4> QED
        BY <4>2, <4>3 DEF InOrder
    <3>3. ASSUME NEW s \in 0..i, NEW t \in 0..i, s < t PROVE InOrder(file, s, t)
      <4>1. CASE t = i
        BY <1>1, <3>2, <3>3, <4>1
      <4>2. CASE t # i
        BY <1>1, <3>3, <4>2 DEF SlotsSoFar, SlotsGood
      <4> QED
        BY <4>1, <4>2
    <3> QED
      BY <1>1, <3>1, <3>3 DEF SlotsGood
  <2>7. /\ floor' \in Word /\ floor' \in Nat /\ floor <= floor'
        /\ floor' <= file.foot.dir_offset
        /\ d.count # 0 => floor' = End(file, i)
    <3>1. CASE d.count # 0
      <4>1. floor' = End(file, i) /\ floor' \in Word /\ floor' \in Nat
        BY <2>1, <2>2, <3>1, ConstantFacts
      <4>2. floor <= d.offset /\ d.offset <= floor'
        BY <2>2, <3>1, <4>1
      <4>3. floor' <= file.foot.dir_offset
        BY <2>2, <3>1, <4>1 DEF SlotGood
      <4> QED
        BY <1>2, <2>4, <4>1, <4>2, <4>3
    <3>2. CASE d.count = 0
      BY <1>1, <1>2, <2>1, <3>2
    <3> QED
      BY <3>1, <3>2
  <2>8. SlotsSoFar(file, i + 1, previous', floor')
    <3>1. ASSUME NEW s \in 0..i
          PROVE  /\ dir_slot(file, s).partition <= d.partition
                 /\ dir_slot(file, s).count # 0 => End(file, s) <= floor'
      <4>1. CASE s = i
        BY <2>4, <2>7, <4>1
      <4>2. CASE s # i
        <5>1. s \in 0..(i - 1)
          BY <1>1, <4>2
        <5>2. dir_slot(file, s).partition <= previous /\ previous < d.partition
          BY <1>1, <2>3, <5>1 DEF SlotsSoFar
        <5>3. dir_slot(file, s).count # 0 => End(file, s) <= floor
          BY <1>1, <5>1 DEF SlotsSoFar
        <5> QED
          BY <1>2, <2>4, <2>5, <2>7, <5>1, <5>2, <5>3
      <4> QED
        BY <4>1, <4>2
    <3> QED
      BY <1>1, <1>2, <2>1, <2>6, <2>7, <3>1, ConstantFacts DEF SlotsSoFar
  <2>9. total' \in Word
    <3> HIDE DEF d
    <3> QED
      BY <1>2, <2>1, <2>4, ConstantFacts DEF Plus
  <2>10. OpenTypeOK'
    <3>1. i + 1 <= file.foot.dir_count
      BY <1>1, FileType
    <3> QED
      BY <1>1, <2>1, <2>4, <2>7, <2>9, <3>1 DEF Inv, OpenTypeOK, foot
  <2>11. Passed(file, opc, i, previous, floor)'
    BY <1>1, <2>1, <2>8 DEF Inv, Passed, BeforeSlots, InDicts
  <2> QED
    BY <2>10, <2>11 DEF Inv
<1>4. CASE ~SlotOk(d)
  BY <1>4, ReturnsInv DEF CheckSlot
<1> QED
  BY <1>3, <1>4

(* All slots are.                                                          *)
LEMMA CheckTotalInv == Inv /\ CheckTotal => Inv'
<1> SUFFICES ASSUME Inv, CheckTotal PROVE Inv'
  OBVIOUS
<1>1. /\ opc = "slots" /\ status = "open" /\ IsFile(file) /\ i = file.foot.dir_count
  BY DEF CheckTotal, Inv, OpenTypeOK, foot
<1>2. CASE GoesOn("dictionaries")
  <2>1. OpenTypeOK'
    BY <1>1, <1>2, FileType DEF Inv, OpenTypeOK, GoesOn, schema
  <2>2. Passed(file, opc, i, previous, floor)'
    BY <1>1, <1>2 DEF Inv, Passed, GoesOn, BeforeSlots, InDicts, SlotsSoFar, DictsSoFar
  <2> QED
    BY <2>1, <2>2 DEF Inv
<1>3. CASE Returns("bad_directory")
  BY <1>3, ReturnsInv
<1> QED
  BY <1>2, <1>3 DEF CheckTotal

(* A dictionary is placed before its header is read.                       *)
LEMMA CheckDictBlockInv == Inv /\ CheckDictBlock => Inv'
<1> SUFFICES ASSUME Inv, CheckDictBlock PROVE Inv'
  OBVIOUS
<1>1. /\ opc = "dictionaries" /\ status = "open" /\ IsFile(file)
      /\ i \in Nat /\ file.schema.dict_count \in Nat /\ i < file.schema.dict_count
  BY FileType DEF CheckDictBlock, Inv, OpenTypeOK, schema
<1>2. CASE DictInside(schema.dicts[i])
  <2>1. opc' = "dictionary" /\ UNCHANGED <<file, i, previous, floor, total, status>>
    BY <1>2 DEF CheckDictBlock
  <2>2. DictPlaced(file, i)
    <3>1. i \in 0..(file.schema.dict_count - 1)
      BY <1>1
    <3>2. /\ file.schema.dicts[i].offset \in Nat /\ file.schema.dicts[i].size \in Nat
          /\ file.length \in Nat
      BY <1>1, <3>1, FileType
    <3> QED
      BY <1>2, <3>2, ConstantFacts DEF DictInside, DictPlaced, schema, tail
  <2>3. OpenTypeOK'
    BY <1>1, <2>1 DEF Inv, OpenTypeOK, schema
  <2>4. Passed(file, opc, i, previous, floor)'
    BY <1>1, <2>1, <2>2 DEF Inv, Passed, BeforeSlots, InDicts, DictsSoFar
  <2> QED
    BY <2>3, <2>4 DEF Inv
<1>3. CASE ~DictInside(schema.dicts[i])
  BY <1>3, ReturnsInv DEF CheckDictBlock
<1> QED
  BY <1>2, <1>3

(* One more dictionary is good.                                            *)
LEMMA NextDict ==
    ASSUME Inv, opc \in {"dictionary", "offsets"}, DictGood(file, i),
           opc' = "dictionaries", i' = i + 1,
           UNCHANGED <<file, previous, floor, total, status>>
    PROVE  Inv'
<1>1. /\ status = "open" /\ IsFile(file) /\ i \in Nat /\ file.schema.dict_count \in Nat
      /\ i < file.schema.dict_count
      /\ \A m \in 0..(i - 1) : DictGood(file, m)
  BY FileType DEF Inv, OpenTypeOK, Passed, InDicts, DictsSoFar
<1>2. \A m \in 0..i : DictGood(file, m)
  BY <1>1
<1>3. OpenTypeOK'
  BY <1>1 DEF Inv, OpenTypeOK, schema
<1>4. Passed(file, opc, i, previous, floor)'
  BY <1>1, <1>2 DEF Inv, Passed, BeforeSlots, InDicts, DictsSoFar
<1> QED
  BY <1>3, <1>4 DEF Inv

(* The value dictionary is good by its size; a text dictionary is placed   *)
(* before its offsets are read.                                            *)
LEMMA CheckDictHeaderInv == Inv /\ CheckDictHeader => Inv'
<1> SUFFICES ASSUME Inv, CheckDictHeader PROVE Inv'
  OBVIOUS
<1>1. /\ opc = "dictionary" /\ status = "open" /\ DictPlaced(file, i)
  BY DEF CheckDictHeader, Inv, OpenTypeOK, Passed, InDicts, DictsSoFar
<1>2. CASE IsValueDict(i)
  <2>1. /\ FixedOk(file.dicts[i], schema.dicts[i].size)
        /\ opc' = "dictionaries" /\ i' = i + 1
        /\ UNCHANGED <<file, previous, floor, total, status>>
    BY <1>2 DEF CheckDictHeader
  <2>2. DictGood(file, i)
    BY <1>1, <1>2, <2>1 DEF DictGood, FixedOk, IsValueDict, ValueDict, schema
  <2> QED
    BY <1>1, <2>1, <2>2, NextDict
<1>3. CASE ~IsValueDict(i)
  <2>1. /\ BlobOk(file.dicts[i], schema.dicts[i].size)
        /\ opc' = "offsets" /\ UNCHANGED <<file, i, previous, floor, total, status>>
    BY <1>3 DEF CheckDictHeader
  <2>2. ~ValueDict(file, i) /\ BlobPlaced(file, i)
    BY <1>3, <2>1 DEF BlobOk, BlobEnd, BlobPlaced, IsValueDict, ValueDict, schema
  <2>3. OpenTypeOK'
    BY <1>1, <2>1 DEF Inv, OpenTypeOK, schema
  <2>4. Passed(file, opc, i, previous, floor)'
    BY <1>1, <2>1, <2>2 DEF Inv, Passed, BeforeSlots, InDicts, DictsSoFar
  <2> QED
    BY <2>3, <2>4 DEF Inv
<1> QED
  BY <1>2, <1>3

(* The offsets of a text dictionary make it good.                          *)
LEMMA CheckOffsetsInv == Inv /\ CheckOffsets => Inv'
<1> SUFFICES ASSUME Inv, CheckOffsets PROVE Inv'
  OBVIOUS
<1>1. /\ opc = "offsets" /\ status = "open"
      /\ DictPlaced(file, i) /\ BlobPlaced(file, i) /\ ~ValueDict(file, i)
  BY DEF CheckOffsets, Inv, OpenTypeOK, Passed, InDicts, DictsSoFar
<1>2. /\ OffsetsOk(file.dicts[i])
      /\ opc' = "dictionaries" /\ i' = i + 1
      /\ UNCHANGED <<file, previous, floor, total, status>>
  BY DEF CheckOffsets
<1>3. DictGood(file, i)
  BY <1>1, <1>2 DEF DictGood, OffsetsOk
<1> QED
  BY <1>1, <1>2, <1>3, NextDict

(* All dictionaries are good.                                              *)
LEMMA EndDictsInv == Inv /\ EndDicts => Inv'
<1> SUFFICES ASSUME Inv, EndDicts PROVE Inv'
  OBVIOUS
<1>1. /\ opc = "dictionaries" /\ status = "open" /\ IsFile(file)
      /\ i = file.schema.dict_count /\ GoesOn("texts")
  BY DEF EndDicts, Inv, OpenTypeOK, schema
<1>2. OpenTypeOK'
  BY <1>1, FileType DEF Inv, OpenTypeOK, GoesOn, schema
<1>3. Passed(file, opc, i, previous, floor)'
  BY <1>1 DEF Inv, Passed, GoesOn, BeforeSlots, InDicts, DictsSoFar
<1> QED
  BY <1>2, <1>3 DEF Inv

(* One more text field names a text dictionary.                            *)
LEMMA CheckTextFieldInv == Inv /\ CheckTextField => Inv'
<1> SUFFICES ASSUME Inv, CheckTextField PROVE Inv'
  OBVIOUS
<1> DEFINE wrong == schema.fields[i].kind = "text" /\ IsValueDict(schema.fields[i].dict_index)
<1>1. /\ opc = "texts" /\ status = "open" /\ IsFile(file)
      /\ i \in Nat /\ file.schema.field_count \in Nat /\ i < file.schema.field_count
  BY FileType DEF CheckTextField, Inv, OpenTypeOK, schema
<1>2. CASE ~wrong
  <2>1. i' = i + 1 /\ UNCHANGED <<file, opc, previous, floor, total, status>>
    BY <1>2 DEF CheckTextField, Iterates
  <2>2. TextGood(file, i)
    BY <1>2 DEF TextGood, IsValueDict, ValueDict, schema
  <2>3. \A k \in 0..i : TextGood(file, k)
    BY <1>1, <2>2 DEF Inv, Passed
  <2>4. OpenTypeOK'
    BY <1>1, <2>1 DEF Inv, OpenTypeOK, schema
  <2>5. Passed(file, opc, i, previous, floor)'
    BY <1>1, <2>1, <2>3 DEF Inv, Passed, BeforeSlots, InDicts
  <2> QED
    BY <2>4, <2>5 DEF Inv
<1>3. CASE wrong
  BY <1>3, ReturnsInv DEF CheckTextField, Iterates
<1> QED
  BY <1>2, <1>3

(* A file is accepted with every check passed.                             *)
LEMMA AcceptInv == Inv /\ Accept => Inv'
<1> SUFFICES ASSUME Inv, Accept PROVE Inv'
  OBVIOUS
<1>1. /\ opc = "texts" /\ status = "open" /\ i = file.schema.field_count /\ Returns("ok")
  BY DEF Accept, Inv, OpenTypeOK, schema
<1>2. OpenTypeOK'
  BY <1>1 DEF Inv, OpenTypeOK, Returns
<1>3. Passed(file, opc, i, previous, floor)'
  BY <1>1 DEF Inv, Passed, Returns, BeforeSlots, InDicts
<1> QED
  BY <1>2, <1>3 DEF Inv

(* Every step of the call keeps the invariant.                             *)
LEMMA StepInv == Inv /\ [Next]_vars => Inv'
<1> SUFFICES ASSUME Inv, [Next]_vars PROVE Inv'
  OBVIOUS
<1>1. CASE CheckSize \/ CheckFrame \/ OpenSchema \/ CheckField \/ EndFields
  BY <1>1, CheckSizeInv, CheckFrameInv, OpenSchemaInv, CheckFieldInv, EndFieldsInv
<1>2. CASE CheckGeometry \/ CheckSlot \/ CheckTotal
  BY <1>2, CheckGeometryInv, CheckSlotInv, CheckTotalInv
<1>3. CASE CheckDictBlock \/ CheckDictHeader \/ CheckOffsets \/ EndDicts
  BY <1>3, CheckDictBlockInv, CheckDictHeaderInv, CheckOffsetsInv, EndDictsInv
<1>4. CASE DictRejected
  BY <1>4, ReturnsInv DEF DictRejected
<1>5. CASE CheckTextField \/ Accept
  BY <1>5, CheckTextFieldInv, AcceptInv
<1>6. CASE UNCHANGED vars
  <2>1. OpenTypeOK'
    BY <1>6 DEF Inv, OpenTypeOK, vars, open_vars, schema, foot
  <2>2. status' \in {"open", "ok"} => Passed(file, opc, i, previous, floor)'
    BY <1>6 DEF Inv, vars, open_vars
  <2> QED
    BY <2>1, <2>2 DEF Inv
<1> QED
  BY <1>1, <1>2, <1>3, <1>4, <1>5, <1>6 DEF Next

(* The invariant: a file whose check c comes next has what the checks      *)
(* before c establish, at every step of try_open.                          *)
THEOREM SpecInv == Spec => []Inv
BY InitInv, StepInv, PTL DEF Spec

(* Every variable keeps its type, and the index of a loop never passes its *)
(* count.                                                                  *)
THEOREM OpenTypeSafe == Spec => []OpenTypeOK
<1>1. Inv => OpenTypeOK
  BY DEF Inv
<1> QED
  BY <1>1, SpecInv, PTL

----------------------------------------------------------------------------
(* The sizes alone, for the arithmetic of the loads.                       *)
LEMMA SizeFacts ==
    /\ WordBytes \in Nat /\ DictHeaderSize \in Nat /\ RemapEntrySize \in Nat
    /\ Sizes.header \in Nat /\ Sizes.footer \in Nat /\ Sizes.schema_header \in Nat
    /\ Sizes.field_desc \in Nat /\ Sizes.dict_entry \in Nat
BY ConstantFacts

(* A load of a loop: item m of n items of S bytes.                         *)
LEMMA ItemInside ==
    ASSUME IsFile(file), NEW base \in Nat, NEW m \in Nat, NEW n \in Nat, NEW S \in Nat,
           NEW rest \in Nat, m < n, base + n * S + rest <= file.length
    PROVE  Inside(base + m * S, S) /\ base + m * S + S + rest <= file.length
<1> DEFINE before == m * S  all == n * S
<1>1. before \in Nat /\ before + S <= all /\ all \in Nat
  BY ItemFits
<1>2. base + all + rest <= file.length /\ file.length \in Nat
  BY FileType
<1> HIDE DEF before, all
<1>3. 0 <= base + before /\ base + before + S + rest <= file.length
      /\ base + before + S <= file.length
  BY <1>1, <1>2
<1> QED
  BY <1>3 DEF Inside, before

(* What is passed before a check makes its loads safe.                     *)
LEMMA InvChecksReadInside == Inv => ChecksReadInside
<1> SUFFICES ASSUME Inv PROVE ChecksReadInside
  OBVIOUS
<1>1. /\ IsFile(file) /\ i \in Nat
      /\ opc # "done" => Passed(file, opc, i, previous, floor)
  BY DEF Inv, OpenTypeOK
<1> DEFINE fields == file.schema.field_count * Sizes.field_desc
           dicts == file.schema.dict_count * Sizes.dict_entry
           at == file.foot.schema_offset + Sizes.schema_header
<1>2. /\ fields \in Nat /\ dicts \in Nat /\ at \in Nat
      /\ file.schema.field_count \in Nat /\ file.schema.dict_count \in Nat
      /\ file.schema.name_bytes \in Nat /\ file.length \in Nat
  <2>1. /\ file.schema.field_count \in Nat /\ file.schema.dict_count \in Nat
        /\ file.schema.name_bytes \in Nat /\ file.length \in Nat
        /\ file.foot.schema_offset \in Nat
    BY <1>1, FileType
  <2> QED
    BY <2>1, SizeFacts
<1>3. ASSUME SchemaGood(file) PROVE at + fields + dicts + file.schema.name_bytes <= file.length
  <2>1. at + fields + dicts + file.schema.name_bytes <= file.length - Sizes.footer
    BY <1>3 DEF SchemaGood
  <2> HIDE DEF at, fields, dicts
  <2> QED
    BY <1>2, <2>1, SizeFacts
<1>4. opc = "frame" => Inside(0, Sizes.header) /\ Inside(tail, Sizes.footer)
  BY <1>1, <1>2, SizeFacts DEF Passed, FrameGood, Inside, tail
<1>5. ASSUME opc = "schema" PROVE Inside(foot.schema_offset, Sizes.schema_header)
  <2>1. BlockGood(file)
    BY <1>1, <1>5 DEF Passed
  <2>2. file.foot.schema_offset \in Nat /\ file.foot.schema_size \in Nat
    BY <1>1, FileType
  <2> QED
    BY <1>2, <2>1, <2>2, SizeFacts DEF BlockGood, Inside, foot
<1>6. ASSUME opc \in {"fields", "texts"}, i < file.schema.field_count
      PROVE  Inside(FieldsAt + i * Sizes.field_desc, Sizes.field_desc)
  <2> DEFINE rest == dicts + file.schema.name_bytes
  <2>1. at + fields + rest <= file.length /\ rest \in Nat
    <3>1. at + fields + dicts + file.schema.name_bytes <= file.length
      BY <1>1, <1>3, <1>6 DEF Passed
    <3> HIDE DEF at, fields, dicts
    <3> QED
      BY <1>2, <3>1
  <2>2. at \in Nat
    BY <1>2
  <2> HIDE DEF at, rest
  <2>3. Inside(at + i * Sizes.field_desc, Sizes.field_desc)
    BY <1>1, <1>2, <1>6, <2>1, <2>2, ItemInside, SizeFacts
  <2> QED
    BY <2>3 DEF FieldsAt, foot, at
<1>7. ASSUME opc = "fields" PROVE Inside(NamesAt, schema.name_bytes)
  <2>1. at + fields + dicts + file.schema.name_bytes <= file.length
    BY <1>1, <1>3, <1>7 DEF Passed
  <2>2. NamesAt = at + fields + dicts
    BY DEF NamesAt, DictsAt, FieldsAt, schema, foot
  <2> HIDE DEF at, fields, dicts
  <2> QED
    BY <1>2, <2>1, <2>2 DEF Inside, schema
<1>8. ASSUME opc = "slots", i < file.foot.dir_count
      PROVE  Inside(SlotAt(i), DirStride(dir))
  <2>1. /\ file.foot.dir_offset \in Nat /\ file.foot.dir_count \in Nat
        /\ SlotStride(file) \in Nat
        /\ file.foot.dir_offset + file.foot.dir_count * SlotStride(file) + WordBytes
             <= file.length
    BY <1>1, <1>8, FileType, StrideType DEF Passed, BeforeSlots, GeometryGood
  <2>2. Inside(file.foot.dir_offset + i * SlotStride(file), SlotStride(file))
    BY <1>1, <1>8, <2>1, ItemInside, SizeFacts
  <2> QED
    BY <2>2 DEF SlotAt, SlotStride, dir, schema, foot
<1>9. ASSUME opc = "dictionaries", i < file.schema.dict_count
      PROVE  Inside(DictsAt + i * Sizes.dict_entry, Sizes.dict_entry)
  <2> DEFINE base == at + fields
             n == file.schema.dict_count  S == Sizes.dict_entry
             rest == file.schema.name_bytes
  <2>1. base + n * S + rest <= file.length
    BY <1>1, <1>3, <1>9 DEF Passed
  <2>2. base \in Nat /\ n \in Nat /\ S \in Nat /\ rest \in Nat /\ i < n
    BY <1>2, <1>9, SizeFacts
  <2> HIDE DEF base, n, S, rest
  <2>3. Inside(base + i * S, S)
    BY <1>1, <2>1, <2>2, ItemInside
  <2> QED
    BY <2>3 DEF DictsAt, FieldsAt, schema, foot, base, S
<1>10. ASSUME opc \in {"dictionary", "offsets"}
       PROVE  /\ schema.dicts[i].offset \in Nat /\ schema.dicts[i].size \in Nat
              /\ file.dicts[i].count \in Nat /\ file.dicts[i].payload \in Nat
              /\ DictPlaced(file, i)
              /\ opc = "offsets" => BlobPlaced(file, i)
  <2>1. i < file.schema.dict_count /\ DictPlaced(file, i)
        /\ (opc = "offsets" => BlobPlaced(file, i))
    BY <1>1, <1>10 DEF Passed, InDicts, DictsSoFar
  <2>2. i \in 0..(file.schema.dict_count - 1)
    BY <1>1, <1>2, <2>1
  <2> QED
    BY <1>1, <2>1, <2>2, FileType DEF schema
<1>11. opc = "dictionary" => Inside(schema.dicts[i].offset, DictHeaderSize)
  BY <1>2, <1>10, SizeFacts DEF DictPlaced, Inside, schema
<1>12. ASSUME opc = "offsets"
       PROVE  Inside(schema.dicts[i].offset + DictHeaderSize,
                     (file.dicts[i].count + 1) * RemapEntrySize)
  <2> DEFINE offsets == (file.dicts[i].count + 1) * RemapEntrySize
  <2>1. offsets \in Nat
    BY <1>10, <1>12, SizeFacts
  <2>2. /\ schema.dicts[i].offset + schema.dicts[i].size <= file.length - Sizes.footer
        /\ DictHeaderSize + offsets + file.dicts[i].payload <= schema.dicts[i].size
    BY <1>10, <1>12 DEF DictPlaced, BlobPlaced, schema
  <2> HIDE DEF offsets
  <2>3. 0 <= schema.dicts[i].offset + DictHeaderSize
        /\ schema.dicts[i].offset + DictHeaderSize + offsets <= file.length
    BY <1>2, <1>10, <1>12, <2>1, <2>2, SizeFacts
  <2> QED
    BY <2>3 DEF Inside, offsets
<1> QED
  BY <1>4, <1>5, <1>6, <1>7, <1>8, <1>9, <1>11, <1>12 DEF ChecksReadInside, schema, foot

----------------------------------------------------------------------------
(* What is known of a file that was accepted.                              *)
Accepted(f) ==
    /\ IsFile(f) /\ SchemaGood(f) /\ GeometryGood(f)
    /\ \A k \in 0..(f.schema.field_count - 1) : FieldGood(f, k) /\ TextGood(f, k)
    /\ SlotsGood(f, f.foot.dir_count)
    /\ \A n \in 0..(f.schema.dict_count - 1) : DictGood(f, n)

(* An accepted file has passed every check.                                *)
LEMMA InvAccepted == Inv /\ status = "ok" => Accepted(file)
BY DEF Inv, OpenTypeOK, Passed, BeforeSlots, InDicts, Accepted

(* The records of a slot, as natural numbers.                              *)
LEMMA SlotOfAccepted ==
    ASSUME Accepted(file), NEW s \in Slots
    PROVE  LET d == dir_slot(file, s)  lay == layout_of(file, dir_slot(file, s))
           IN  /\ s \in Nat /\ s < file.foot.dir_count
               /\ d.offset \in Nat /\ d.count \in Nat /\ d.schema_id \in Nat
               /\ d.width \in Nat /\ d.skip \in Nat /\ d.remap_count \in Nat
               /\ lay.records \in Nat /\ lay.stride \in Nat /\ lay.ref_width \in Nat
               /\ lay.records >= d.offset
               /\ SlotGood(file, s)
               /\ d.count # 0 => lay.records + d.count * lay.stride <= file.foot.dir_offset
<1> DEFINE d == dir_slot(file, s)  lay == layout_of(file, d)
<1>1. s \in 0..(file.foot.dir_count - 1) /\ file.foot.dir_count \in Nat
  BY FileType DEF Slots, Accepted, foot
<1>2. s \in Nat /\ s < file.foot.dir_count
  BY <1>1
<1>3. SlotGood(file, s)
  BY <1>1 DEF Accepted, SlotsGood
<1>4. /\ d.offset \in Word /\ d.count \in Word /\ d.schema_id \in Nat
      /\ d.width \in Nat /\ d.skip \in Nat /\ d.remap_count \in Nat
  BY <1>1, SlotType DEF Accepted, SchemaGood
<1>5. d.offset \in Nat /\ d.count \in Nat
  BY <1>4, ConstantFacts
<1>6. /\ lay.records \in Nat /\ lay.stride \in Nat /\ lay.ref_width \in Nat
      /\ lay.records >= d.offset
  BY <1>1, LayoutType DEF Accepted
<1>7. d.count # 0 => lay.records + d.count * lay.stride <= file.foot.dir_offset
  BY <1>3 DEF SlotGood, End
<1> QED
  BY <1>2, <1>3, <1>4, <1>5, <1>6, <1>7

(* What a lookup loads of a slot of an accepted file is inside.            *)
LEMMA AcceptedLookups ==
    ASSUME Accepted(file), NEW s \in Slots
    PROVE  SlotReadsInside(s)
<1> DEFINE d == dir_slot(file, s)
           lay == layout_of(file, d)
<1>1. /\ file.foot.dir_offset \in Nat /\ file.foot.dir_count \in Nat /\ file.length \in Nat
      /\ SlotStride(file) \in Nat /\ IsFile(file)
      /\ file.foot.dir_offset + file.foot.dir_count * SlotStride(file) + WordBytes
           <= file.length
  BY FileType, StrideType DEF Accepted, GeometryGood
<1>2. /\ s \in Nat /\ s < file.foot.dir_count
      /\ d.offset \in Nat /\ d.count \in Nat /\ d.schema_id \in Nat
      /\ d.width \in Nat /\ d.skip \in Nat /\ d.remap_count \in Nat
      /\ lay.records \in Nat /\ lay.stride \in Nat /\ lay.records >= d.offset
      /\ SlotGood(file, s)
      /\ d.count # 0 => lay.records + d.count * lay.stride <= file.foot.dir_offset
  BY SlotOfAccepted
<1>3. ASSUME NEW at \in 0..(DirStride(dir) - 1) PROVE Inside(SlotAt(s) + at, WordBytes)
  <2> DEFINE before == file.foot.dir_offset + s * SlotStride(file)
  <2>1. before \in Nat /\ before + SlotStride(file) + WordBytes <= file.length
    BY <1>1, <1>2, ItemInside, ItemFits, SizeFacts
  <2>2. SlotAt(s) = before /\ DirStride(dir) = SlotStride(file)
    BY DEF SlotAt, SlotStride, dir, schema, foot
  <2> HIDE DEF before
  <2> QED
    BY <1>1, <1>3, <2>1, <2>2, SizeFacts DEF Inside
<1>4. file.foot.dir_offset + WordBytes <= file.length
  <2> DEFINE slots == file.foot.dir_count * SlotStride(file)
  <2>1. slots \in Nat /\ file.foot.dir_offset + slots + WordBytes <= file.length
    BY <1>1
  <2> HIDE DEF slots
  <2> QED
    BY <1>1, <2>1, SizeFacts
<1>5. ASSUME NEW r \in 0..(d.count - 1)
      PROVE  /\ Inside(lay.records + r * lay.stride, lay.stride)
             /\ Inside(lay.records + r * lay.stride, WordBytes)
  <2> DEFINE before == r * lay.stride  all == d.count * lay.stride
  <2>1. /\ r \in Nat /\ r < d.count /\ d.count # 0
    BY <1>2, <1>5
  <2>2. before \in Nat /\ before + lay.stride <= all
    BY <1>2, <2>1, ItemFits
  <2>3. lay.records + all <= file.foot.dir_offset /\ all \in Nat
    BY <1>2, <2>1
  <2> HIDE DEF before, all, lay
  <2>4. /\ 0 <= lay.records + before
        /\ lay.records + before + lay.stride <= file.length
        /\ lay.records + before + WordBytes <= file.length
    BY <1>1, <1>2, <1>4, <2>2, <2>3, SizeFacts
  <2> QED
    BY <2>4 DEF Inside, before
<1>6. ASSUME d.count # 0, d.schema_id # 0
      PROVE  Inside(lay.remap, d.remap_count * RemapEntrySize)
  <2> DEFINE table_bytes == d.remap_count * RemapEntrySize  all == d.count * lay.stride
  <2>1. /\ lay.remap = d.offset /\ lay.records = d.offset + table_bytes
    BY <1>6 DEF layout_of
  <2>2. table_bytes \in Nat /\ all \in Nat /\ lay.records + all <= file.foot.dir_offset
    BY <1>2, <1>6, SizeFacts
  <2> HIDE DEF table_bytes, all, lay
  <2>3. 0 <= lay.remap /\ lay.remap + table_bytes <= file.length
    BY <1>1, <1>2, <1>4, <2>1, <2>2, SizeFacts
  <2> QED
    BY <2>3 DEF Inside, table_bytes
<1>7. d.skip + d.width <= schema.address_width
  BY <1>2 DEF SlotGood, schema
<1> QED
  BY <1>3, <1>5, <1>6, <1>7 DEF SlotReadsInside

(* The blocks of an accepted file are disjoint and in order.               *)
LEMMA AcceptedBlocks ==
    ASSUME Accepted(file)
    PROVE  /\ \A s, t \in Slots : s < t =>
                 /\ dir_slot(file, s).partition < dir_slot(file, t).partition
                 /\ dir_slot(file, s).count # 0 /\ dir_slot(file, t).count # 0 =>
                       BlockEnd(s) <= dir_slot(file, t).offset
           /\ \A s \in Slots : dir_slot(file, s).count # 0 =>
                 dir_slot(file, s).offset >= Sizes.header /\ BlockEnd(s) <= foot.dir_offset
<1>1. \A s \in Slots : BlockEnd(s) = End(file, s)
  BY DEF BlockEnd, End
<1> QED
  BY <1>1 DEF Accepted, SlotsGood, InOrder, SlotGood, Slots, foot

----------------------------------------------------------------------------
(* The references of an accepted file are inside their records.            *)
LEMMA AcceptedRefs ==
    ASSUME Accepted(file)
    PROVE  RefsReadInside
<1> SUFFICES ASSUME is_interned(file), NEW s \in Slots
             PROVE  dir_slot(file, s).width + layout_of(file, dir_slot(file, s)).ref_width
                      <= layout_of(file, dir_slot(file, s)).stride
  BY DEF RefsReadInside
<1> DEFINE d == dir_slot(file, s)
<1>1. d.width \in Nat /\ d.schema_id \in Nat
  BY SlotOfAccepted
<1>2. /\ file.schema.record_stride \in Nat /\ file.schema.address_width \in Nat
      /\ file.schema.ref_width \in Nat
      /\ file.schema.record_stride >= file.schema.address_width + file.schema.ref_width
  BY FileType DEF Accepted, SchemaGood
<1>3. value_part(file) \in Nat /\ file.schema.ref_width <= value_part(file)
  BY <1>2 DEF value_part
<1> HIDE DEF d
<1>4. d.width + layout_of(file, d).ref_width <= layout_of(file, d).stride
  BY <1>1, <1>2, <1>3 DEF layout_of
<1> QED
  BY <1>4 DEF d

(* So is every field of every value.                                       *)
LEMMA AcceptedFields ==
    ASSUME Accepted(file), NEW f \in 0..(file.schema.field_count - 1)
    PROVE  FieldReadsInside(f)
<1> DEFINE field == file.schema.fields[f]
<1>1. /\ field.offset \in Nat /\ field.width \in Nat /\ file.schema.value_stride \in Nat
      /\ field.offset + field.width <= file.schema.value_stride /\ file.length \in Nat
  BY FileType DEF Accepted, FieldGood
<1>2. ASSUME is_interned(file),
             NEW id \in 0..(file.dicts[file.schema.value_dict].count - 1)
      PROVE  Inside(file.schema.dicts[file.schema.value_dict].offset + DictHeaderSize
                      + id * file.dicts[file.schema.value_dict].payload + field.offset,
                    field.width)
  <2> DEFINE v == file.schema.value_dict
             values == file.schema.dicts[v]
             elements == file.dicts[v]
             before == id * elements.payload
             all == elements.count * elements.payload
  <2>1. v \in 0..(file.schema.dict_count - 1)
    BY <1>2, FileType DEF Accepted, SchemaGood
  <2>2. /\ values.offset \in Nat /\ values.size \in Nat
        /\ elements.count \in Nat /\ elements.payload \in Nat
    BY <2>1, FileType DEF Accepted
  <2>3. DictGood(file, v) /\ ValueDict(file, v)
    BY <1>2, <2>1 DEF Accepted, ValueDict
  <2>4. /\ values.offset + values.size <= file.length - Sizes.footer
        /\ elements.payload = file.schema.value_stride
        /\ DictHeaderSize + all <= values.size
    BY <2>3 DEF DictGood, DictPlaced
  <2>5. before \in Nat /\ before + elements.payload <= all /\ all \in Nat
    <3>1. id \in Nat /\ id < elements.count
      BY <1>2, <2>2
    <3> HIDE DEF elements
    <3> QED
      BY <2>2, <3>1, ItemFits
  <2> HIDE DEF before, all, values, elements, field
  <2>6. /\ 0 <= values.offset + DictHeaderSize + before + field.offset
        /\ values.offset + DictHeaderSize + before + field.offset + field.width
             <= file.length
    BY <1>1, <2>2, <2>4, <2>5, SizeFacts
  <2> QED
    BY <2>6 DEF Inside, before, values, elements, field
<1>3. ASSUME ~is_interned(file), NEW s \in Slots
      PROVE  dir_slot(file, s).width + field.offset + field.width
               <= layout_of(file, dir_slot(file, s)).stride
  <2> DEFINE d == dir_slot(file, s)
  <2>1. d.width \in Nat /\ d.schema_id = 0
    BY <1>3, SlotOfAccepted DEF SlotGood
  <2>2. /\ file.schema.record_stride \in Nat /\ file.schema.address_width \in Nat
        /\ file.schema.record_stride >= file.schema.address_width + file.schema.value_stride
    BY <1>3, FileType DEF Accepted, SchemaGood
  <2>3. value_part(file) \in Nat /\ file.schema.value_stride <= value_part(file)
    BY <1>1, <2>2 DEF value_part
  <2>4. layout_of(file, d).stride = d.width + value_part(file)
    BY <2>1 DEF layout_of
  <2> HIDE DEF d, field
  <2>5. d.width + field.offset + field.width <= layout_of(file, d).stride
    BY <1>1, <2>1, <2>3, <2>4
  <2> QED
    BY <2>5 DEF d
<1> QED
  BY <1>2, <1>3 DEF FieldReadsInside, schema

(* So are the offsets and the bytes of every text.                         *)
LEMMA AcceptedTexts ==
    ASSUME Accepted(file), NEW f \in 0..(file.schema.field_count - 1)
    PROVE  TextReadsInside(f)
<1> SUFFICES ASSUME file.schema.fields[f].kind = "text"
             PROVE  TextReadsInside(f)
  BY DEF TextReadsInside, schema
<1> DEFINE n == file.schema.fields[f].dict_index
           texts == file.dicts[n]
           place == file.schema.dicts[n]
           table_bytes == (texts.count + 1) * RemapEntrySize
           blob == place.offset + DictHeaderSize + table_bytes
<1>1. n \in 0..(file.schema.dict_count - 1)
  BY FileType DEF Accepted, FieldGood
<1>2. /\ place.offset \in Nat /\ place.size \in Nat
      /\ texts.count \in Nat /\ texts.payload \in Nat /\ file.length \in Nat
      /\ texts.type = "blob" => \A k \in 0..texts.count : texts.offsets[k] \in Nat
  BY <1>1, FileType DEF Accepted
<1>3. DictGood(file, n) /\ ~ValueDict(file, n)
  BY <1>1 DEF Accepted, TextGood
<1>4. /\ texts.type = "blob"
      /\ place.offset + place.size <= file.length - Sizes.footer
      /\ DictHeaderSize + table_bytes + texts.payload <= place.size
      /\ \A k \in 0..texts.count :
            /\ k > 0 => texts.offsets[k - 1] <= texts.offsets[k]
            /\ texts.offsets[k] <= texts.payload
  BY <1>3 DEF DictGood, DictPlaced, BlobPlaced
<1>5. table_bytes \in Nat
  BY <1>2, SizeFacts, SMTT(40)
<1> HIDE DEF table_bytes, place, texts
<1>6. /\ blob \in Nat /\ blob + texts.payload <= file.length
      /\ 0 <= blob - table_bytes /\ blob - table_bytes + table_bytes <= file.length
  BY <1>2, <1>4, <1>5, SizeFacts
<1> HIDE DEF blob
<1>7. ASSUME NEW id \in 0..(texts.count - 1)
      PROVE  /\ texts.offsets[id] <= texts.offsets[id + 1]
             /\ Inside(blob + texts.offsets[id], texts.offsets[id + 1] - texts.offsets[id])
  <2>1. /\ id \in 0..texts.count /\ id + 1 \in 0..texts.count /\ id + 1 > 0
        /\ (id + 1) - 1 = id
    BY <1>2, <1>7
  <2>2. /\ texts.offsets[id] \in Nat /\ texts.offsets[id + 1] \in Nat
        /\ texts.offsets[id] <= texts.offsets[id + 1]
        /\ texts.offsets[id + 1] <= texts.payload
    BY <1>2, <1>4, <2>1
  <2> QED
    BY <1>2, <1>6, <2>2 DEF Inside
<1> QED
  BY <1>4, <1>6, <1>7 DEF TextReadsInside, Inside, schema, table_bytes, texts, place, blob

----------------------------------------------------------------------------
(* No check of try_open loads anything outside the mapping, whatever the   *)
(* file contains: each load comes after the checks that make it safe.      *)
THEOREM ChecksAreSafe == Spec => []ChecksReadInside
BY SpecInv, InvChecksReadInside, PTL

(* table.hpp:121-124: once try_open has succeeded, no load of a lookup     *)
(* leaves the mapping, the masked loads of a whole word included.          *)
THEOREM LookupsAreSafe == Spec => []LookupsReadInside
<1>1. Inv => LookupsReadInside
  BY InvAccepted, AcceptedLookups DEF LookupsReadInside
<1> QED
  BY <1>1, SpecInv, PTL

(* The records of the slots of an accepted file lie between the header and *)
(* the directory, apart from each other and in the order of the            *)
(* partitions.                                                             *)
THEOREM BlocksAreDisjoint == Spec => []BlocksDisjoint
<1>1. Inv => BlocksDisjoint
  BY InvAccepted, AcceptedBlocks DEF BlocksDisjoint
<1> QED
  BY <1>1, SpecInv, PTL

(* Nor does a read of a field, of a reference or of a text leave it.       *)
THEOREM ValuesAreSafe == Spec => []ValuesReadInside
<1>1. Inv => ValuesReadInside
  BY InvAccepted, AcceptedRefs, AcceptedFields, AcceptedTexts DEF ValuesReadInside, schema
<1> QED
  BY <1>1, SpecInv, PTL
=============================================================================
