----------------------------- MODULE TableOpen -----------------------------
(***************************************************************************)
(* table::try_open with schema_view::open and the open of the two          *)
(* dictionary views: the checks a file passes before class table reads it, *)
(* in the order of the code.  Each loop takes one step per iteration.      *)
(*                                                                         *)
(* A file is whatever a copy, a crash or a disk left: its parts need not   *)
(* agree with each other.  A load that stays inside the mapping finds the  *)
(* values of the record `file`.                                            *)
(***************************************************************************)
EXTENDS Format

CONSTANT Files   \* the files to consider

Kinds == {"uint", "sint", "text", "f32", "f64", "bytes"}

(* The parts of a file are integers of their width; for a part outside the *)
(* mapping any will do, since no check and no lookup loads it.             *)
UInt8 == 0..(Sizes.uint8 - 1)
UInt16 == 0..(Sizes.uint16 - 1)
UInt32 == 0..(Weight[RemapEntrySize] - 1)

IsFile(f) ==
    /\ f.length \in Word
    /\ \A part \in {"record_count", "dir_offset", "dir_count", "schema_offset",
                    "schema_size", "image_size"} : f.foot[part] \in Word
    /\ f.foot.dense \in BOOLEAN
    /\ \A part \in {"field_count", "dict_count", "record_stride", "value_stride",
                    "name_bytes", "value_dict"} : f.schema[part] \in UInt32
    /\ f.schema.address_width \in UInt8 /\ f.schema.ref_width \in UInt8
    /\ f.schema.dir \in [{"partition", "offset", "count", "schema_id", "remap_count",
                          "width", "skip"} -> UInt8]
    /\ \A k \in 0..(f.schema.field_count - 1) :
          /\ \A part \in {"width", "offset", "name_offset"} :
                f.schema.fields[k][part] \in UInt32
          /\ f.schema.fields[k].dict_index \in UInt16
    /\ \A s \in 0..(f.foot.dir_count - 1) :
          /\ \A part \in {"partition", "offset", "count", "remap_count"} :
                f.slots[s][part] \in Word
          /\ \A part \in {"schema_id", "width", "skip"} : f.slots[s][part] \in UInt8
    /\ \A n \in 0..(f.schema.dict_count - 1) :
          /\ f.schema.dicts[n].offset \in Word /\ f.schema.dicts[n].size \in Word
          /\ f.dicts[n].count \in UInt32 /\ f.dicts[n].payload \in UInt32
          /\ f.dicts[n].type = "blob" =>
                \A k \in 0..f.dicts[n].count : f.dicts[n].offsets[k] \in UInt32

ASSUME OpenAssumption == \A f \in Files : IsFile(f)

VARIABLES file,      \* the mapping
          opc,       \* the check that comes next
          i,         \* the index of the loop that is running
          previous,  \* partition of the slot before
          floor,     \* end of the records of the slots before
          total,     \* records of the slots before
          status     \* "open" until the call returns

open_vars == <<opc, i, previous, floor, total, status>>
vars == <<file, open_vars>>

foot == file.foot
schema == file.schema
tail == file.length - Sizes.footer
dir == directory_layout(schema)

OpenInit ==
    /\ opc = "size"
    /\ i = 0 /\ previous = 0 /\ floor = Sizes.header /\ total = 0
    /\ status = "open"

Init == file \in Files /\ OpenInit

----------------------------------------------------------------------------
(* The call returns s.                                                     *)
Returns(s) ==
    /\ status' = s /\ opc' = "done"
    /\ UNCHANGED <<file, i, previous, floor, total>>

(* Mutant: the loops share an index that nobody resets.                    *)
GoesOn_kept(next) ==
    /\ opc' = next
    /\ UNCHANGED <<file, i, previous, floor, total, status>>

(* The checks of a step are passed: go on with the next, from index 0.     *)
GoesOn(next) ==
    /\ opc' = next /\ i' = 0
    /\ UNCHANGED <<file, previous, floor, total, status>>

Checks(at, ok, otherwise, next) ==
    /\ opc = at
    /\ IF ok THEN GoesOn(next) ELSE Returns(otherwise)

CheckSize ==
    Checks("size", file.length >= Sizes.header + Sizes.footer, "too_small", "frame")

(* Mutant: the offset and the size are each compared with the tail.        *)
SchemaBlockInside_apart ==
    /\ foot.schema_offset <= tail /\ foot.schema_size <= tail
    /\ foot.schema_size >= Sizes.schema_header

(* The header and the footer, and whether the schema block they name, with *)
(* its header, lies before the footer.                                     *)
SchemaBlockInside ==
    /\ foot.schema_offset <= tail
    /\ foot.schema_size <= tail - foot.schema_offset
    /\ foot.schema_size >= Sizes.schema_header

CheckFrame ==
    /\ opc = "frame"
    /\ IF file.head = "foreign" THEN Returns("bad_magic")
       ELSE IF file.head = "other version" THEN Returns("bad_version")
       ELSE IF foot.mark = "foreign" THEN Returns("bad_size")
       ELSE IF foot.mark = "other version" THEN Returns("bad_version")
       ELSE IF foot.image_size # file.length THEN Returns("bad_size")
       ELSE IF ~SchemaBlockInside THEN Returns("bad_schema")
       ELSE GoesOn("schema")

(* Where the parts of the schema block start, and its size.                *)
FieldsAt == foot.schema_offset + Sizes.schema_header
DictsAt == FieldsAt + schema.field_count * Sizes.field_desc
NamesAt == DictsAt + schema.dict_count * Sizes.dict_entry
SchemaEnd == NamesAt + schema.name_bytes

ValidOrAbsent(w) == w = 0 \/ is_valid_width(w)

RecordMinimum ==
    schema.address_width
      + (IF is_interned(file) THEN schema.ref_width ELSE schema.value_stride)

(* The header of the schema block.                                         *)
SchemaHeaderOk ==
    /\ schema.mark = "mmpack"
    /\ SchemaEnd - foot.schema_offset <= foot.schema_size
    /\ schema.address_width # 0
    /\ schema.address_span <= WordSize
    /\ ValidOrAbsent(schema.dir.partition)
    /\ is_valid_width(schema.dir.offset) /\ is_valid_width(schema.dir.count)
    /\ ValidOrAbsent(schema.dir.remap_count)
    /\ schema.dir.width <= 1 /\ schema.dir.skip <= 1
    /\ schema.mode \in {"inline", "interned"}
    /\ schema.value_stride = 0 => schema.field_count = 0
    /\ is_interned(file) =>
          is_valid_width(schema.ref_width) /\ schema.value_dict < schema.dict_count
    /\ schema.record_stride >= RecordMinimum

OpenSchema == Checks("schema", SchemaHeaderOk, "bad_schema", "fields")

WidthFits(f) ==
    CASE f.kind \in {"uint", "sint", "text"} -> is_valid_width(f.width)
      [] f.kind = "f32" -> f.width = Sizes.f32
      [] f.kind = "f64" -> f.width = Sizes.f64
      [] f.kind = "bytes" -> f.width \in 1..WordBytes

(* Mutant: only the start of the field is looked at.                       *)
FieldOk_start(f) ==
    /\ f.kind \in Kinds
    /\ WidthFits(f)
    /\ f.offset <= schema.value_stride
    /\ f.kind = "text" => f.dict_index < schema.dict_count
    /\ f.name_offset < schema.name_bytes
    /\ \E n \in f.name_offset..(schema.name_bytes - 1) : n \in schema.nuls

FieldOk(f) ==
    /\ f.kind \in Kinds
    /\ WidthFits(f)
    /\ f.offset <= schema.value_stride
    /\ f.width <= schema.value_stride - f.offset
    /\ f.kind = "text" => f.dict_index < schema.dict_count
    /\ f.name_offset < schema.name_bytes
    /\ \E n \in f.name_offset..(schema.name_bytes - 1) : n \in schema.nuls

(* One iteration of a loop: the item passes, or the call returns.          *)
Iterates(ok, otherwise) ==
    IF ok THEN /\ i' = i + 1
               /\ UNCHANGED <<file, opc, previous, floor, total, status>>
          ELSE Returns(otherwise)

CheckField ==
    /\ opc = "fields" /\ i < schema.field_count
    /\ Iterates(FieldOk(schema.fields[i]), "bad_schema")

EndFields ==
    /\ opc = "fields" /\ i = schema.field_count
    /\ GoesOn("geometry")

----------------------------------------------------------------------------
(* The slots lie before the footer, and a word can be read after them.     *)
DirectoryInside ==
    /\ foot.dir_offset >= Sizes.header /\ foot.dir_offset <= tail
    /\ foot.dir_count <= (tail - foot.dir_offset) \div DirStride(dir)
    /\ foot.dir_offset + foot.dir_count * DirStride(dir) + WordBytes <= file.length

CheckGeometry ==
    /\ opc = "geometry"
    /\ IF \/ schema.record_stride = 0
          \/ has_key_mapping(schema) /\ ~narrow_address(schema)
          \/ schema.record_stride < schema.address_width
       THEN Returns("bad_schema")
       ELSE IF \/ DirStride(dir) = 0
               \/ (dir.partition = 0) # foot.dense
               \/ ~DirectoryInside
       THEN Returns("bad_directory")
       ELSE GoesOn("slots")

(* A remapped slot sizes its own references.                               *)
RemapOk(d) ==
    IF d.schema_id # 0
    THEN /\ d.schema_id <= MaxLocalWidth
         /\ is_interned(file)
         /\ d.remap_count # 0 /\ d.count # 0
    ELSE d.remap_count = 0

(* Mutant: the sum in place of the subtractions, in the width of the word. *)
RecordsFit_sum(d) ==
    LET stride == layout_of(file, d).stride
    IN  /\ d.offset >= floor /\ d.offset <= foot.dir_offset
        /\ Plus(d.offset, Plus(d.remap_count * RemapEntrySize, Times(d.count, stride)))
             <= foot.dir_offset

(* The records and the remap table lie between the slots before and the    *)
(* directory.                                                              *)
RecordsFit(d) ==
    LET available == foot.dir_offset - d.offset
        table_bytes == d.remap_count * RemapEntrySize
    IN  /\ d.offset >= floor /\ d.offset <= foot.dir_offset
        /\ table_bytes <= available
        /\ d.count <= (available - table_bytes) \div layout_of(file, d).stride

SlotOk(d) ==
    /\ i > 0 => previous < d.partition
    /\ d.width <= schema.address_width
    /\ d.skip <= schema.address_width - d.width
    /\ RemapOk(d)
    /\ layout_of(file, d).stride # 0
    /\ d.count # 0 => RecordsFit(d)

(* The end of the records of a slot, in the width of the word.  Mutant:    *)
(* without the remap table.                                                *)
RecordsEnd_table(d) ==
    Plus(d.offset, Times(d.count, layout_of(file, d).stride))

RecordsEnd(d) ==
    Plus(layout_of(file, d).records, Times(d.count, layout_of(file, d).stride))

CheckSlot ==
    LET d == dir_slot(file, i)
    IN  /\ opc = "slots" /\ i < foot.dir_count
        /\ IF SlotOk(d)
           THEN /\ i' = i + 1
                /\ previous' = d.partition
                /\ floor' = IF d.count # 0 THEN RecordsEnd(d) ELSE floor
                /\ total' = Plus(total, d.count)
                /\ UNCHANGED <<file, opc, status>>
           ELSE Returns("bad_directory")

CheckTotal ==
    /\ opc = "slots" /\ i = foot.dir_count
    /\ IF total = foot.record_count THEN GoesOn("dictionaries") ELSE Returns("bad_directory")

----------------------------------------------------------------------------
(* A dictionary lies before the footer and holds a dictionary header.      *)
DictInside(e) ==
    /\ e.offset >= Sizes.header /\ e.offset <= tail
    /\ e.size <= tail - e.offset
    /\ e.size >= DictHeaderSize

IsValueDict(n) == is_interned(file) /\ n = schema.value_dict

FixedOk(h, size) ==
    /\ h.mark = "mmpack" /\ h.type = "fixed"
    /\ DictHeaderSize + h.count * h.payload <= size
    /\ h.payload = schema.value_stride

BlobEnd(h) == DictHeaderSize + (h.count + 1) * RemapEntrySize + h.payload
BlobOk(h, size) == h.mark = "mmpack" /\ h.type = "blob" /\ BlobEnd(h) <= size

(* The offsets of the texts never go down, stay in the payload and end     *)
(* with it.                                                                *)
OffsetsOk(h) ==
    /\ \A n \in 0..h.count :
          /\ n > 0 => h.offsets[n - 1] <= h.offsets[n]
          /\ h.offsets[n] <= h.payload
    /\ h.offsets[h.count] = h.payload

CheckDictBlock ==
    /\ opc = "dictionaries" /\ i < schema.dict_count
    /\ IF DictInside(schema.dicts[i])
       THEN opc' = "dictionary" /\ UNCHANGED <<file, i, previous, floor, total, status>>
       ELSE Returns("bad_dictionary")

CheckDictHeader ==
    LET h == file.dicts[i]
        size == schema.dicts[i].size
    IN  /\ opc = "dictionary"
        /\ IF IsValueDict(i)
           THEN /\ FixedOk(h, size)
                /\ opc' = "dictionaries" /\ i' = i + 1
                /\ UNCHANGED <<file, previous, floor, total, status>>
           ELSE /\ BlobOk(h, size)
                /\ opc' = "offsets"
                /\ UNCHANGED <<file, i, previous, floor, total, status>>

CheckOffsets ==
    /\ opc = "offsets"
    /\ OffsetsOk(file.dicts[i])
    /\ opc' = "dictionaries" /\ i' = i + 1
    /\ UNCHANGED <<file, previous, floor, total, status>>

DictRejected ==
    /\ \/ /\ opc = "dictionary"
          /\ IF IsValueDict(i) THEN ~FixedOk(file.dicts[i], schema.dicts[i].size)
                               ELSE ~BlobOk(file.dicts[i], schema.dicts[i].size)
       \/ opc = "offsets" /\ ~OffsetsOk(file.dicts[i])
    /\ Returns("bad_dictionary")

EndDicts ==
    /\ opc = "dictionaries" /\ i = schema.dict_count
    /\ GoesOn("texts")

(* Every text field points at a blob dictionary, not at the value one.     *)
CheckTextField ==
    /\ opc = "texts" /\ i < schema.field_count
    /\ Iterates(~(schema.fields[i].kind = "text" /\ IsValueDict(schema.fields[i].dict_index)),
                "bad_dictionary")

Accept ==
    /\ opc = "texts" /\ i = schema.field_count
    /\ Returns("ok")

----------------------------------------------------------------------------
Next ==
    \/ CheckSize \/ CheckFrame
    \/ OpenSchema \/ CheckField \/ EndFields
    \/ CheckGeometry \/ CheckSlot \/ CheckTotal
    \/ CheckDictBlock \/ CheckDictHeader \/ CheckOffsets \/ DictRejected \/ EndDicts
    \/ CheckTextField \/ Accept

(* try_open is one call: once entered it goes on.                          *)
Spec == Init /\ [][Next]_vars /\ WF_vars(Next)
----------------------------------------------------------------------------
(* Every part has its type, and the index of a loop stays in the loop.     *)
OpenTypeOK ==
    /\ IsFile(file)
    /\ opc \in {"size", "frame", "schema", "fields", "geometry", "slots", "dictionaries",
                "dictionary", "offsets", "texts", "done"}
    /\ status \in {"open", "ok", "too_small", "bad_magic", "bad_version", "bad_size",
                   "bad_schema", "bad_directory", "bad_dictionary"}
    /\ (opc = "done") <=> (status # "open")
    /\ i \in Nat
    /\ opc \in {"fields", "texts"} => i <= schema.field_count
    /\ opc = "slots" => i <= foot.dir_count
    /\ opc \in {"dictionaries", "dictionary", "offsets"} => i <= schema.dict_count
    /\ previous \in Word /\ floor \in Word /\ total \in Word

(* The n bytes from `at` on are in the mapping.                            *)
Inside(at, n) == 0 <= at /\ at + n <= file.length

SlotAt(s) == foot.dir_offset + s * DirStride(dir)

(* Every load that the checks themselves do stays inside the mapping:      *)
(* nothing of the file is read before the checks that make it safe.        *)
ChecksReadInside ==
    /\ opc = "frame" => Inside(0, Sizes.header) /\ Inside(tail, Sizes.footer)
    /\ opc = "schema" => Inside(foot.schema_offset, Sizes.schema_header)
    /\ opc \in {"fields", "texts"} /\ i < schema.field_count =>
          Inside(FieldsAt + i * Sizes.field_desc, Sizes.field_desc)
    /\ opc = "fields" => Inside(NamesAt, schema.name_bytes)
    /\ opc = "slots" /\ i < foot.dir_count => Inside(SlotAt(i), DirStride(dir))
    /\ opc = "dictionaries" /\ i < schema.dict_count =>
          Inside(DictsAt + i * Sizes.dict_entry, Sizes.dict_entry)
    /\ opc = "dictionary" => Inside(schema.dicts[i].offset, DictHeaderSize)
    /\ opc = "offsets" =>
          Inside(schema.dicts[i].offset + DictHeaderSize,
                 (file.dicts[i].count + 1) * RemapEntrySize)

Slots == 0..(foot.dir_count - 1)

(* What a lookup loads of slot s: the masked loads take a whole word at    *)
(* any byte of the slot and, on a narrow image, at any record.             *)
SlotReadsInside(s) ==
    LET d == dir_slot(file, s)
        layout == layout_of(file, d)
    IN  /\ \A at \in 0..(DirStride(dir) - 1) : Inside(SlotAt(s) + at, WordBytes)
        /\ \A r \in 0..(d.count - 1) :
              /\ Inside(layout.records + r * layout.stride, layout.stride)
              /\ narrow_address(schema) =>
                    Inside(layout.records + r * layout.stride, WordBytes)
        /\ d.count # 0 /\ d.schema_id # 0 =>
              Inside(layout.remap, d.remap_count * RemapEntrySize)
        /\ d.skip + d.width <= schema.address_width

(* "Only then are the accessors built, so no later field read can leave    *)
(* the region whatever the file contains" (table.hpp:122), for the         *)
(* directory, the records, the remap tables and the addresses.             *)
LookupsReadInside ==
    status = "ok" => \A s \in Slots : SlotReadsInside(s)

(* The place after the last record of slot s, in unbounded arithmetic.     *)
BlockEnd(s) ==
    LET d == dir_slot(file, s)
    IN  layout_of(file, d).records + d.count * layout_of(file, d).stride

(* In an accepted file the records of the slots lie one after the other    *)
(* between the header and the directory, in strictly increasing partition  *)
(* order: try_open's floor and previous (table.hpp:202-244) rule out       *)
(* overlaps and repeats, and no product or sum of them has wrapped.        *)
BlocksDisjoint ==
    status = "ok" =>
        /\ \A s, t \in Slots : s < t =>
              /\ dir_slot(file, s).partition < dir_slot(file, t).partition
              /\ dir_slot(file, s).count # 0 /\ dir_slot(file, t).count # 0 =>
                    BlockEnd(s) <= dir_slot(file, t).offset
        /\ \A s \in Slots : dir_slot(file, s).count # 0 =>
              dir_slot(file, s).offset >= Sizes.header /\ BlockEnd(s) <= foot.dir_offset

(* A field is inside its tuple, and the tuple inside the record of an      *)
(* inline image or inside an element of the value dictionary.              *)
FieldReadsInside(f) ==
    LET field == schema.fields[f]
        values == schema.dicts[schema.value_dict]
        elements == file.dicts[schema.value_dict]
    IN  IF is_interned(file)
        THEN \A id \in 0..(elements.count - 1) :
                Inside(values.offset + DictHeaderSize + id * elements.payload + field.offset,
                       field.width)
        ELSE \A s \in Slots : dir_slot(file, s).count # 0 =>
                dir_slot(file, s).width + field.offset + field.width
                  <= layout_of(file, dir_slot(file, s)).stride

(* The two offsets and the bytes of every text of a text field.            *)
TextReadsInside(f) ==
    LET n == schema.fields[f].dict_index
        texts == file.dicts[n]
        blob == schema.dicts[n].offset + DictHeaderSize + (texts.count + 1) * RemapEntrySize
    IN  schema.fields[f].kind = "text" =>
          /\ texts.type = "blob"
          /\ Inside(blob - (texts.count + 1) * RemapEntrySize,
                    (texts.count + 1) * RemapEntrySize)
          /\ \A id \in 0..(texts.count - 1) :
                /\ texts.offsets[id] <= texts.offsets[id + 1]
                /\ Inside(blob + texts.offsets[id], texts.offsets[id + 1] - texts.offsets[id])

(* The reference of an interned record is inside its record.               *)
RefsReadInside ==
    is_interned(file) =>
        \A s \in Slots : dir_slot(file, s).count # 0 =>
            dir_slot(file, s).width + layout_of(file, dir_slot(file, s)).ref_width
              <= layout_of(file, dir_slot(file, s)).stride

(* The same promise for the values: every field of every record, through   *)
(* the references, and every text.                                         *)
ValuesReadInside ==
    status = "ok" =>
        /\ RefsReadInside
        /\ \A f \in 0..(schema.field_count - 1) : FieldReadsInside(f) /\ TextReadsInside(f)
=============================================================================
