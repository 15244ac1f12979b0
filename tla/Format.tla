------------------------------- MODULE Format -------------------------------
(***************************************************************************)
(* The image as a file: the packed directory of format.hpp, and what the   *)
(* reader finds at each place of the mapping.                              *)
(*                                                                         *)
(*   file.length     bytes of the mapping                                  *)
(*   file.head       the magic and version at its start: "mmpack",         *)
(*                   "other version" or "foreign"                          *)
(*   file.foot       the footer, with its own `mark`                       *)
(*   file.schema     what is at foot.schema_offset: the schema header, the *)
(*                   field descriptors, the dictionary entries, and the    *)
(*                   positions of the NULs of the name blob                *)
(*   file.slots[i]   the packed directory slots at foot.dir_offset         *)
(*   file.dicts[i]   what is at the offset of dictionary i                 *)
(*   file.blocks     the records by their offset: [stride, remap, records] *)
(***************************************************************************)
EXTENDS Layout

CONSTANT Sizes   \* the sizes of the structs of the format, and its alignment

(* In the code header is 16, footer 64, schema_header 40, field_desc 24,   *)
(* dict_entry 16, alignment 8 (pad_to(8)), f32 4 and f64 8; uint8 is 256,  *)
(* the number of values an 8-bit field can hold, and uint16 is 65536.      *)
(* `name` is the length of a field name with its NUL, the same for every   *)
(* field in this model.                                                    *)
ASSUME FormatAssumption ==
    /\ Sizes \in [{"header", "footer", "schema_header", "field_desc", "dict_entry",
                   "alignment", "f32", "f64", "uint8", "uint16", "name"} -> Nat \ {0}]
    /\ Sizes.header \in Word
    /\ Sizes.footer >= WordBytes
    /\ {Sizes.f32, Sizes.f64} \subseteq 1..WordBytes
    /\ Sizes.uint8 > WordBytes

Times(a, b) == (a * b) % WordSize

(* static_cast<std::uint8_t> of a width, static_cast<std::uint16_t> of the *)
(* index of a dictionary, static_cast<std::uint32_t>.                      *)
uint8(v) == v % Sizes.uint8
uint16(v) == v % Sizes.uint16
uint32(v) == v % Weight[RemapEntrySize]

is_valid_width(w) == w \in NaturalWidths

(* Mutant: rounds down.                                                    *)
align_up_down(v, a) == v - (v % a)

PowerOf2[k \in Nat] == IF k = 0 THEN 1 ELSE 2 * PowerOf2[k - 1]

bit(n, k) == (n \div PowerOf2[k]) % 2

(* (v + (a - 1)) & ~(a - 1), which clears the bits of a - 1.               *)
align_up(v, a) ==
    LET cleared == {k \in 0..(a - 1) : bit(a - 1, k) = 1}
    IN  (v + (a - 1)) - MapThenSumSet(LAMBDA k : PowerOf2[k] * bit(v + (a - 1), k), cleared)

----------------------------------------------------------------------------
(* dir_layout: the width of each field of a slot, 0 for an absent one.     *)
make_dir_layout(partition, offset, count, schema_id, remap_count, width, skip) ==
    [partition |-> partition, offset |-> offset, count |-> count,
     schema_id |-> schema_id, remap_count |-> remap_count, width |-> width,
     skip |-> skip]

(* Where each field of a slot starts, and the bytes of a slot.             *)
DirAt(w) ==
    [partition |-> 0,
     offset |-> w.partition,
     count |-> w.partition + w.offset,
     schema_id |-> w.partition + w.offset + w.count,
     remap_count |-> w.partition + w.offset + w.count + w.schema_id,
     width |-> w.partition + w.offset + w.count + w.schema_id + w.remap_count,
     skip |-> w.partition + w.offset + w.count + w.schema_id + w.remap_count + w.width]

DirStride(w) == DirAt(w).skip + w.skip

(* Mutant: the address width is not stored.                                *)
encode_dir_entry_full(w, d) ==
    [partition |-> store_uint(w.partition, d.partition),
     offset |-> store_uint(w.offset, d.offset),
     count |-> store_uint(w.count, d.count),
     schema_id |-> IF w.schema_id = 0 THEN 0 ELSE uint8(d.schema_id),
     remap_count |-> store_uint(w.remap_count, d.remap_count),
     width |-> 0,
     skip |-> IF w.skip = 0 THEN 0 ELSE uint8(d.skip)]

(* The one-byte fields hold a width or a byte count.                       *)
encode_dir_entry(w, d) ==
    [partition |-> store_uint(w.partition, d.partition),
     offset |-> store_uint(w.offset, d.offset),
     count |-> store_uint(w.count, d.count),
     schema_id |-> IF w.schema_id = 0 THEN 0 ELSE uint8(d.schema_id),
     remap_count |-> store_uint(w.remap_count, d.remap_count),
     width |-> IF w.width = 0 THEN 0 ELSE uint8(d.width),
     skip |-> IF w.skip = 0 THEN 0 ELSE uint8(d.skip)]

(* The slot number stands for the partition of a dense directory, the full *)
(* address width for an absent width.                                      *)
decode_dir_entry(w, raw, i, full) ==
    [partition |-> IF w.partition = 0 THEN i ELSE store_uint(w.partition, raw.partition),
     offset |-> store_uint(w.offset, raw.offset),
     count |-> store_uint(w.count, raw.count),
     schema_id |-> IF w.schema_id = 0 THEN 0 ELSE raw.schema_id,
     remap_count |-> IF w.remap_count = 0 THEN 0
                     ELSE uint32(store_uint(w.remap_count, raw.remap_count)),
     width |-> IF w.width = 0 THEN full ELSE raw.width,
     skip |-> IF w.skip = 0 THEN 0 ELSE raw.skip]

----------------------------------------------------------------------------
(* What class table derives from a file it has accepted.                   *)
is_interned(f) == f.schema.mode = "interned"
value_part(f) == f.schema.record_stride - f.schema.address_width

directory_layout(schema) ==
    make_dir_layout(schema.dir.partition, schema.dir.offset, schema.dir.count,
                    IF schema.dir.remap_count # 0 THEN 1 ELSE 0, schema.dir.remap_count,
                    schema.dir.width, schema.dir.skip)

dir_slot(f, i) ==
    decode_dir_entry(directory_layout(f.schema), f.slots[i], i, f.schema.address_width)

(* layout_of: where the records of a slot lie and how wide they are.       *)
layout_of(f, d) ==
    LET remapped == d.schema_id # 0
    IN  [remap |-> d.offset,
         records |-> d.offset + (IF remapped THEN d.remap_count * RemapEntrySize ELSE 0),
         ref_width |-> IF remapped THEN d.schema_id ELSE f.schema.ref_width,
         stride |-> d.width + (IF remapped THEN d.schema_id ELSE value_part(f))]

(* A slot reads the records that were written for it: its offset and its   *)
(* stride are the ones they were written with.                             *)
BlockFound(f, d) ==
    /\ d.offset \in DOMAIN f.blocks
    /\ f.blocks[d.offset].stride = layout_of(f, d).stride
    /\ d.offset + f.blocks[d.offset].remap_bytes = layout_of(f, d).records

(* The image that table reads in a file.                                   *)
Attach(f) ==
    LET image_slot(d) ==
            [partition |-> d.partition, count |-> d.count, width |-> d.width,
             skip |-> d.skip, schema_id |-> d.schema_id, remap_count |-> d.remap_count,
             remap |-> IF d.count = 0 THEN <<>> ELSE f.blocks[d.offset].remap,
             records |-> IF d.count = 0 THEN <<>> ELSE f.blocks[d.offset].records]
        fields == f.schema.fields
    IN  [address_width |-> f.schema.address_width,
         address_span |-> f.schema.address_span,
         dense |-> f.foot.dense,
         dir_count |-> f.foot.dir_count,
         dir |-> [s \in 0..(f.foot.dir_count - 1) |-> image_slot(dir_slot(f, s))],
         interned |-> is_interned(f),
         value_dict |-> IF is_interned(f) THEN f.dicts[f.schema.value_dict].elements ELSE <<>>,
         descs |-> fields,
         text_dicts |-> [k \in DOMAIN fields |->
                            IF fields[k].kind = "text" THEN f.dicts[fields[k].dict_index].texts
                                                       ELSE <<>>],
         record_count |-> f.foot.record_count]
============================================================================
