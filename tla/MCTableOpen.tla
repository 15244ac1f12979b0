---------------------------- MODULE MCTableOpen ----------------------------
(* Two small images, and every file that differs from one of them in the   *)
(* value of one or two of their parts: words of four bytes of three values.*)
EXTENDS TableOpen, TLC

Powers3 == [k \in 0..WordBytes |-> 3^k]

SmallSizes == [header |-> 1, footer |-> WordBytes, schema_header |-> 1, field_desc |-> 1,
               dict_entry |-> 1, alignment |-> 2, f32 |-> 1, f64 |-> WordBytes,
               uint8 |-> 8, uint16 |-> 8, name |-> 1]

(* An interned image: a text dictionary at 2, the value dictionary at 14,   *)
(* a remapped partition at 24, a plain one at 34, the directory at 38.      *)
Interned ==
    [length |-> 75, head |-> "mmpack",
     foot |-> [mark |-> "mmpack", record_count |-> 4, dir_offset |-> 38, dir_count |-> 2,
               dense |-> FALSE, schema_offset |-> 64, schema_size |-> 7, image_size |-> 75],
     schema |-> [mark |-> "mmpack", field_count |-> 2, dict_count |-> 2, record_stride |-> 4,
                 value_stride |-> 2, name_bytes |-> 2, nuls |-> {0, 1}, address_width |-> 2,
                 address_span |-> 9, mode |-> "interned", ref_width |-> 2, value_dict |-> 1,
                 dir |-> make_dir_layout(1, 4, 4, 1, 1, 1, 1),
                 fields |-> [k \in 0..3 |->
                     [kind |-> IF k = 1 THEN "text" ELSE "uint", width |-> 1,
                      offset |-> k % 2, bias |-> 0, name_offset |-> k, dict_index |-> 0]],
                 dicts |-> [n \in 0..3 |-> IF n = 0 THEN [offset |-> 2, size |-> 11]
                                                   ELSE [offset |-> 14, size |-> 10]]],
     slots |-> [s \in 0..5 |->
         IF s = 0
         THEN [partition |-> 0, offset |-> 24, count |-> 3, schema_id |-> 1,
               remap_count |-> 2, width |-> 1, skip |-> 1]
         ELSE [partition |-> s, offset |-> 34, count |-> 1, schema_id |-> 0,
               remap_count |-> 0, width |-> 1, skip |-> 0]],
     dicts |-> [n \in 0..3 |->
         [mark |-> "mmpack", type |-> IF n = 0 THEN "blob" ELSE "fixed",
          count |-> IF n = 0 THEN 2 ELSE 4, payload |-> IF n = 0 THEN 3 ELSE 2,
          offsets |-> [k \in 0..8 |-> IF k < 2 THEN k ELSE 3]]]]

(* A dense inline image with a gap: records at 2 and 10, directory at 14.   *)
Inline ==
    [length |-> 44, head |-> "mmpack",
     foot |-> [mark |-> "mmpack", record_count |-> 3, dir_offset |-> 14, dir_count |-> 3,
               dense |-> TRUE, schema_offset |-> 36, schema_size |-> 4, image_size |-> 44],
     schema |-> [mark |-> "mmpack", field_count |-> 1, dict_count |-> 0, record_stride |-> 4,
                 value_stride |-> 1, name_bytes |-> 1, nuls |-> {0}, address_width |-> 3,
                 address_span |-> 27, mode |-> "inline", ref_width |-> 0, value_dict |-> 0,
                 dir |-> make_dir_layout(0, 4, 2, 0, 0, 1, 0),
                 fields |-> [k \in 0..3 |->
                     [kind |-> "uint", width |-> 1, offset |-> 0, bias |-> 0,
                      name_offset |-> 0, dict_index |-> 0]],
                 dicts |-> [n \in 0..3 |-> [offset |-> 2, size |-> 8]]],
     slots |-> [s \in 0..5 |->
         [partition |-> s, offset |-> IF s = 0 THEN 2 ELSE IF s = 2 THEN 10 ELSE 0,
          count |-> IF s = 0 THEN 2 ELSE IF s = 2 THEN 1 ELSE 0, schema_id |-> 0,
          remap_count |-> 0, width |-> 3, skip |-> 0]],
     dicts |-> [n \in 0..3 |->
         [mark |-> "mmpack", type |-> "blob", count |-> 1, payload |-> 1,
          offsets |-> [k \in 0..8 |-> IF k = 0 THEN 0 ELSE 1]]]]

----------------------------------------------------------------------------
(* The values tried in place of v, in a field of the given range: nothing,  *)
(* one less, one more, the largest one.                                     *)
Near(v, most) == {0, v - 1, v + 1, most} \cap 0..most

U8 == Sizes.uint8 - 1
U16 == Sizes.uint16 - 1
U32 == Weight[RemapEntrySize] - 1
U64 == WordSize - 1

(* Where the footer starts, for a file that has one.                        *)
TailOf(f) == Max({0, f.length - Sizes.footer})

(* A whole number of strides that wraps a word to almost nothing.           *)
Wrapping == {27, 41, 81 - 27}

Lengths(f) ==
    {[f EXCEPT !.length = n, !.foot.image_size = n] : n \in Near(f.length, U64)}
      \cup {[f EXCEPT !.length = n] : n \in Near(f.length, U64)}

Foots(f) ==
    {[f EXCEPT !.head = h] : h \in {"other version", "foreign"}}
      \cup {[f EXCEPT !.foot.mark = h] : h \in {"other version", "foreign"}}
      \cup {[f EXCEPT !.foot.record_count = n] : n \in Near(f.foot.record_count, U64)}
      \cup {[f EXCEPT !.foot.dir_offset = n] : n \in Near(f.foot.dir_offset, U64)}
      \cup {[f EXCEPT !.foot.dir_count = n] : n \in Near(f.foot.dir_count, 5)}
      \cup {[f EXCEPT !.foot.schema_offset = n] : n \in Near(f.foot.schema_offset, U64) \cup {TailOf(f)}}
      \cup {[f EXCEPT !.foot.schema_size = n] : n \in Near(f.foot.schema_size, U64)}
      \cup {[f EXCEPT !.foot.dense = ~f.foot.dense]}

Heads(f) ==
    {[f EXCEPT !.schema.mark = "foreign"]}
      \cup {[f EXCEPT !.schema.field_count = n] : n \in Near(f.schema.field_count, 3)}
      \cup {[f EXCEPT !.schema.dict_count = n] : n \in Near(f.schema.dict_count, 3)}
      \cup {[f EXCEPT !.schema.record_stride = n] : n \in Near(f.schema.record_stride, U32)}
      \cup {[f EXCEPT !.schema.value_stride = n] : n \in Near(f.schema.value_stride, U32)}
      \cup {[f EXCEPT !.schema.name_bytes = n] : n \in Near(f.schema.name_bytes, U32)}
      \cup {[f EXCEPT !.schema.nuls = {}]}
      \cup {[f EXCEPT !.schema.address_width = n] : n \in Near(f.schema.address_width, U8) \cup {5}}
      \cup {[f EXCEPT !.schema.address_span = n] : n \in {0, 2 * WordSize}}
      \cup {[f EXCEPT !.schema.mode = m] : m \in {"inline", "interned", "other"}}
      \cup {[f EXCEPT !.schema.ref_width = n] : n \in Near(f.schema.ref_width, U8)}
      \cup {[f EXCEPT !.schema.value_dict = n] : n \in Near(f.schema.value_dict, U32)}

DirWidths(f) ==
    {[f EXCEPT !.schema.dir[w] = n] : w \in DOMAIN f.schema.dir, n \in {0, 1, 2, 3, U8}}

FieldDescs(f) ==
    {[f EXCEPT !.schema.fields[k].kind = t] :
        k \in 0..(f.schema.field_count - 1), t \in {"text", "f32", "f64", "bytes", "other"}}
      \cup {[f EXCEPT !.schema.fields[k][part] = n] :
               k \in 0..(f.schema.field_count - 1),
               part \in {"width", "offset", "name_offset"}, n \in {0, 1, 2, U32}}
      \cup {[f EXCEPT !.schema.fields[k].dict_index = n] :
               k \in 0..(f.schema.field_count - 1), n \in {0, 1, 2, U16}}

SlotParts(f) ==
    {[f EXCEPT !.slots[s][part] = n] :
        s \in 0..(f.foot.dir_count - 1), part \in {"partition", "offset", "count"},
        n \in {0, 1, 24, U64} \cup Wrapping}
      \cup UNION {{[f EXCEPT !.slots[s][part] = n] : n \in Near(f.slots[s][part], U64)} :
                     s \in 0..(f.foot.dir_count - 1), part \in {"offset", "count"}}
      \cup {[f EXCEPT !.slots[s][part] = n] :
               s \in 0..(f.foot.dir_count - 1), part \in {"schema_id", "width", "skip"},
               n \in {0, 1, 2, 3, U8}}
      \cup {[f EXCEPT !.slots[s].remap_count = n] :
               s \in 0..(f.foot.dir_count - 1), n \in {0, 1, 2, 3, U32}}

DictParts(f) ==
    {[f EXCEPT !.schema.dicts[n].offset = v] :
        n \in 0..(f.schema.dict_count - 1), v \in {0, 1, TailOf(f), U64}}
      \cup {[f EXCEPT !.schema.dicts[n].size = v] :
               n \in 0..(f.schema.dict_count - 1), v \in {1, 10, 11, 12, 80}}
      \cup {[f EXCEPT !.dicts[n].mark = "foreign"] : n \in 0..(f.schema.dict_count - 1)}
      \cup {[f EXCEPT !.dicts[n].type = t] :
               n \in 0..(f.schema.dict_count - 1), t \in {"blob", "fixed"}}
      \cup {[f EXCEPT !.dicts[n][part] = v] :
               n \in 0..(f.schema.dict_count - 1), part \in {"count", "payload"},
               v \in {0, 1, 2, 3, 4, U32}}
      \cup {[f EXCEPT !.dicts[n].offsets[k] = v] :
               n \in 0..(f.schema.dict_count - 1), k \in 0..2, v \in {0, 2, 4, U32}}

Damaged(f) ==
    Lengths(f) \cup Foots(f) \cup Heads(f) \cup DirWidths(f)
      \cup FieldDescs(f) \cup SlotParts(f) \cup DictParts(f)

Images == {Interned, Inline}

(* The file is an image with up to two of its parts damaged.                *)
MCInit ==
    /\ \E f \in Images : \E g \in Damaged(f) \cup {f} : file \in Damaged(g)
    /\ OpenInit

MCSpec == MCInit /\ [][Next]_vars /\ WF_vars(Next)
============================================================================
