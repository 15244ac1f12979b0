---------------------------- MODULE ImageWriter ----------------------------
(***************************************************************************)
(* table_builder::finish past the duplicate check: choose_layout measures  *)
(* the staged records one partition at a time and prices both layouts,     *)
(* write_image walks the same partitions again and writes the chosen one.  *)
(* The module extends TableBuilder, so its behaviours are whole builds,    *)
(* from the first begin_record to the footer.                              *)
(*                                                                         *)
(* finish is one call: the client does nothing while the writer runs.  The *)
(* sink may throw at any write.                                            *)
(***************************************************************************)
EXTENDS TableBuilder, Format

CONSTANTS
    LayoutOptions,  \* the [remap, trim, align, interning, max_dense_slots] to consider
    SinkFailures    \* TRUE when the sink may throw

ASSUME WriterAssumption ==
    /\ \A o \in LayoutOptions :
          /\ o.remap \in BOOLEAN /\ o.trim \in BOOLEAN /\ o.align \in BOOLEAN
          /\ o.interning \in {"automatic", "always", "never"}
          /\ o.max_dense_slots \in Nat
    /\ SinkFailures \in BOOLEAN
    /\ IsFiniteSet(Fields) /\ Fields = 0..(Cardinality(Fields) - 1)
    /\ \A f \in Fields :
          /\ FieldKind[f] = "bytes" => RawWidth[f] # 0
          /\ FieldKind[f] = "f32" => RawWidth[f] = Sizes.f32
          /\ FieldKind[f] = "f64" => RawWidth[f] = Sizes.f64
    /\ MaxBlob = Weight[RemapEntrySize] - 1

VARIABLES
    options,      \* the layout half of options_, bound where finish first
                  \* reads it: the constructor fixed it, no client call depends
                  \* on it
    wpc,          \* where finish is: "off", "measure", "dictionaries",
                  \* "records", "directory", "written", or "thrown"
    row,          \* i, the first record of the next run
    shape,        \* descs_, value_stride_, ref_width_ and address_width_
    ranges,       \* partition_skip_ and partition_width_, in run order
    priced,       \* address_bytes and remap_savings so far
    interned,     \* interned_
    estimate,     \* the estimate of the layout chosen
    pos,          \* the bytes given to the sink so far
    dicts,        \* the dictionaries written so far, [entry, content]
    directory,    \* the runs written so far, [entry, block]
    file          \* the finished file, None before the footer is written

writer_vars == <<options, wpc, row, shape, ranges, priced, interned,
                 estimate, pos, dicts, directory, file>>
output_vars == <<pos, dicts, directory, file>>
vars == <<builder_vars, writer_vars>>

----------------------------------------------------------------------------
(* The staged records as finish reads them, numbered from 1.               *)
Rows == staging.rows
KeyOfRow(i) == RowKey(staging.kind, Rows[i])
PartitionOfRow(i) == KeyOfRow(i).partition
wide == blob # "null"

(* The run of records of one partition that starts after record i.         *)
RunEnd(i) ==
    Max({j \in (i + 1)..Len(Rows) :
            \A k \in (i + 1)..j : PartitionOfRow(k) = PartitionOfRow(i + 1)})
Run(i) == (i + 1)..RunEnd(i)
TuplesIn(run) == {Rows[k].tuple : k \in run}

(* choose_layout's field descriptors: integer fields are stored as the     *)
(* distance from the smallest value seen, in the width of the range.       *)
Bias(f) == IF FieldKind[f] \in {"uint", "sint"} /\ stats[f].seen THEN stats[f].min ELSE 0

FieldWidth(f) ==
    CASE FieldKind[f] \in {"uint", "sint"} ->
            width_for(Minus(IF stats[f].seen THEN stats[f].max ELSE 0, Bias(f)))
      [] FieldKind[f] = "text" -> width_for(Max({0, Len(texts[f]) - 1}))
      [] OTHER -> RawWidth[f]

TextFields == {f \in Fields : FieldKind[f] = "text"}
text_slot(f) == Cardinality({g \in TextFields : g < f})

(* Fields follow each other in the tuple, each rounded up when aligned.    *)
(* The 32-bit offset, stride and name_offset of the code are natural       *)
(* numbers here: a tuple and a name blob are shorter than 4 GiB.           *)
(* Mutant: every field is taken for one byte.                              *)
FieldOffsets_overlap(align) ==
    LET offset[f \in Fields] ==
            LET next == IF f = 0 THEN 0 ELSE offset[f - 1] + 1
            IN  IF align THEN align_up(next, FieldWidth(f)) ELSE next
    IN  offset

FieldOffsets(align) ==
    LET offset[f \in Fields] ==
            LET next == IF f = 0 THEN 0 ELSE offset[f - 1] + FieldWidth(f - 1)
            IN  IF align THEN align_up(next, FieldWidth(f)) ELSE next
    IN  offset

Desc(f, offset) ==
    [kind |-> FieldKind[f], width |-> FieldWidth(f), offset |-> offset,
     bias |-> Bias(f), name_offset |-> f * Sizes.name,
     dict_index |-> IF f \in TextFields THEN uint16(text_slot(f)) ELSE 0]

tuple_count == Len(tuples)

(* A wide build fixed its width; a narrow one takes the narrowest that     *)
(* holds the largest address.                                              *)
AddressWidth ==
    IF wide THEN wide_width
    ELSE exact_width_for(Max({0} \cup {KeyOfRow(i).value : i \in DOMAIN Rows}))

value_stride == shape.value_stride
ref_width == shape.ref_width
address_width == shape.address_width

(* encode_tuple stores the fields one after the other into zeroed bytes.   *)
encode_tuple(t) ==
    LET d(f) == shape.descs[f]
        stored(f) == store_uint(d(f).width, Minus(tuples[t + 1][f], d(f).bias))
        over(b) == {f \in Fields : b \in d(f).offset..(d(f).offset + d(f).width - 1)}
        byte(b, f) == Digit(stored(f), b - d(f).offset)
    IN  [b \in 0..(value_stride - 1) |-> IF over(b) = {} THEN 0 ELSE byte(b, Max(over(b)))]

----------------------------------------------------------------------------
Init ==
    /\ BuilderInit
    /\ options = [remap |-> TRUE, trim |-> TRUE, align |-> FALSE,
                  interning |-> "automatic", max_dense_slots |-> 0]
    /\ wpc = "off"
    /\ row = 0
    /\ shape = [descs |-> <<>>, value_stride |-> 0, ref_width |-> 1, address_width |-> 1]
    /\ ranges = <<>>
    /\ priced = [address_bytes |-> 0, remap_savings |-> 0]
    /\ interned = FALSE
    /\ estimate = 0
    /\ pos = 0
    /\ dicts = <<>>
    /\ directory = <<>>
    /\ file = None

(* The client's calls, up to finish; what it may still call afterwards     *)
(* cannot reach the image.                                                 *)
Consume == stage = "consuming" /\ BuilderNext /\ UNCHANGED writer_vars

(* finish goes on to choose_layout, which starts with the fields.          *)
StartLayout ==
    /\ wpc = "off" /\ stage = "layout"
    /\ wpc' = "measure"
    /\ options' \in LayoutOptions
    /\ LET offsets == FieldOffsets(options'.align)
           last_field == Max(Fields)
       IN  shape' = [descs |-> [f \in Fields |-> Desc(f, offsets[f])],
                     value_stride |-> offsets[last_field] + FieldWidth(last_field),
                     ref_width |-> width_for(Max({0, tuple_count - 1})),
                     address_width |-> AddressWidth]
    /\ UNCHANGED <<builder_vars, row, ranges, priced, interned, estimate, output_vars>>

(* The remap table choose_layout prices for a run.  Mutant: it counts the  *)
(* records of the run as distinct tuples.                                  *)
MeasuredPlan_records(run) ==
    plan_remap(options.remap, ref_width, Cardinality(run), Cardinality(run))

MeasuredPlan(run) ==
    plan_remap(options.remap, ref_width, Cardinality(TuplesIn(run)), Cardinality(run))

(* One partition of choose_layout's walk.                                  *)
MeasureRun ==
    LET run == Run(row)
        range == IF wide THEN trim_bytes({KeyOfRow(k).bytes : k \in run}, wide_width)
                         ELSE trim_bits({KeyOfRow(k).value : k \in run})
        n == RunEnd(row) - row
        plan == MeasuredPlan(run)
    IN  /\ wpc = "measure" /\ row < Len(Rows)
        /\ ranges' = Append(ranges, [skip |-> uint8(range.skip), width |-> uint8(range.width)])
        /\ priced' = [address_bytes |-> priced.address_bytes + n * range.width,
                      remap_savings |-> priced.remap_savings + plan.savings]
        /\ row' = RunEnd(row)
        /\ UNCHANGED <<builder_vars, options, wpc, shape, interned, estimate,
                       output_vars>>

(* Without trimming every run stores the full address.  Mutants: only the  *)
(* first run does; the bytes are still those of the trimmed addresses.     *)
FullRanges_one(full) == <<full>>
FullRanges(full) == [r \in DOMAIN ranges |-> full]

AddressBytes_trimmed == priced.address_bytes
AddressBytes == IF options.trim THEN priced.address_bytes ELSE count * address_width

(* The cost model.  write_image then starts with the header.               *)
Price ==
    LET full == [skip |-> 0, width |-> uint8(address_width)]
        inline_bytes == AddressBytes + count * value_stride
        gross == AddressBytes + count * ref_width
                   + fixed_dictionary_size(tuple_count, value_stride)
        interned_bytes == gross - Min({gross, priced.remap_savings})
        choice == CASE options.interning = "always" -> TRUE
                    [] options.interning = "never" -> FALSE
                    [] OTHER -> interned_bytes < inline_bytes
    IN  /\ wpc = "measure" /\ row = Len(Rows)
        /\ ranges' = IF options.trim THEN ranges ELSE FullRanges(full)
        /\ interned' = choice
        /\ estimate' = IF choice THEN interned_bytes ELSE inline_bytes
        /\ row' = 0
        /\ wpc' = "dictionaries"
        /\ pos' = Sizes.header
        /\ UNCHANGED <<builder_vars, options, shape, priced, dicts, directory, file>>

Padded(p) == align_up(p, Sizes.alignment)

(* A text dictionary's size.  Mutant: the offset of the end is left out.   *)
serialized_size_endless(f) == DictHeaderSize + Len(texts[f]) * RemapEntrySize + blob_size(f)

serialized_size(f) == DictHeaderSize + (Len(texts[f]) + 1) * RemapEntrySize + blob_size(f)

(* A text dictionary: its header, the offset of every text and of the end, *)
(* summed up in 32 bits, and the texts.                                    *)
BlobDict(f) ==
    LET running(n) == uint32(MapThenSumSet(LAMBDA i : TextSize[texts[f][i]], 1..n))
    IN  [mark |-> "mmpack", type |-> "blob", count |-> Len(texts[f]), payload |-> blob_size(f),
         offsets |-> [n \in 0..Len(texts[f]) |-> running(n)], texts |-> texts[f]]

FixedDict ==
    [mark |-> "mmpack", type |-> "fixed", count |-> tuple_count, payload |-> value_stride,
     elements |-> [t \in 0..(tuple_count - 1) |-> encode_tuple(t)]]

(* Append a dictionary of this size at the next aligned position.          *)
PlaceDict(size, content) ==
    dicts' = Append(dicts, [entry |-> [offset |-> Padded(pos), size |-> size],
                           content |-> content])

WriteTextDict ==
    /\ wpc = "dictionaries" /\ Len(dicts) < Cardinality(TextFields)
    /\ LET f == CHOOSE g \in TextFields : text_slot(g) = Len(dicts)
       IN  /\ PlaceDict(serialized_size(f), BlobDict(f))
           /\ pos' = Padded(pos) + serialized_size(f)
    /\ UNCHANGED <<builder_vars, options, wpc, row, shape, ranges, priced, interned,
                   estimate, directory, file>>

(* The value dictionary of an interned image, which throws when it has too *)
(* many entries, and the padding before the records.                       *)
EndDictionaries ==
    LET size == fixed_dictionary_size(tuple_count, value_stride)
    IN  /\ wpc = "dictionaries" /\ Len(dicts) = Cardinality(TextFields)
        /\ \/ /\ interned /\ tuple_count > MaxDictEntries
              /\ wpc' = "thrown" /\ UNCHANGED <<pos, dicts>>
           \/ /\ interned /\ tuple_count <= MaxDictEntries
              /\ wpc' = "records"
              /\ PlaceDict(size, FixedDict)
              /\ pos' = Padded(Padded(pos) + size)
           \/ /\ ~interned
              /\ wpc' = "records" /\ pos' = Padded(pos) /\ UNCHANGED dicts
        /\ UNCHANGED <<builder_vars, options, row, shape, ranges, priced, interned,
                       estimate, directory, file>>

(* The global tuple ids of a run in first-appearance order, and the local  *)
(* index of one of them.                                                   *)
FirstSeen(run, t) == Min({k \in run : Rows[k].tuple = t})
LocalIndex(run, t) ==
    Cardinality({u \in TuplesIn(run) : FirstSeen(run, u) < FirstSeen(run, t)})
RemapTable(run) ==
    [l \in 0..(Cardinality(TuplesIn(run)) - 1) |->
        CHOOSE t \in TuplesIn(run) : LocalIndex(run, t) = l]

(* One partition of write_image's walk, with the range choose_layout       *)
(* derived for the run of the same number: the directory entry, and the    *)
(* remap table and the records it points to.                               *)
Slot(run, range) ==
    LET n == Cardinality(run)
        first == Min(run)
        plan == plan_remap(options.remap, ref_width, Cardinality(TuplesIn(run)), n)
        remapped == interned /\ plan.local # 0
        width == IF remapped THEN plan.local ELSE ref_width
        remap_count == IF remapped THEN Cardinality(TuplesIn(run)) ELSE 0
        payload(t) == IF ~interned THEN encode_tuple(t)
                      ELSE store_uint(width, IF remapped THEN LocalIndex(run, t) ELSE t)
        record_at(k) == StoredAddress(address_width, wide, KeyOfRow(k), range)
    IN  [entry |-> [partition |-> PartitionOfRow(first), offset |-> pos, count |-> n,
                    schema_id |-> IF remapped THEN plan.local ELSE 0,
                    remap_count |-> remap_count,
                    width |-> range.width, skip |-> range.skip],
         block |-> [remap_bytes |-> remap_count * RemapEntrySize,
                    stride |-> range.width + (IF interned THEN width ELSE value_stride),
                    remap |-> IF remapped THEN RemapTable(run) ELSE <<>>,
                    records |-> [i \in 0..(n - 1) |->
                        [value |-> record_at(first + i).value,
                         bytes |-> record_at(first + i).bytes,
                         payload |-> payload(Rows[first + i].tuple)]]]]

SlotBytes(s) == s.block.remap_bytes + s.entry.count * s.block.stride

WriteRun ==
    /\ wpc = "records" /\ row < Len(Rows)
    /\ IF Len(directory) < Len(ranges)
       THEN LET s == Slot(Run(row), ranges[Len(directory) + 1])
            IN  /\ directory' = Append(directory, s)
                /\ pos' = pos + SlotBytes(s)
                /\ row' = RunEnd(row)
                /\ UNCHANGED wpc
       ELSE wpc' = "out_of_step" /\ UNCHANGED <<directory, pos, row>>
    /\ UNCHANGED <<builder_vars, options, shape, ranges, priced, interned,
                   estimate, dicts, file>>

(* Mutant: an empty table has no directory to write.                       *)
EndRecords_some ==
    /\ wpc = "records" /\ row = Len(Rows) /\ directory # <<>>
    /\ wpc' = IF Len(directory) = Len(ranges) THEN "directory" ELSE "out_of_step"
    /\ pos' = Padded(pos)
    /\ UNCHANGED <<builder_vars, options, row, shape, ranges, priced, interned,
                   estimate, dicts, directory, file>>

EndRecords ==
    /\ wpc = "records" /\ row = Len(Rows)
    /\ wpc' = IF Len(directory) = Len(ranges) THEN "directory" ELSE "out_of_step"
    /\ pos' = Padded(pos)
    /\ UNCHANGED <<builder_vars, options, row, shape, ranges, priced, interned,
                   estimate, dicts, directory, file>>

Entries == [i \in DOMAIN directory |-> directory[i].entry]
WrittenPartitions == [i \in DOMAIN directory |-> Entries[i].partition]

(* A dense directory has a slot for every partition up to the last; a gap  *)
(* slot holds no records and the full address range.                       *)
GapSlot(p) ==
    [partition |-> p, offset |-> 0, count |-> 0, schema_id |-> 0, remap_count |-> 0,
     width |-> address_width, skip |-> 0]

DenseSlots ==
    [p \in 0..WrittenPartitions[Len(directory)] |->
        IF \E i \in DOMAIN directory : Entries[i].partition = p
        THEN Entries[CHOOSE i \in DOMAIN directory : Entries[i].partition = p]
        ELSE GapSlot(p)]

(* The width of each directory field, from the largest value of the        *)
(* written entries; an address width is stored when one is not the global  *)
(* width.                                                                  *)
DirWidths(dense) ==
    LET most(values) == Max({0} \cup values)
        offsets == {Entries[i].offset : i \in DOMAIN directory}
        counts == {Entries[i].count : i \in DOMAIN directory}
        remaps == most({Entries[i].remap_count : i \in DOMAIN directory})
        skips == most({Entries[i].skip : i \in DOMAIN directory})
        trimmed == \E i \in DOMAIN directory : Entries[i].width # address_width
    IN  make_dir_layout(
            IF dense THEN 0 ELSE width_for(most({WrittenPartitions[i] : i \in DOMAIN directory})),
            width_for(most(offsets)),
            width_for(most(counts)),
            IF remaps # 0 THEN 1 ELSE 0,
            IF remaps # 0 THEN width_for(remaps) ELSE 0,
            IF trimmed THEN 1 ELSE 0,
            IF skips # 0 THEN 1 ELSE 0)

(* write_schema: the widths are stored in 8 bits.  A build that was caller *)
(* split records that it has no key mapping.                               *)
Schema(w) ==
    [mark |-> "mmpack",
     field_count |-> Cardinality(Fields), dict_count |-> Len(dicts),
     record_stride |-> address_width + (IF interned THEN ref_width ELSE value_stride),
     value_stride |-> value_stride,
     name_bytes |-> Cardinality(Fields) * Sizes.name,
     nuls |-> {f * Sizes.name + Sizes.name - 1 : f \in Fields},
     address_width |-> uint8(address_width),
     address_span |-> IF mode \in {"explicit", "explicit_wide"} THEN 0 ELSE AddressSpan,
     mode |-> IF interned THEN "interned" ELSE "inline",
     ref_width |-> IF interned THEN ref_width ELSE 0,
     value_dict |-> IF interned THEN Cardinality(TextFields) ELSE 0,
     dir |-> w,
     fields |-> shape.descs,
     dicts |-> [i \in 0..(Len(dicts) - 1) |-> dicts[i + 1].entry]]

(* The directory, the schema and the footer.                               *)
WriteDirectory ==
    LET dense == use_dense(options.max_dense_slots, WrittenPartitions)
        w == DirWidths(dense)
        slots_out == IF dense THEN DenseSlots
                     ELSE [s \in 0..(Len(directory) - 1) |-> Entries[s + 1]]
        dir_count == Cardinality(DOMAIN slots_out)
        schema_offset == Padded(pos + dir_count * DirStride(w))
        schema_size == Sizes.schema_header + Cardinality(Fields) * Sizes.field_desc
                         + Len(dicts) * Sizes.dict_entry + Cardinality(Fields) * Sizes.name
        image_size == schema_offset + schema_size + Sizes.footer
    IN  /\ wpc = "directory"
        /\ file' = Some(
              [length |-> image_size,
               head |-> "mmpack",
               foot |-> [mark |-> "mmpack", record_count |-> count, dir_offset |-> pos,
                         dir_count |-> dir_count, dense |-> dense,
                         schema_offset |-> schema_offset, schema_size |-> schema_size,
                         image_size |-> image_size],
               schema |-> Schema(w),
               slots |-> [s \in DOMAIN slots_out |-> encode_dir_entry(w, slots_out[s])],
               dicts |-> [i \in 0..(Len(dicts) - 1) |-> dicts[i + 1].content],
               blocks |-> [o \in {Entries[i].offset : i \in DOMAIN directory} |->
                   directory[CHOOSE i \in DOMAIN directory : Entries[i].offset = o].block]])
        /\ pos' = image_size
        /\ wpc' = "written"
        /\ UNCHANGED <<builder_vars, options, row, shape, ranges, priced, interned,
                       estimate, dicts, directory>>

(* Sink::write throws: the bytes so far have no footer, and finished_      *)
(* stays set.                                                              *)
SinkFails ==
    /\ SinkFailures
    /\ wpc \in {"dictionaries", "records", "directory"}
    /\ wpc' = "thrown"
    /\ UNCHANGED <<builder_vars, options, row, shape, ranges, priced, interned,
                   estimate, output_vars>>

Writing ==
    \/ StartLayout \/ MeasureRun \/ Price
    \/ WriteTextDict \/ EndDictionaries
    \/ WriteRun \/ EndRecords
    \/ WriteDirectory

Next == Consume \/ Writing \/ SinkFails

(* finish is a call in progress: it keeps running once entered.  A sink    *)
(* need not fail.                                                          *)
Spec == Init /\ [][Next]_vars /\ WF_vars(Writing)

----------------------------------------------------------------------------
(* Type correctness of the writer: it never has more ranges, dictionaries  *)
(* or slots than the records and the fields account for.                   *)
WriterTypeOK ==
    /\ wpc \in {"off", "measure", "dictionaries", "records", "directory", "written",
                "thrown", "out_of_step"}
    /\ row \in 0..Len(Rows)
    /\ \A r \in 1..Len(ranges) : ranges[r].skip \in Nat /\ ranges[r].width \in Nat
    /\ priced \in [address_bytes : Nat, remap_savings : Nat]
    /\ interned \in BOOLEAN
    /\ estimate \in Nat
    /\ pos \in Nat
    /\ Len(dicts) <= Cardinality(TextFields) + 1
    /\ Len(directory) <= Len(Rows)

(* The image a reader that attaches to the file works on.                  *)
image == IF file = None THEN None ELSE Some(Attach(file[1]))

(* choose_layout and write_image split the records into the same runs, so  *)
(* neither "partition ranges out of step" throw (builder.hpp:928, 990) can *)
(* happen.                                                                 *)
WalksInStep == wpc # "out_of_step"

(* Reading a field of the image back through the accessors of table.       *)
ReadBack(m, s, i, f) ==
    IF FieldKind[f] = "text" THEN text(m, s, i, f)
                             ELSE read_scalar(m, s, i, f, FieldKind[f])

(* The layout written costs what the cost model said it would: the remap   *)
(* tables, the trimmed addresses and the dictionary are priced exactly.    *)
PricedAsWritten ==
    file # None =>
        estimate = MapThenSumSet(LAMBDA i : SlotBytes(directory[i]), DOMAIN directory)
                     + (IF interned THEN dicts[Len(dicts)].entry.size ELSE 0)

(* A dense directory never has more slots than the ceiling.                *)
DenseBounded ==
    file # None /\ file[1].foot.dense =>
        file[1].foot.dir_count <= options.max_dense_slots

(* "Fields left unset default to 0" (builder.hpp:303): an integer field    *)
(* the client did not write reads back as 0.                               *)
UnsetReadsZero ==
    file # None =>
        LET m == image[1]
        IN  \A s \in 0..(m.dir_count - 1) : \A i \in 0..(slot_count(m, s) - 1) :
              \A n \in 1..Len(log) : \A f \in Fields :
                 (/\ KeyAt(m, s, i) = log[n].key
                  /\ f \notin DOMAIN log[n].written
                  /\ FieldKind[f] \in {"uint", "sint"})
                    => ReadBack(m, s, i, f) = Some(0)

(* "Stored as given and compared lexicographically" (builder.hpp:378): the *)
(* image of a span build is ordered the way the reader compares addresses. *)
SpanBuildSearchable ==
    file # None /\ mode = "explicit_wide" => WellFormed(image[1])

============================================================================
