------------------------------- MODULE Image -------------------------------
(***************************************************************************)
(* An mmpack image as class table sees it once it is attached: the         *)
(* directory, the records of every slot and the value dictionary.          *)
(*                                                                         *)
(* A slot owns its records here; where they lie in the mapping is module   *)
(* Format.  Slots, records and the bytes of a stored tuple are numbered    *)
(* from 0, as in the code.                                                 *)
(*                                                                         *)
(*   img.address_width   bytes of the full address field                   *)
(*   img.address_span    2^address_bits, or 0 without a key mapping        *)
(*   img.dense           slot i describes partition i                      *)
(*   img.dir_count       number of directory slots                         *)
(*   img.dir[s]          [partition, count, width, skip, schema_id,        *)
(*                        remap_count, remap, records]                     *)
(*   records[i]          [value, bytes, payload]: the stored part of the   *)
(*                       address, as an integer on a narrow image and as   *)
(*                       bytes on a wide one, and the value part           *)
(*   img.interned        payloads are references into img.value_dict,      *)
(*                       instead of the bytes of a tuple                   *)
(*   img.value_dict      the stored tuples, a function from 0..n-1         *)
(*   img.descs[f]        [kind, width, offset, bias, dict_index] of a field*)
(*   img.text_dicts[f]   the texts of a text field, a sequence             *)
(***************************************************************************)
EXTENDS Words

(* schema_view::narrow_address                                             *)
narrow_address(img) == img.address_width <= WordBytes

(* schema_view::has_key_mapping, partition_of and address_of               *)
has_key_mapping(img) == img.address_span # 0
partition_of(span, key) == key \div span
address_of(span, key) == key % span

slot_partition(img, s) == IF img.dense THEN s ELSE img.dir[s].partition
slot_count(img, s) == img.dir[s].count

(* The full address field of a record: what a slot stores, put back where  *)
(* it belongs, with zeros for the trimmed bytes.  address_at shifts the    *)
(* stored integer up; address_into_at copies the stored bytes into a       *)
(* zeroed field.                                                           *)
address_at(img, s, i) ==
    LET d == img.dir[s]
    IN  IF d.skip >= WordBytes THEN 0
        ELSE (d.records[i].value * Weight[d.skip]) % WordSize

address_into_at(img, s, i) ==
    LET d == img.dir[s]
    IN  [b \in 1..img.address_width |->
            IF b - d.skip \in 1..d.width THEN d.records[i].bytes[b - d.skip]
                                         ELSE 0]

(* The coordinates an iterator at (s, i) reports.                          *)
KeyAt(img, s, i) ==
    IF narrow_address(img)
    THEN NarrowKey(slot_partition(img, s), address_at(img, s, i))
    ELSE WideKey(slot_partition(img, s), address_into_at(img, s, i))

(* The key of an element of a keyed image: the partition above the bits of *)
(* the address, which an address of a build never fills past.              *)
key_at(img, s, i) ==
    IF img.address_span >= WordSize THEN address_at(img, s, i)
    ELSE (slot_partition(img, s) * img.address_span + address_at(img, s, i)) % WordSize

(* The elements of the table.                                              *)
Contents(img) ==
    UNION {{KeyAt(img, s, i) : i \in 0..(slot_count(img, s) - 1)} :
              s \in 0..(img.dir_count - 1)}

(* What a lookup may assume of the image: the order the writer leaves in   *)
(* it.  Slots are in partition order, the stored stretch lies inside the   *)
(* address field and the records of a slot are strictly increasing.        *)
WellFormed(img) ==
    /\ img.address_width \in Nat
    /\ img.address_span \in 0..WordSize
    /\ img.dense \in BOOLEAN
    /\ img.dir_count \in Nat
    /\ \A s \in 0..(img.dir_count - 1) :
          LET d == img.dir[s]
          IN  /\ d.partition \in Nat /\ d.count \in Nat
              /\ d.width \in Nat /\ d.skip \in Nat
              /\ d.skip + d.width <= img.address_width
              /\ \A i \in 0..(d.count - 1) :
                    IF narrow_address(img)
                    THEN d.records[i].value \in 0..(Weight[d.width] - 1)
                    ELSE /\ DOMAIN d.records[i].bytes = 1..d.width
                         /\ d.records[i].bytes \in Seq(Byte)
              /\ \A i, j \in 0..(d.count - 1) :
                    i < j => IF narrow_address(img)
                             THEN d.records[i].value < d.records[j].value
                             ELSE LexLess(d.records[i].bytes, d.records[j].bytes)
    /\ \A s, t \in 0..(img.dir_count - 1) :
          s < t => slot_partition(img, s) < slot_partition(img, t)

(* Mutant: the trimmed bytes of the query are dropped unseen.              *)
probe_narrow_blind(d, value) ==
    [value |-> IF d.skip >= WordBytes THEN 0 ELSE value \div Weight[d.skip],
     tail  |-> FALSE]

(* A query reduced to the stretch of the address a slot stores.            *)
probe_narrow(d, value) ==
    [value |-> IF d.skip >= WordBytes THEN 0 ELSE value \div Weight[d.skip],
     tail  |-> IF d.skip >= WordBytes THEN value # 0
                                      ELSE value % Weight[d.skip] # 0]

probe_wide(img, d, bytes) ==
    [bytes |-> [b \in 1..d.width |-> bytes[d.skip + b]],
     head  |-> \E b \in 1..d.skip : bytes[b] # 0,
     tail  |-> \E b \in (d.skip + d.width + 1)..img.address_width : bytes[b] # 0]

----------------------------------------------------------------------------
(* Field reads return an optional: None, or Some(v).                       *)
None == <<>>
Some(v) == <<v>>

(* Mutant: the reference is global whatever the slot's schema.             *)
value_base_global(img, s, i) ==
    LET ref == img.dir[s].records[i].payload
    IN  IF s >= img.dir_count THEN None
        ELSE IF ~img.interned THEN Some(ref)
        ELSE IF ref \in DOMAIN img.value_dict THEN Some(img.value_dict[ref])
        ELSE None

(* The stored tuple of the element at (s, i).  None is the nullptr of an   *)
(* iterator at the end or of a reference that is out of range.             *)
value_base(img, s, i) ==
    LET d == img.dir[s]
        payload == d.records[i].payload
        ref == IF d.schema_id = 0 THEN payload ELSE d.remap[payload]
    IN  IF s >= img.dir_count THEN None
        ELSE IF ~img.interned THEN Some(payload)
        ELSE IF d.schema_id # 0 /\ payload >= d.remap_count THEN None
        ELSE IF ref \in DOMAIN img.value_dict THEN Some(img.value_dict[ref])
        ELSE None

(* read_scalar loads the bytes of the field and adds the bias back.        *)
read_scalar(img, s, i, f, expected) ==
    LET base == value_base(img, s, i)
        d == img.descs[f]
        stored == load_uint([b \in 1..d.width |-> base[1][d.offset + b - 1]])
    IN  IF f \notin DOMAIN img.descs \/ d.kind # expected \/ base = None
        THEN None
        ELSE Some(Plus(stored, d.bias))

(* table::text resolves the stored id through the field's dictionary.      *)
text(img, s, i, f) ==
    LET id == read_scalar(img, s, i, f, "text")
    IN  IF id # None /\ id[1] \in 0..(Len(img.text_dicts[f]) - 1)
        THEN Some(img.text_dicts[f][id[1] + 1]) ELSE None
============================================================================
