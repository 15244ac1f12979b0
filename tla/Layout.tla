------------------------------- MODULE Layout -------------------------------
(***************************************************************************)
(* The decisions table_builder::choose_layout and write_image take from    *)
(* the measured data, as operators: which bytes of the address a partition *)
(* stores, when a remap table pays for itself, when the directory is       *)
(* dense.                                                                  *)
(***************************************************************************)
EXTENDS Image

CONSTANTS RemapEntrySize,   \* sizeof(std::uint32_t), an entry of a remap table
          MaxLocalWidth,    \* remap::max_local_width
          DictHeaderSize    \* sizeof(dict_header)

ASSUME LayoutAssumption ==
    /\ RemapEntrySize \in 1..WordBytes
    /\ MaxLocalWidth \in 1..RemapEntrySize
    /\ DictHeaderSize \in Nat

(* The stretch from the first to the last byte that some address uses.     *)
(* The code reads it off the OR of the addresses, whose byte b is nonzero  *)
(* exactly when byte b of some address is.                                 *)
Stretch(used) ==
    IF used = {} THEN [skip |-> 0, width |-> 0]
    ELSE [skip |-> Min(used), width |-> Max(used) + 1 - Min(used)]

(* Mutant: the AND of the addresses in place of their OR.                  *)
trim_bits_and(values) ==
    Stretch({b \in 0..(WordBytes - 1) : \A v \in values : Digit(v, b) # 0})

trim_bits(values) ==
    Stretch({b \in 0..(WordBytes - 1) : \E v \in values : Digit(v, b) # 0})

trim_bytes(addresses, n) ==
    Stretch({b \in 0..(n - 1) : \E a \in addresses : a[b + 1] # 0})

(* The address part of a record as the writer stores it and the reader     *)
(* loads it.  A byte address no wider than a word is loaded as an integer, *)
(* because the reader goes by address_width alone.                         *)
StoredAddress(address_width, wide, key, range) ==
    LET window == [b \in 1..range.width |-> key.bytes[range.skip + b]]
    IN  IF ~wide
        THEN [value |-> IF range.skip >= WordBytes THEN 0
                        ELSE store_uint(range.width, key.value \div Weight[range.skip]),
              bytes |-> <<>>]
        ELSE IF address_width <= WordBytes
        THEN [value |-> load_uint(window), bytes |-> <<>>]
        ELSE [value |-> 0, bytes |-> window]

(* Mutant: a remap table that costs more than it saves.                    *)
plan_remap_any(enabled, ref_width, distinct_here, count) ==
    LET local == width_for(distinct_here - 1)
        table == distinct_here * RemapEntrySize
        saved == count * (ref_width - local)
    IN  IF ~enabled \/ distinct_here = 0 \/ local >= ref_width \/ local > MaxLocalWidth
        THEN [local |-> 0, savings |-> 0]
        ELSE [local |-> local, savings |-> saved - table]

(* plan_remap: the local reference width (0 for remap::none) and the bytes *)
(* it saves.                                                               *)
plan_remap(enabled, ref_width, distinct_here, count) ==
    LET local == width_for(distinct_here - 1)
        table == distinct_here * RemapEntrySize
        saved == count * (ref_width - local)
    IN  IF \/ ~enabled \/ distinct_here = 0
           \/ local >= ref_width \/ local > MaxLocalWidth
           \/ saved <= table
        THEN [local |-> 0, savings |-> 0]
        ELSE [local |-> local, savings |-> saved - table]

(* fixed_dictionary_size, and the most entries a fixed dictionary takes.   *)
fixed_dictionary_size(count, elem_size) == DictHeaderSize + count * elem_size
MaxDictEntries == Weight[RemapEntrySize] - 1

(* Mutant: the partitions written are counted, not the slots.              *)
use_dense_count(max_dense_slots, partitions) ==
    LET n == Len(partitions)
        span == Plus(partitions[n], 1)
    IN  n # 0 /\ n <= max_dense_slots /\ span <= n * 4 + 16

(* use_dense: the span is computed in a word.                              *)
use_dense(max_dense_slots, partitions) ==
    LET n == Len(partitions)
        span == Plus(partitions[n], 1)
    IN  n # 0 /\ span <= max_dense_slots /\ span <= n * 4 + 16
============================================================================
