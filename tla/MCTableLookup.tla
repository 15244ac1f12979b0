--------------------------- MODULE MCTableLookup ---------------------------
(* Every image over a few keys, trimmed or not, dense or sparse, narrow or  *)
(* wide.                                                                    *)
EXTENDS TableLookup, Layout, SequencesExt

Powers2 == [k \in 0..WordBytes |-> 2^k]

Partitions(K) == {k.partition : k \in K}
KeysOf(K, p) == {k \in K : k.partition = p}

(* The slot of partition p in an image of the keys K.                       *)
SlotOf(K, p, wide, address_width, trim) ==
    LET own == SetToSortSeq(KeysOf(K, p), KeyLess)
        full == [skip |-> 0, width |-> address_width]
        range == IF own = <<>> \/ ~trim THEN full
                 ELSE IF wide THEN trim_bytes({k.bytes : k \in ToSet(own)}, address_width)
                 ELSE trim_bits({k.value : k \in ToSet(own)})
    IN  [partition |-> p, count |-> Len(own),
         skip |-> range.skip, width |-> range.width,
         records |-> [i \in 0..(Len(own) - 1) |->
                        StoredAddress(address_width, wide, own[i + 1], range)]]

ImageOf(K, wide, address_width, trim, dense, span) ==
    LET ps == IF dense THEN SetToSortSeq(0..Max(Partitions(K) \cup {0}), <)
                       ELSE SetToSortSeq(Partitions(K), <)
    IN  [address_width |-> address_width, address_span |-> span,
         dense |-> dense, dir_count |-> Len(ps),
         dir |-> [s \in 0..(Len(ps) - 1) |->
                    SlotOf(K, ps[s + 1], wide, address_width, trim)]]

(* Narrow: three-byte words of binary bytes.                                *)
NarrowUniverse == {NarrowKey(p, v) : p \in {1, 3}, v \in {0, 2, 4, 6, 7}}
FewOf(U) == {S \in SUBSET U : Cardinality(S) <= 2} \cup {KeysOf(U, p) : p \in Partitions(U)} \cup {U}
PlainImages ==
    {ImageOf(K, FALSE, 3, trim, dense, 0) :
        K \in FewOf(NarrowUniverse),
        trim \in BOOLEAN, dense \in BOOLEAN}

(* Images of keyed builds, address_bits = 1.                                *)
KeyedImages ==
    {ImageOf({NarrowKey(partition_of(2, k), address_of(2, k)) : k \in K},
             FALSE, 1, TRUE, dense, 2) :
        K \in SUBSET {1, 4, 5, 7}, dense \in BOOLEAN}
NarrowImages == PlainImages \cup KeyedImages
NarrowQueries ==
    {[form |-> "parts", partition |-> p, value |-> v] : p \in 0..4, v \in Word}
      \cup {[form |-> "key", key |-> k] : k \in {0, 3, 4, 7}}
      \cup {[form |-> "bytes", partition |-> 1, bytes |-> b] :
               b \in {<<1>>, <<0, 1, 1>>}}

(* Wide: addresses of four bytes, one more than a word.                     *)
WideBytes == {<<0, 0, 0, 0>>, <<0, 1, 0, 0>>, <<0, 1, 1, 0>>, <<1, 0, 0, 0>>}
WideUniverse == {WideKey(p, b) : p \in {0, 2}, b \in WideBytes}
WideImages ==
    {ImageOf(K, TRUE, 4, trim, dense, 0) :
        K \in FewOf(WideUniverse),
        trim \in BOOLEAN, dense \in BOOLEAN}
WideQueries ==
    {[form |-> "bytes", partition |-> p, bytes |-> <<a, b, c, d>>] :
        p \in {0, 1, 2}, a \in Byte, b \in Byte, c \in Byte, d \in Byte}

AllImages == NarrowImages \cup WideImages
AllQueries == NarrowQueries \cup WideQueries
============================================================================
