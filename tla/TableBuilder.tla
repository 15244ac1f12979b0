---------------------------- MODULE TableBuilder ----------------------------
(***************************************************************************)
(* class table_builder while it consumes records: begin_record and its     *)
(* caller-split forms, the setters of record_ref, commit, set_staging and  *)
(* the head of finish (sorting and the duplicate check).  What finish does *)
(* after that, choosing the layout and writing the image, is module        *)
(* ImageWriter.                                                            *)
(*                                                                         *)
(* The builder is driven by one client thread.  The client keeps a few     *)
(* record_ref variables, Handles, and may use them in any order, commit    *)
(* one twice, or keep one after a later begin.                             *)
(***************************************************************************)
EXTENDS Words

CONSTANTS
    FieldKind,       \* the schema: a function from field ids 0..n-1 to kinds
    RawWidth,        \* declared width of the f32, f64 and bytes fields
    TextSize,        \* the bytes of each text the client sets
    MaxBlob,         \* the most bytes of texts a dictionary takes, 2^32 - 1
    FieldValues,     \* the values the client sets, per field
    Keys,            \* the keys given to begin_record
    SplitKeys,       \* the <<partition, address>> given to begin_record_at
    WideKeys,        \* the <<partition, bytes>> given to begin_record_at
    AddressSpan,     \* 2^address_bits, WordSize when address_bits is 64
    InputOrders,     \* the values of options.order to consider
    DedupSample,     \* options.dedup_sample
    GiveUpRatio,     \* options.dedup_give_up_ratio, as <<numerator, denominator>>
    ClientStagings,  \* the kinds of staging the client may pass to set_staging
    Handles,         \* the record_ref variables of the client
    MaxRecords       \* bound on the number of staged records

Fields == DOMAIN FieldKind

(* A float, a double or a byte string is as wide as its field: the type of *)
(* the setter's argument sees to the first two, set_bytes to the third.    *)
ASSUME BuilderAssumption ==
    /\ Fields # {} /\ Fields \subseteq Nat
    /\ \A f \in Fields :
          FieldKind[f] \in {"uint", "sint", "f32", "f64", "bytes", "text"}
    /\ \A f \in Fields : RawWidth[f] \in 0..WordBytes
    /\ \A f \in Fields : FieldKind[f] # "text" => FieldValues[f] \subseteq Word
    /\ \A f \in Fields : FieldKind[f] \in {"f32", "f64", "bytes"} =>
          FieldValues[f] \subseteq 0..(Weight[RawWidth[f]] - 1)
    /\ \A f \in Fields : FieldKind[f] = "text" => FieldValues[f] \subseteq DOMAIN TextSize
    /\ \A v \in DOMAIN TextSize : TextSize[v] \in Nat
    /\ MaxBlob \in Nat
    /\ Keys \subseteq Word
    /\ SplitKeys \subseteq Word \X Word
    /\ WideKeys \subseteq Word \X Seq(Byte)
    /\ AddressSpan \in 1..WordSize
    /\ InputOrders \subseteq {"assume_sorted", "sort_if_needed"}
    /\ DedupSample \in Nat
    /\ GiveUpRatio \in Nat \X Nat
    /\ ClientStagings \subseteq {"wide", "blob"}
    /\ MaxRecords \in Nat

VARIABLES
    order,            \* options_.order
    mode,             \* mode_
    staging,          \* staging_: its kind, rows and sorted_ flag
    blob,             \* blob_: "null", "owned", or "dangling"
    wide_width,       \* wide_width_
    slots,            \* slots_: the scratch of the open record
    stats,            \* stats_
    texts,            \* text_dicts_, as the texts of each field in id order
    tuples,           \* tuples_, one slot vector per tuple, id 0 first
    index,            \* index_: the tuple ids in the hash index
    dedup_active,     \* dedup_active_
    count,            \* count_
    last,             \* last_partition_, last_address_ and last_wide_
    pending_address,  \* pending_address_
    stage,            \* "consuming" until finish sets finished_; then
                      \* "layout" if finish went on to choose_layout, else "failed"
    thrown,           \* what the last call threw, "none" if it returned
    handles,          \* the client's record_ref variables
    log               \* history: what the client committed, in staging order

config == <<order>>
store == <<staging, tuples, index, dedup_active, count, last>>
world == <<mode, blob, wide_width>>
record == <<slots, stats, texts, pending_address>>
client == <<handles, log>>
builder_vars == <<config, store, world, record, stage, thrown, client>>

(* Mutant: finished_ is set where finish succeeds, not where it starts.    *)
finished_late == stage = "layout"

finished == stage # "consuming"

----------------------------------------------------------------------------
(* The three stagings.  memory_staging packs the two parts of a key into   *)
(* one word and takes them apart again; wide_staging and blob_staging keep *)
(* them.  A row of blob_staging has no scalar address: address_at is 0.    *)
NoStaging == [kind |-> "none", rows |-> <<>>, sorted |-> TRUE]
EmptyStaging(kind) == [NoStaging EXCEPT !.kind = kind]

pack(partition, value) == (partition * AddressSpan + value) % WordSize

Row(kind, key, tuple) ==
    IF kind = "memory"
    THEN [packed |-> pack(key.partition, key.value), tuple |-> tuple]
    ELSE [partition |-> key.partition, value |-> key.value,
          bytes |-> key.bytes, tuple |-> tuple]

RowKey(kind, row) ==
    IF kind = "memory"
    THEN NarrowKey(row.packed \div AddressSpan, row.packed % AddressSpan)
    ELSE [partition |-> row.partition, value |-> row.value, bytes |-> row.bytes]

(* `before` and `key <= rows_.back().key`: is row a staged below row b?    *)
Before(kind, a, b) ==
    IF kind = "memory" THEN a.packed < b.packed
                       ELSE KeyLess(RowKey(kind, a), RowKey(kind, b))

(* Mutant: an equal key does not clear the flag.                           *)
push_lax(st, key, tuple) ==
    LET row == Row(st.kind, key, tuple)
        n == Len(st.rows)
    IN  [st EXCEPT !.rows = Append(@, row),
                   !.sorted = @ /\ (n = 0 \/ ~Before(st.kind, row, st.rows[n]))]

push(st, key, tuple) ==
    LET row == Row(st.kind, key, tuple)
        n == Len(st.rows)
    IN  [st EXCEPT !.rows = Append(@, row),
                   !.sorted = @ /\ (n = 0 \/ Before(st.kind, st.rows[n], row))]

(* The keys of the staged rows, as the writer will read them.              *)
StagedKeys(st) == [i \in DOMAIN st.rows |-> RowKey(st.kind, st.rows[i])]

Increasing(keys) ==
    \A i \in 1..(Len(keys) - 1) : KeyLess(keys[i], keys[i + 1])

(* std::sort may leave equal rows in any order.                            *)
SortingPermutations(st) ==
    {p \in [DOMAIN st.rows -> DOMAIN st.rows] :
        /\ \A i, j \in DOMAIN p : p[i] = p[j] => i = j
        /\ \A i \in 1..(Len(st.rows) - 1) :
              ~Before(st.kind, st.rows[p[i + 1]], st.rows[p[i]])}

Permuted(s, p) == [i \in DOMAIN s |-> s[p[i]]]

----------------------------------------------------------------------------
ZeroSlots == [f \in Fields |-> 0]
NoHandle == [open |-> FALSE]

BuilderInit ==
    /\ order \in InputOrders
    /\ mode = "undecided"
    /\ staging = NoStaging
    /\ blob = "null"
    /\ wide_width = 0
    /\ slots = ZeroSlots
    /\ stats = [f \in Fields |-> [seen |-> FALSE, min |-> WordSize - 1, max |-> 0]]
    /\ texts = [f \in Fields |-> <<>>]
    /\ tuples = <<>>
    /\ index = {}
    /\ dedup_active = TRUE
    /\ count = 0
    /\ last = NarrowKey(0, 0)
    /\ pending_address = <<>>
    /\ stage = "consuming"
    /\ thrown = "none"
    /\ handles = [h \in Handles |-> NoHandle]
    /\ log = <<>>

(* A call that throws before it has changed anything.                      *)
Throws ==
    /\ thrown' = "rejected"
    /\ UNCHANGED <<config, store, world, record, stage, client>>

(* What begin_record, begin_record_at and the constructor of record_ref    *)
(* leave in the handle.  `key` and the fields written through the handle   *)
(* are history; the code keeps only partition and value.                   *)
Handle(partition, value, key) ==
    [open |-> TRUE, partition |-> partition, value |-> value, key |-> key,
     written |-> [f \in {} |-> 0]]

(* Mutant: the mode of an earlier record is not looked at.                 *)
EnterMode_any(wanted) ==
    /\ mode' = wanted
    /\ staging' = IF staging.kind = "none"
                  THEN EmptyStaging(IF wanted = "keyed" THEN "memory" ELSE "wide")
                  ELSE staging
    /\ UNCHANGED <<blob, wide_width>>

(* enter_mode: fix the key world on the first record.                      *)
EnterMode(wanted) ==
    /\ mode \in {"undecided", wanted}
    /\ mode' = wanted
    /\ staging' = IF staging.kind = "none"
                  THEN EmptyStaging(IF wanted = "keyed" THEN "memory" ELSE "wide")
                  ELSE staging
    /\ UNCHANGED <<blob, wide_width>>

BeginNarrow(h, wanted, partition, value) ==
    /\ ~finished
    /\ EnterMode(wanted)
    /\ slots' = ZeroSlots
    /\ handles' = [handles EXCEPT ![h] =
                      Handle(partition, value, NarrowKey(partition, value))]
    /\ thrown' = "none"
    /\ UNCHANGED <<config, tuples, index, dedup_active, count, last, stats,
                   texts, pending_address, stage, log>>

begin_record(h, key) ==
    BeginNarrow(h, "keyed", key \div AddressSpan, key % AddressSpan)

begin_record_at(h, k) == BeginNarrow(h, "explicit", k[1], k[2])

(* enter_wide_mode allocates the arena of a wide build, unless the client  *)
(* already installed a staging.                                            *)
EnterWideMode(width) ==
    /\ mode \in {"undecided", "explicit_wide"}
    /\ mode' = "explicit_wide"
    /\ wide_width' = IF mode = "undecided" THEN width ELSE wide_width
    /\ IF mode = "undecided" /\ staging.kind = "none"
       THEN staging' = EmptyStaging("blob") /\ blob' = "owned"
       ELSE UNCHANGED <<staging, blob>>

begin_record_at_wide(h, k) ==
    /\ k[2] # <<>>
    /\ ~finished
    /\ EnterWideMode(Len(k[2]))
    /\ Len(k[2]) = wide_width'
    /\ pending_address' = k[2]
    /\ slots' = ZeroSlots
    /\ handles' = [handles EXCEPT ![h] = Handle(k[1], 0, WideKey(k[1], k[2]))]
    /\ thrown' = "none"
    /\ UNCHANGED <<config, tuples, index, dedup_active, count, last, stats,
                   texts, stage, log>>

(* The begins that throw: after finish, in another key world, with an      *)
(* empty address or one of another width.                                  *)
BeginRejected ==
    \/ /\ Keys # {}
       /\ finished \/ mode \notin {"undecided", "keyed"}
       /\ Throws
    \/ /\ SplitKeys # {}
       /\ finished \/ mode \notin {"undecided", "explicit"}
       /\ Throws
    \/ \E k \in WideKeys :
          /\ \/ k[2] = <<>>
             \/ finished
             \/ mode \notin {"undecided", "explicit_wide"}
             \/ mode = "explicit_wide" /\ Len(k[2]) # wide_width
          /\ Throws

----------------------------------------------------------------------------
(* observe widens the range of a field, comparing signed fields in signed  *)
(* space.                                                                  *)
ValueLess(f, a, b) == IF FieldKind[f] = "sint" THEN SignedLess(a, b) ELSE a < b

(* Mutant: the first value seen sets the minimum only.                     *)
observe_first_min(f, raw) ==
    LET s == stats[f]
    IN  [stats EXCEPT ![f] =
            IF ~s.seen THEN [s EXCEPT !.seen = TRUE, !.min = raw]
            ELSE [s EXCEPT !.min = IF ValueLess(f, raw, @) THEN raw ELSE @,
                           !.max = IF ValueLess(f, @, raw) THEN raw ELSE @]]

observe(f, raw) ==
    LET s == stats[f]
    IN  [stats EXCEPT ![f] =
            IF ~s.seen THEN [seen |-> TRUE, min |-> raw, max |-> raw]
            ELSE [s EXCEPT !.min = IF ValueLess(f, raw, @) THEN raw ELSE @,
                           !.max = IF ValueLess(f, @, raw) THEN raw ELSE @]]

(* blob_dictionary_builder::intern: whether the text fits the dictionary,  *)
(* its id, and the texts after it.                                         *)
blob_size(f) == MapThenSumSet(LAMBDA i : TextSize[texts[f][i]], DOMAIN texts[f])

Fits(f, v) ==
    \/ \E i \in DOMAIN texts[f] : texts[f][i] = v
    \/ blob_size(f) + TextSize[v] <= MaxBlob

Interned(f, v) ==
    IF \E i \in DOMAIN texts[f] : texts[f][i] = v
    THEN texts ELSE [texts EXCEPT ![f] = Append(@, v)]
(* Mutant: ids counted from 1.                                             *)
TextId_from_one(dict, v) == CHOOSE i \in DOMAIN dict : dict[i] = v

TextId(dict, v) == (CHOOSE i \in DOMAIN dict : dict[i] = v) - 1

(* set_uint, set_sint, set_f32, set_f64, set_text and set_bytes write the  *)
(* builder's scratch, whichever record the handle was made for, and do not *)
(* look at finished_.                                                      *)
SetField(h, f, v) ==
    /\ handles[h].open
    /\ CASE FieldKind[f] \in {"uint", "sint"} ->
                /\ slots' = [slots EXCEPT ![f] = v]
                /\ stats' = observe(f, v)
                /\ UNCHANGED texts
         [] FieldKind[f] \in {"f32", "f64", "bytes"} ->
                /\ slots' = [slots EXCEPT ![f] = v]
                /\ UNCHANGED <<stats, texts>>
         [] FieldKind[f] = "text" ->
                /\ Fits(f, v)
                /\ texts' = Interned(f, v)
                /\ slots' = [slots EXCEPT ![f] = TextId(texts'[f], v)]
                /\ UNCHANGED stats
    /\ handles' = [handles EXCEPT ![h].written =
                      [g \in DOMAIN @ \cup {f} |-> IF g = f THEN v ELSE @[g]]]
    /\ thrown' = "none"
    /\ UNCHANGED <<config, store, world, pending_address, stage, log>>

(* An id out of range, a setter of another kind than the field's, bytes of *)
(* another width than declared, or a text that does not fit.               *)
SetRejected(h) ==
    /\ handles[h].open
    /\ Throws

----------------------------------------------------------------------------
(* intern_tuple and maybe_give_up_on_dedup: the id of the scratch tuple,   *)
(* and the tuple table, index and dedup flag after it.                     *)
KeepsDedup(n) ==
    \/ count + 1 < DedupSample
    \/ n * GiveUpRatio[2] <= GiveUpRatio[1] * (count + 1)

(* Mutants: equality of hashes instead of tuples; of ids instead of tuples.*)
tuple_hash_equal(a, b) == \A f \in Fields : a[f] % 2 = b[f] % 2
tuple_never_equal(a, b) == FALSE

tuple_equal(a, b) == a = b

(* Mutant: the id is the number of tuples after the append.                *)
NextTuple_counted == Len(tuples) + 1

NextTuple == Len(tuples)

intern_tuple ==
    LET candidate == NextTuple
        appended == Append(tuples, slots)
        same == {t \in index : tuple_equal(tuples[t + 1], slots)}
        keeps == KeepsDedup(Len(appended))
    IN  IF ~dedup_active
        THEN [id |-> candidate, tuples |-> appended, index |-> index,
              active |-> FALSE]
        ELSE IF same # {}
        THEN [id |-> CHOOSE t \in same : TRUE, tuples |-> tuples,
              index |-> index, active |-> TRUE]
        ELSE [id |-> candidate, tuples |-> appended,
              index |-> IF keeps THEN index \cup {candidate} ELSE {},
              active |-> keeps]

StoreTuple(t) ==
    /\ tuples' = t.tuples
    /\ index' = t.index
    /\ dedup_active' = t.active

(* The key commit stages for a handle: a wide build takes the address from *)
(* pending_address_, not from the handle.                                  *)
CommitKey(r) ==
    IF blob = "null" THEN NarrowKey(r.partition, r.value)
                     ELSE WideKey(r.partition, pending_address)

(* Mutant: any address goes in the partition of the last record.           *)
OrderOk_partitions(r) ==
    order # "assume_sorted" \/ count = 0 \/ last.partition <= r.partition

(* The ordering check of commit.                                           *)
OrderOk(r) ==
    \/ order # "assume_sorted"
    \/ count = 0
    \/ last.partition < r.partition
    \/ /\ last.partition = r.partition
       /\ IF blob = "null" THEN last.value < r.value
                           ELSE LexLess(last.bytes, pending_address)

(* push on a blob_staging the client installed throws, push_bytes on the   *)
(* builder's own does not.                                                 *)
PushRefused == blob = "null" /\ staging.kind = "blob"

(* A commit through a dangling blob_ has no defined outcome; the behaviour *)
(* ends at the set_staging that left it so.                                *)
commit(h) ==
    LET r == handles[h]
        t == intern_tuple
        key == CommitKey(r)
    IN  /\ r.open
        /\ ~finished
        /\ blob # "dangling"
        /\ OrderOk(r)
        /\ ~PushRefused
        /\ count < MaxRecords
        /\ StoreTuple(t)
        /\ staging' = push(staging, key, t.id)
        /\ last' = [partition |-> r.partition, value |-> r.value,
                    bytes |-> IF blob = "null" THEN last.bytes
                                               ELSE pending_address]
        /\ count' = count + 1
        /\ log' = Append(log, [key |-> r.key, written |-> r.written])
        /\ thrown' = "none"
        /\ UNCHANGED <<config, world, record, stage, handles>>

CommitRejected(h) ==
    /\ handles[h].open
    /\ finished \/ ~OrderOk(handles[h])
    /\ Throws

(* Mutant: the tuple is taken back and stays in the index.                 *)
CommitRefused_half_undone(h) ==
    /\ handles[h].open
    /\ ~finished
    /\ OrderOk(handles[h])
    /\ PushRefused
    /\ index' = intern_tuple.index
    /\ thrown' = "push"
    /\ UNCHANGED <<config, tuples, dedup_active, staging, count, last, world, record, stage,
                   client>>

(* The tuple is interned before push throws, so it stays behind.           *)
CommitRefused(h) ==
    /\ handles[h].open
    /\ ~finished
    /\ OrderOk(handles[h])
    /\ PushRefused
    /\ Len(tuples) < MaxRecords
    /\ StoreTuple(intern_tuple)
    /\ thrown' = "push"
    /\ UNCHANGED <<config, staging, count, last, world, record, stage, client>>

----------------------------------------------------------------------------
set_staging(kind) ==
    /\ staging.rows = <<>>
    /\ staging' = EmptyStaging(kind)
    /\ blob' = IF blob = "owned" THEN "dangling" ELSE blob
    /\ thrown' = "none"
    /\ UNCHANGED <<config, tuples, index, dedup_active, count, last, mode,
                   wide_width, record, stage, client>>

SetStagingRejected ==
    /\ ClientStagings # {}
    /\ staging.rows # <<>>
    /\ Throws

check_sorted_unique(st) == Increasing(StagedKeys(st))

(* finish up to choose_layout: sort if the rows are not sorted, and look   *)
(* for a duplicate only then.                                              *)
finish ==
    /\ ~finished
    /\ LET st == IF staging.kind = "none" THEN EmptyStaging("memory") ELSE staging
       IN  IF st.sorted \/ order = "assume_sorted"
           THEN /\ staging' = st
                /\ thrown' = IF st.sorted THEN "none" ELSE "unsorted"
                /\ UNCHANGED log
           ELSE \E p \in SortingPermutations(st) :
                   LET sorted == [st EXCEPT !.rows = Permuted(@, p), !.sorted = TRUE]
                   IN  /\ staging' = sorted
                       /\ log' = Permuted(log, p)
                       /\ thrown' = IF check_sorted_unique(sorted)
                                    THEN "none" ELSE "duplicate"
    /\ stage' = IF thrown' = "none" THEN "layout" ELSE "failed"
    /\ UNCHANGED <<config, tuples, index, dedup_active, count, last, world,
                   record, handles>>

FinishRejected == finished /\ Throws

----------------------------------------------------------------------------
BuilderNext ==
    \/ \E h \in Handles :
          \/ \E k \in Keys : begin_record(h, k)
          \/ \E k \in SplitKeys : begin_record_at(h, k)
          \/ \E k \in WideKeys : begin_record_at_wide(h, k)
          \/ \E f \in Fields : \E v \in FieldValues[f] : SetField(h, f, v)
          \/ SetRejected(h)
          \/ commit(h)
          \/ CommitRejected(h)
          \/ CommitRefused(h)
    \/ \E kind \in ClientStagings : set_staging(kind)
    \/ SetStagingRejected
    \/ BeginRejected
    \/ finish
    \/ FinishRejected

BuilderSpec == BuilderInit /\ [][BuilderNext]_builder_vars

----------------------------------------------------------------------------
(* The types of a key, of a staged row and of a tuple.                     *)
KeyType == [partition : Word, value : Word, bytes : Seq(Byte)]

RowType(kind, n) ==
    IF kind = "memory"
    THEN [packed : Word, tuple : 0..(n - 1)]
    ELSE [partition : Word, value : Word, bytes : Seq(Byte), tuple : 0..(n - 1)]

(* The slot of a text is its id, which only the number of texts bounds.    *)
TupleType ==
    {t \in [Fields -> Nat] : \A f \in Fields : FieldKind[f] # "text" => t[f] \in Word}

(* Type correctness: every member of the builder has its type, and every   *)
(* id in the index and in a staged row is that of a tuple.                 *)
TypeOK ==
    /\ order \in InputOrders
    /\ mode \in {"undecided", "keyed", "explicit", "explicit_wide"}
    /\ staging \in [kind : {"none", "memory", "wide", "blob"},
                    rows : Seq(RowType(staging.kind, Len(tuples))), sorted : BOOLEAN]
    /\ blob \in {"null", "owned", "dangling"}
    /\ wide_width \in Nat
    /\ slots \in TupleType
    /\ stats \in [Fields -> [seen : BOOLEAN, min : Word, max : Word]]
    /\ DOMAIN texts = Fields
    /\ \A f \in Fields : texts[f] \in Seq(FieldValues[f])
    /\ tuples \in Seq(TupleType)
    /\ index \subseteq 0..(Len(tuples) - 1)
    /\ dedup_active \in BOOLEAN
    /\ count \in 0..MaxRecords
    /\ last \in KeyType
    /\ pending_address \in Seq(Byte)
    /\ stage \in {"consuming", "layout", "failed"}
    /\ DOMAIN handles = Handles
    /\ \A h \in Handles : handles[h].open =>
          /\ handles[h].partition \in Word /\ handles[h].value \in Word
          /\ handles[h].key \in KeyType

(* The sorted_ flag of a staging is true exactly when its rows are         *)
(* strictly increasing by (partition, address).  finish relies on it to    *)
(* skip both the sort and the duplicate check (builder.hpp:446), so a flag *)
(* left true over two equal keys would write an image with a duplicate.    *)
SortedFlagExact ==
    stage # "failed" => (staging.sorted <=> Increasing(StagedKeys(staging)))

(* commit's ordering check keeps an assume_sorted build sorted, whatever   *)
(* the client does with its handles: the throw at builder.hpp:448 is       *)
(* unreachable, as its comment says.                                       *)
UnsortedUnreachable == thrown # "unsorted"

(* A slot stands for the value v of field f, a text through its id.        *)
SlotMeans(f, slot, v) ==
    IF FieldKind[f] = "text"
    THEN slot < Len(texts[f]) /\ texts[f][slot + 1] = v
    ELSE slot = v

(* A staged row holds what one commit was given.                           *)
RowMatches(row, entry) ==
    LET t == tuples[row.tuple + 1]
    IN  /\ RowKey(staging.kind, row) = entry.key
        /\ \A f \in Fields :
              IF f \in DOMAIN entry.written
              THEN SlotMeans(f, t[f], entry.written[f]) ELSE t[f] = 0

(* What a staged record holds is what the client wrote through its handle: *)
(* its key, the values it set (a text through the dictionary), and 0 for   *)
(* the fields it left unset.  Deduplication (builder.hpp:541), giving up   *)
(* on it (builder.hpp:559), and sorting must all preserve this.            *)
StagedAsCommitted ==
    /\ Len(staging.rows) = Len(log)
    /\ \A i \in 1..Len(log) : RowMatches(staging.rows[i], log[i])

(* While deduplication is active every tuple is indexed and no two tuples  *)
(* are equal, so distinct_values and ref_width_ count distinct values.     *)
DedupExact ==
    dedup_active =>
        /\ index = 0..(Len(tuples) - 1)
        /\ \A i, j \in 1..Len(tuples) : tuples[i] = tuples[j] => i = j

(* The measured range of an integer field covers every value the client    *)
(* committed through it, so that choose_layout's width holds them all.     *)
StatsCover ==
    \A i \in 1..Len(log) : \A f \in DOMAIN log[i].written :
        FieldKind[f] \in {"uint", "sint"} =>
            LET v == log[i].written[f]
            IN  /\ stats[f].seen
                /\ ~ValueLess(f, v, stats[f].min)
                /\ ~ValueLess(f, stats[f].max, v)

(* The comment at builder.hpp:1131: blob_ is non-null exactly in           *)
(* explicit_wide mode.  commit, check_sorted_unique, choose_layout and     *)
(* write_image all read it as the test for that mode.                      *)
BlobExactlyWide == (blob # "null") <=> (mode = "explicit_wide")

(* Once finish has begun, no call adds, drops or reorders a staged record. *)
FrozenAfterFinish ==
    [][stage # "consuming" => UNCHANGED <<staging.rows, tuples, count, log>>]_builder_vars
============================================================================
