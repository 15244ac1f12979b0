# A verification project for mmpack

mmpack is a header-only C++ library that packs a sorted table into an image,
a byte string that can be mapped and searched in place. This directory holds
TLA+ modules translated from `src/include/mmpack/`, the TLC configurations that
check them on small instances, and theorems checked by TLAPS.

## 1. The system

There is no concurrency and no network: one client thread drives a builder,
and any number of readers use an image nobody changes. What is hard is
elsewhere: in long sequences of legal calls on one builder with shared scratch,
in decisions taken twice (once to price the image, once to write it), in
calls that fail part-way, and in the arithmetic of trimmed addresses, biased
fields and binary searches.

| Component | State | Operations | Source |
|---|---|---|---|
| record consumption | `mode_`, `staging_`, `blob_`, `wide_width_`, `slots_`, `stats_`, text dictionaries, `tuples_` and their index, `dedup_active_`, `count_`, `last_*`, `pending_address_`, `finished_` | `begin_record`, `begin_record_at` (integer and byte form), setters of `record_ref`, `commit`, `set_staging`, `finish` up to the duplicate check | `builder.hpp` |
| staging | rows, `sorted_` | `push`, `push_bytes`, `sort`, `sorted`, `*_at` | `builder.hpp:114-299` |
| layout choice | `descs_`, widths, `partition_skip_`, `partition_width_`, `interned_` | `choose_layout`, `trim_bits`, `trim_bytes`, `plan_remap`, `use_dense` | `builder.hpp:589-827, 1104` |
| image writer | directory, remap tables, dictionaries, footer | `write_image` | `builder.hpp:829-1102` |
| sink | bytes written so far | `write`, which may throw | `sink.hpp` |
| dictionaries | entries, ids | `intern`, serialise, `open`, lookup | `dictionary.hpp` |
| schema | fields, address regime, key split | declare, write, `open`, `partition_of`, `address_of` | `schema.hpp` |
| format | none | directory entry layout, encode, decode, footer | `format.hpp` |
| image validation | loop index, previous partition, end of the records so far, total | `table::try_open` and the views' `open` | `table.hpp:126-316`, `schema.hpp:187-285`, `dictionary.hpp:153-218` |
| lookups and iterator | iterator (slot, index) | `find`, `lower_bound`, `upper_bound`, `floor`, `contains`, `ceil`, `begin`, `end`, `++`, `--` | `table.hpp` |
| field reads | none | `value_base`, `read_scalar`, `text`, ... | `table.hpp:430-482, 672-740` |
| keyed wrappers | none | split and join of a caller's key type | `keyed.hpp` |

**How they interact.** A `record_ref` is a pointer to its builder: it carries a
partition and a scalar address, while the values of the open record, and the
bytes of a wide address, live in the builder. `commit` passes the key to the
staging the builder owns or the client installed; `blob_` is a second pointer
to that staging in byte-address builds. `finish` sorts the staging, looks for
duplicates, and then runs `choose_layout` and `write_image` over the rows;
both walk the partitions, and what the first measured for run *n* is used by
the second for run *n*. The file is the only thing the reader sees: `try_open`
checks it once, trusting nothing, and every lookup after that trusts what it
checked. A lookup searches the directory, then the records of one slot, comparing only the
stretch of the address the slot stores.

**What makes each part correct.** Consumption: every committed record is staged
under the key and with the values the client gave; the `sorted_` flag is exact,
because `finish` skips sort and duplicate check when it is set; an
`assume_sorted` build cannot end unsorted; deduplication does not change what a
record says; after `finish` nothing changes. Layout and writing: the image is
in the order the reader searches; what is written reads back; the estimates are
exact; a dense directory respects its ceiling; every `finish` ends, in a throw or
in a file the reader accepts. Opening: the checks read nothing outside the
mapping, and a file they accept has nothing outside it to read. Lookups:
the table behaves as an ordered map, reads stay inside the image, iterators are
elements or exactly `end()`, every call returns.

## 2. The modules

| Module | Models | Uses |
|---|---|---|
| `Words` | fixed-width integers, load/store, key order (`bits.hpp`) | |
| `Image` | an attached image, key reconstruction, probes, field reads | `Words` |
| `Layout` | trimming, remap planning, dictionary size, dense test | `Image` |
| `Format` | the file: packed directory, encode and decode, sizes of the structs, what a table derives from them | `Layout` |
| `TableBuilder` | the builder while it consumes records, head of `finish` | `Words` |
| `ImageWriter` | `choose_layout` and `write_image`, after a whole build | `TableBuilder`, `Format` |
| `TableOpen` | `try_open` and the nested `open`s, one check per step | `Format` |
| `BuildAndOpen` | a build, and `try_open` of the file it wrote | `ImageWriter`, instance of `TableOpen` |
| `SortedMap` | the abstract ordered map, one request at a time | |
| `TableLookup` | lookups and iterator, one step per loop iteration | `Image`, instance of `SortedMap` |
| `CommittedMap` | what the library promises: commit keys, open, look them up | instance of `SortedMap` |
| `BuildAndLookup` | a build, `try_open`, and lookups on the opened table | `BuildAndOpen`, instances of `TableLookup` and `CommittedMap` |
| `MCTableBuilder`, `MCImageWriter`, `MCBuildAndOpen`, `MCTableOpen`, `MCTableLookup`, `MCBuildAndLookup` | small instances | |
| `WordLemmas` | lemmas on naturals, recursion, finite sums, weights, byte strings and keys | `Words` |
| `TableBuilderProofs` | theorems about `TableBuilder` and what it keeps of a record | `TableBuilder` |
| `ImageWriterProofs` | theorems about `ImageWriter` | `TableBuilderProofs`, `WordLemmas` |
| `TableOpenProofs` | theorems about `TableOpen` | `TableOpen` |
| `WrittenImageProofs` | theorems about the file of a build, as a reader sees it | `BuildAndOpen`, `ImageWriterProofs` |
| `RoundTripProofs` | the opened image says what the client committed | `WrittenImageProofs` |
| `AcceptanceProofs` | `try_open` accepts every file `finish` writes; the library as a whole implements `CommittedMap` | `RoundTripProofs`, `BuildAndLookup`, instance of `TableLookupProofs` |
| `TableLookupProofs` | theorems about the positions of `TableLookup`; the records of an image are in the order of their keys, and trimmed probes compare as full keys do; `TableLookup` implements `SortedMap` | `TableLookup`, `WordLemmas` |

Definitions keep the names of the code where they translate a function
(`intern_tuple`, `plan_remap`, `probe_wide`); actions that are parts of a
function are named for the part (`BoundSlotFound`, `WriteRun`). A definition
preceded by a comment `Mutant:` is a variant of the one after it with a bug;
nothing uses it, and `PROJECT.json` pairs it with the property that rejects it.

### TableBuilder

One variable per member of `table_builder`, named after it. `staging.kind` says
which of the three stagings is installed; a memory row is the packed word, as
in `memory_staging`, and its key is taken apart again on reading. `blob` is
`"null"`, `"owned"` (it points to the staging), or `"dangling"` after
`set_staging` replaced that staging; a commit through a dangling pointer has no
defined outcome, and the model has no commit there. `handles` are the client's
`record_ref` variables, `log` is a history of what the client committed, used
by properties only. Each call is one action; a call that throws before changing
anything is `Throws`, and the throw that comes after the tuple was interned
(`CommitRefused`) has an action of its own. `std::sort` is any permutation
that sorts. A text has a size (`TextSize`), and `MaxBlob` is the limit that
`intern` puts on the sum.

### ImageWriter

`Consume` is any action of `TableBuilder`; then `finish` goes on in steps: the
fields, one per partition of each of the two walks, one per dictionary, the
directory with schema and footer. A failing sink can stop it between any two.
`pos` is the position the code keeps by hand, with every padding; the packed
directory gets its widths from the entries written, and the file is a record of
what was written at each place. `options` are the layout options; the
constructor fixed them, and the model binds them where `finish` first reads
them, which gives the same builds with fewer states.

### Format and Image

A file is a record of its parts, and each part is an integer of its width or a
mark that is right, of another version, or foreign. Bytes are not spelled out
except where the code takes values apart: keys, addresses and tuples. Directory
entries are encoded and decoded field by field, with a field's width as the code
chose it, and `align_up` clears the bits of `a - 1` as the code does (`bit`);
records are found by the offset that an entry decodes to (`blocks`), so a
truncated offset or a stride that differs from the one written does not find
them. `Image` is what the reader derives (`Attach`). `WellFormed` is what a
lookup may assume; `ImageWellFormed` says a file that was built and opened
delivers it.

### TableOpen

Each condition of `try_open`, `schema_view::open` and the dictionary views'
`open` is a conjunct, in the order of the code, and each loop is a step per
iteration. Values that the code sums or multiplies in 64 bits and that can wrap
(`Plus`, `Times`) do so here. `Files` is any set of files whose parts have their
types and nothing more: sizes, counts and offsets need not agree.

### BuildAndOpen

The builder's file becomes the mapping of `TableOpen`, by an instance whose
`file` is the writer's and whose loop index is `item`. Neither knows the other:
all they share is `Format`, as in the code.

### TableLookup and SortedMap

`Ask*` are the calls, and every iteration of every loop is one step: both
binary searches (`lo`, `len` are the code's variables), `normalize`, the walk
back of `floor`, `retreat`. `SortedMap` answers a request in one step from the
set of keys. The refinement maps the iterator to the key it is on and the
contents of the image to the set of keys, and is checked as `IsOrderedMap`. That
is a safety property: no call returns anything an ordered map would not. That
every call returns is `CallsReturn`. The
client does not decrement `begin()` nor increment `end()` onto anything but
`end()`; the latter is what the code does.

### BuildAndLookup and CommittedMap

The whole library: a build, the opening of its file, and then lookups by an
instance of `TableLookup` whose one image is the opened one. Before it has the
table a client has no iterator (`pc` is `"closed"`); `Begins` is `begin()` of the
table that `try_open` returned. `CommittedMap` is what that amounts to for a
client: it commits keys, opens once, and from then on has the `SortedMap` of the
keys it committed. The refinement takes the keys from the client's own history
(`log`), not from the image, so a key that is lost, doubled or altered anywhere
between `commit` and a lookup is a wrong answer.

## 3. The runs

| Run | Checks | Shows |
|---|---|---|
| `builder_order` | `TypeOK`, `SortedFlagExact`, `UnsortedUnreachable`, `DedupExact`, `FrozenAfterFinish` | keyed, caller-split and byte-address builds, two interleaved handles sharing scratch and pending address, client stagings and the tuple a refused push leaves behind, both input orders |
| `writer_remap` | `StagedAsCommitted`, `DedupExact`, `WriterTypeOK`, `RoundTrip`, `PricedAsWritten`, `WrittenOpens` | deduplication and giving it up; remap tables: written, priced, accepted and read back |
| `writer_split` | `StagedAsCommitted`, `WalksInStep`, `ImageWellFormed`, `RoundTrip`, `DenseBounded`, `WrittenOpens` | a text field with a blob that can fill up, sorting, dense with gaps and sparse, trimmed or not, failing sink |
| `writer_wide` | `BlobExactlyWide`, `StatsCover`, `ImageWellFormed`, `RoundTrip`, `PricedAsWritten`, `WrittenOpens`, `BuildOpens` | byte addresses past a word, the range of a signed field and an odd-width bytes field, aligned or not, automatic choice of layout, failing sink |
| `lookup` | `TypeOK`, `IteratorValid`, `IsOrderedMap`, `CallsReturn` | every lookup and every query on narrow, wide, trimmed, dense, sparse and keyed images |
| `open` | `OpenTypeOK`, `ChecksReadInside`, `LookupsReadInside`, `BlocksDisjoint`, `ValuesReadInside` | every file with up to two damaged parts |
| `library` | `IsCommittedMap` | builds of integer, split and byte-address keys in any order of commits, trimmed or not, dense with gaps or sparse, opened, and every lookup and query on the opened table |
| `writer_unset` | `UnsetReadsZero` is violated | finding 1 |
| `writer_short_span` | `SpanBuildSearchable` is violated | finding 2 |
| `writer_last_partition` | `DenseBounded` is violated | finding 3 |
| `builder_client_staging` | `BlobExactlyWide` is violated | finding 4 |
| `writer_overwide` | `WrittenOpens` is violated | finding 5 |

**Bounds.** A byte has two to four values (`ByteBase`) and a word two to seven
bytes. Nothing in the code depends on a byte having 256 values; with few, every
boundary (a value that just fits a width, a wrap, a sign change, a trimmed byte
at either end) lies within a handful of values. Where a file has to fit into the
word that holds its offsets, base or word is larger: 81 bytes in `open` and
`writer_split`, 64 in `writer_wide` and `library`, 128 in `writer_remap`. The
casts to 8 and to 16 bits are constants of their own: `Sizes.uint8` for the
widths, above every width except in `writer_overwide`, and `Sizes.uint16` for
the index of a field's dictionary, above the number of text fields in every run.
The other `Sizes`, `RemapEntrySize`, `MaxLocalWidth` and `DictHeaderSize` stand
for the struct sizes, 4, 4 and the dictionary header, scaled in the same way so
that remap tables both pay and do not pay, padding is needed and not needed, and
a dictionary can overflow with two or three entries. `NaturalWidths` stands for
1, 2, 4 and 8; in `writer_remap` it is 1, 4 and 7, so that a partition's
references can be three bytes narrower than the table's and a remap table pays
within five records. `MaxRecords` is 2 to 5, enough for two partitions of which
one has two records, for an order that is broken and repaired, and for a
duplicate that is not adjacent. `DedupSample` is 2 in `builder_order`, where all
tuples are equal, so that the second commit finds the tuple of the first one, or
the one that a refused push left behind; 2 in `writer_split`, where the builder
gives up on deduplication at two distinct tuples; 4 in `writer_remap`, where it
goes on with two distinct tuples and gives up at three, with one more record to
come; and 9 keeps it. The images of `lookup` have up to 10 keys in two
partitions with gaps before and between them. The files of `open` are an
interned and an inline image with up to two parts replaced by a neighbouring,
extreme or wrapping value: one damaged part is what each check is for, and two
are what it takes to get past one check and reach a second (a length that agrees
with a wrong footer, a count that agrees with a wrong total). `writer_remap`
starts from sorted builds and a sink that does not fail, since sorting and
failures are the subject of the other runs. `library` has three keys of each
form, with and without a gap and with bytes to trim at either end, up to three
records, values nobody looks at, and queries for keys that are there, between
and past the end, and in the form of another kind of table.

**Fairness.** Everything is one thread in a call: `WF(Writing)` in
`ImageWriter`, `WF(Next)` in `TableOpen`, `WF(Calls)` in `BuildAndOpen`
(`finish` or `try_open`, whichever is running) and `WF(Steps)` in `TableLookup`
say that a call once entered goes on. Neither the client's calls nor the sink's
failures are fair. A stopped client is not a deadlock: the `writer_*` runs and
`library` have `CHECK_DEADLOCK FALSE` because a finished or failed build, and
one at `MaxRecords`, really stops, and `open` because a call that has returned
does.

### Findings

1. A field left unset reads back as something else than 0. `choose_layout`
   takes the bias from the values that setters observed (`builder.hpp:637`) and
   `encode_tuple` subtracts it from the 0 of a record that left the field unset.
   `builder.hpp:303`: "Fields left unset default to 0."
2. A byte-address build of 8 bytes or fewer is ordered lexicographically and
   searched as little-endian integers (`builder.hpp:385`).
   `builder.hpp:378`: "stored as given and compared lexicographically".
3. `use_dense` computes `partition + 1`, which is 0 for the last partition
   (`builder.hpp:1106`); the ceiling of `builder.hpp:74` is not respected.
4. With a client staging, a byte-address build is in `explicit_wide` mode with
   `blob_` null (`builder.hpp:489`), against the comment at `builder.hpp:1131`.
5. The width of an address is stored in 8 bits (`builder.hpp:1080`), and
   `begin_record_at` takes a span of any length. A build of 256-byte addresses
   ends normally, and its file is rejected; `keyed.hpp:101` takes "255 bytes is a
   hard upper bound" for granted, and nothing enforces it.

`RoundTrip` speaks of the fields a record did set, and `ImageWellFormed` is
checked on byte addresses longer than a word, so both hold beside findings 1
and 2. Harmless, and not a finding: `align_up` clears the bits of `a - 1`, so for
the odd widths of bytes fields `align_fields` gives offsets that are no
multiples of the width (`builder.hpp:67`: "Round each field offset up to its own
width"); they do not overlap, nothing needs them aligned, and `writer_wide`
builds and reads back such tuples.

## 4. The proofs

### The builder

`TableBuilderProofs` proves, for every schema, set of keys and values, address
span, number of handles and records, and every width of bytes and words that
`WordAssumption` admits:

- `BuilderTypeCorrect`: `BuilderSpec => []TypeOK`.
- `SortedFlagIsExact`: `BuilderSpec => []SortedFlagExact`. `finish` skips the
  sort and the duplicate check when the flag is set, so this is what keeps
  duplicates and disorder out of an image.
- `UnsortedIsUnreachable`: `BuilderSpec => []UnsortedUnreachable`. The throw
  `finish` keeps for an unsorted `assume_sorted` build cannot happen.
- `DedupIsExact`: `BuilderSpec => []DedupExact`.
- `FrozenAfterFinishHolds`: `BuilderSpec => FrozenAfterFinish`.

The types are inductive together with `Shape`, which ties the mode to the
staging and to the open handles: rows are packed only in a keyed build, and
the handles of a keyed build hold the two parts of one word. `OrderInv` makes
the order inductive. `SortedFlagExact` by itself says nothing of the
coordinates `commit` compares the next record with; `OrderInv` adds that they
are those of the last staged row, in the representation the staging keeps, and
that an `assume_sorted` build is sorted so far. The argument then needs three
facts: `before` of a staging is the order of the keys (`BeforeIsKeyLess`, for a
packed row by `PackedOrder`, arithmetic on quotients and remainders of any
span); appending keeps a sequence increasing exactly when the new key is above
the last one (`AppendIncreasing`); and a staged row gives its key back
(`RowKeyOfRow`). `DedupExact` is inductive given the types (`InternTuple`), and
`FrozenAfterFinish` follows from the guards alone.

It also proves what the builder keeps of a record:

- `StatsAreCovering`: `BuilderSpec => []StatsCover`.
- `RecordsAreAsCommitted`: `OneAtATime => (BuilderSpec => []StagedAsCommitted)`,
  where `OneAtATime` says that at most one record is open at a time (the scratch
  is one per builder, see section 5) and that a byte-address build stages into
  the library's own staging (otherwise the addresses are lost, finding 4).
- `BlobIsExactlyWide`: `OwnStaging => (BuilderSpec => []BlobExactlyWide)`, where
  `OwnStaging` is the second half of `OneAtATime`. Without it the property is
  false, and the run of finding 4 shows how.

`CoverInv` makes the first inductive: a setter widens the range long before
`commit` counts the record, so what is open must be covered as well as what is
committed, and there is one committed record per staged row, which `finish`
permutes together. `WorldInv` makes the third inductive: it relates the mode to
`blob_` and to the kind of the staging, since `begin_record_at` installs the
staging that `blob_` then points to.

`MeansInv` makes the second inductive: `commit` stages the
scratch and `pending_address_`, not the handle, so these have to say what the
open handle says, and `blob_` has to agree with the mode. It rests on three
lemmas: an id given by `intern` stands for its text (`InternMeans`), the index
returned by `intern_tuple` is one of the tuple asked for, whether deduplication
is on, just abandoned or off (`InternTupleMeans`), and neither changes what
earlier tuples mean (`MeaningStays`).

### Opening a file

`TableOpenProofs` proves, for every set of files whose parts have the types of
their fields, of any size and with any contents:

- `OpenTypeSafe`: `Spec => []OpenTypeOK`.
- `ChecksAreSafe`: `Spec => []ChecksReadInside`. No check loads anything before
  the checks that make the load safe.
- `LookupsAreSafe`: `Spec => []LookupsReadInside`. In an accepted file every
  directory slot, remap table, record and address, with the whole word that a
  masked load takes, is inside the mapping.
- `BlocksAreDisjoint`: `Spec => []BlocksDisjoint`. The records of the slots
  follow one another, in unbounded arithmetic, although the code computes the
  end of each in 64 bits.
- `ValuesAreSafe`: `Spec => []ValuesReadInside`. So is every field, through the
  reference into the value dictionary, and every text.

None of the last four is inductive: what they say of an accepted file was
established by checks that are long past, and a step only knows the last one.
The invariant `Inv` adds `Passed`, which carries along, for each place in the
call, the facts that the checks before it were made for: `FrameGood` after the
footer, `SchemaGood`, one `FieldGood` per field so far, `GeometryGood` (the
directory and a word after it end before the file does), `SlotsSoFar` (the slots
checked are disjoint, below the floor, and the previous partition is that of the
last one), `DictGood` and `TextGood`. `SpecInv` proves it with one step per
action; the safety theorems follow from it by arithmetic. The two facts with
content there are `QuotientBounds` (`count <= room \div stride` bounds the product,
and therefore the product cannot wrap) and that a block which ends at or before
the directory leaves a readable word behind each of its records.

`TableOpen` starts with any file of `Files`; the instance in `BuildAndOpen` starts
with none, and gets the one the builder wrote. What is proved of that file is
below, under the file of a build and every file opens.

### The lookups

`TableLookupProofs` proves, for every set of well formed images of any size and
every query:

- `LookupsStayInside`: `Spec => []TypeOK`. Both binary searches keep
  `lo + len` within the count they search, every walk is on a slot of the
  directory, so every directory entry and record that is read exists.
- `IteratorsAreValid`: `Spec => []IteratorValid`. Every iterator returned is on
  a record, or is the one representation of `end()` that `operator==` compares
  with.

The two conjoined are not inductive. `--` on an iterator with index 0 walks
back over empty slots, and on reaching slot 0 it returns (0, 0), which may be no
element. `IInv` adds `RetreatFinds`: while a retreat runs, its index is within
its slot, or some lower slot has a record. It holds when the call starts because
the client's iterator is valid and is not `begin()`, and `begin()` is on the
first record there is (`BeginIsFirst`, which rests on `MinOfNats`, the minimum
of a nonempty set of naturals). Steps end in one of a few ways, and each has a
lemma: `ReturnIInv`, `WalkIInv`, `SearchSlotIInv`, `FloorBeforeIInv`,
`BisectIInv`. The one fact about queries that is needed, that the partition
looked for is a natural number, is `TargetPartition`.

The rest of the module proves the refinement:

- `LookupsImplementMap`: `Spec => IsOrderedMap`. Every call, through all the
  steps of its searches and walks, returns what an ordered map of the same keys
  returns, and no step before the return changes what the client sees.

The argument has two halves. The first is about images alone. The key of a
record is rebuilt from the stretch of address bytes its slot stores, and
`KeysIncrease` says that the keys increase with the positions: within a slot
because shifting preserves order, between slots because the directory is
ordered. `Probe` says that the comparison the code makes on a stored stretch and
a query reduced to it decides the comparison of the full keys: `tail` (something
nonzero in the less significant bytes, where the records have zeros) turns equal
into above, and `head` puts a wide query past every record of the slot. For
integers (`NarrowProbe`) this is division with remainder; for byte strings
(`WideProbe`) it is a first difference inside the stretch, before it or after it
(`StretchOrder`, `ZerosBelow`).

The other half is the loops. `SearchInv` adds to `IInv` what each of them knows
(`LoopInv`): while the directory is searched, the slots below `lo` are below the
partition sought and those from `lo + len` are not (`SlotsSplit`); the same for
the records of a slot (`RecordsSplit`); while an iterator is normalized, its
answer is the first record at or after the place (`UpFrom`); while `floor` or `--`
walks back, it is the last record before it (`DownBefore`). Each step keeps its
loop's part or returns, and a return is the one step of `SortedMap`. The least
key of a set of keys is the key at the least position (`LeastAt`), which is
where the order of the keys enters.

### The writer

`ImageWriterProofs` proves, for every schema, every build and every choice of
layout options, with a sink that may fail at any write:

- `WalksStayInStep`: `Spec => []WalksInStep`. Neither "partition ranges out of
  step" throw can happen.
- `WriterTypeCorrect`: `Spec => []WriterTypeOK`.
- `DenseIsBounded`: `Spec => [](LastPartitionFits => DenseBounded)`. The ceiling
  on dense slots holds unless the last partition is the largest 64-bit number,
  which is finding 3.
- `PriceIsPaid`: `Spec => [](AddressFits => PricedAsWritten)`. The estimate of the
  layout chosen is, byte for byte, what the records, the remap tables and the
  value dictionary take. `AddressFits` says that the width of a byte address fits
  in the 8 bits it is stored in; past that, the writer uses a truncated width
  where the cost model used the full one (the cause of finding 5), and the two
  do differ.

The builder's part of a whole build is a behaviour of `TableBuilder`
(`BuilderSteps`), so `TypeOK` and `Shape` are taken from `TableBuilderProofs`.

`WalksInStep` is not inductive: it says nothing of where the walks are. `Starts(i)`
are the records up to *i* that begin a run and `RunsTo(i)` is their number.
`WalkInv` says that each walk stands on a boundary between runs, that the ranges
measured are as many as the runs up to there, and that the slots written are as
many as the runs up to there; when the second walk starts, the ranges are as many
as all the runs. `OneRunFurther` says that a step of either walk, which goes to
`RunEnd`, passes exactly one start.

`PriceIsPaid` rests on `PriceInv`. The cost model adds up runs; so the sums of the
cost model, of the bytes written and of the property are all written as totals
over the starts of runs up to a record, and a step of a walk adds one term to each
(`OneRunMore`). The invariant carries the totals of the trimmed addresses and of
the remap savings through the first walk (`MeasurePrices`), turns them into an
equation between estimate and totals when the layout is chosen (`PriceSets`), and
carries an equation between the bytes written and the totals of the runs written
through the second (`WriteCosts`). That second equation needs the range of each
run to be the one measured for the same run (`RangesMatch`), hence `WalkInv`, and
the plan made when measuring to be the plan made when writing. The subtraction in
the cost model cannot go below zero because a plan saves at most a reference per
record (`PlanPays`).

`TypesInv` and the prices also need facts about the arithmetic of the layout:
`AlignUp` (clearing the bits of `a - 1` in `v + a - 1` leaves a natural number
that is at least `v`, whatever `a` is), and `OffsetsFollow` (each field's offset
is at least the end of the field before).

### The file of a build

`WrittenImageProofs` proves that the two halves of the library meet:

- `BuiltImagesAreWellFormed`:
  `BuildSpec => [](LongAddresses /\ ImageFits => ImageWellFormed)`. Whatever was
  committed, sorted, trimmed, interned, remapped and made dense, every slot of a
  file that `finish` wrote decodes to the place and the stride its records were
  written with, and the image is `WellFormed`, which is the one thing that the
  theorems about the lookups assume of an image. So they hold of every image a
  build can leave behind.

It has two hypotheses. `LongAddresses` says that a byte address is longer than a
word and at most 255 bytes long: a shorter one is read back as an integer, in
another order (finding 2), and a longer one does not fit the 8 bits of its width
(finding 5). `ImageFits` says that the file is shorter than 2^64 bytes, or
offsets would wrap around. Integer builds need only the second.

`BuiltInv` is the invariant, made of what is proved of the builder and the writer
and of six parts more, each about one stretch of the way from a staged row to a
decoded slot:

- `StagedInv`: when the layout starts the rows are sorted, and their keys have one
  shape, integers below a word or byte strings of one length. With
  `SortedFlagExact` it gives `RowsOrdered`: within a partition the addresses are
  strictly increasing, and partitions never decrease.
- `RangesInv`: the range of every run covers it (`Covers`): no address of the run
  has a nonzero byte outside. The writer uses the range of the run with the same
  number, so this needs `WalkInv`.
- `SlotsInv`: every slot written `Describes` the records of its run, by the range of
  that run.
- `PlacesInv`: the slots written follow each other, none is empty, and all end
  before `pos`; so no two have the same offset, and a reader that goes by the
  offset finds the right block.
- `FileInv`: the finished file is made of these, with the widths of the directory
  chosen from their largest values.
- `OpenedInv`: only a finished file is opened.

What is left is about one state (`Finished`). Each field of each slot, the gaps
of a dense directory included, fits the width chosen for it (`SlotsEncodable`,
`WidthHolds`) and the type it is stored in (`SlotFits`: a remap table of an
interned build has fewer than 2^32 entries because `EndDictionaries` throws
otherwise, and a place or a count is a word because the file is shorter than one),
so `EntryReadBack` gives the entry back. Trimming keeps the order: for integers
because nothing is lost by the division (`StoredExactly`, `StoredOrder`, from
`HighZeros` and `LowZeros` on the digits of a number), for byte strings because the
first difference of two addresses lies in the window (`WindowOrder`). Slots are
in the order of their partitions because a run starts where the partition changes
(`SlotsRise`).

### The round trip

`RoundTripProofs` proves what the library is for:

- `RecordsRoundTrip`:
  `OneAtATime /\ TextFieldsFit => (BuildSpec => [](LongAddresses /\ ImageFits => RoundTrip))`.
  Every record a client committed is in the image it opens, once, under the key
  it gave, and every field it set reads back as it was set; and the image has
  no other record. That is for every schema with at most 65536 text fields,
  every order of the records, every choice of layout and every set of texts and
  values.

`TextFieldsFit` is a limit the library does not enforce: `choose_layout` casts
the index of a field's dictionary to 16 bits (`builder.hpp:653`), as the field
of `field_desc` is (`schema.hpp:107`), and `schema_builder::add` takes any
number of fields. From the 65537th text field on the index wraps and the field
reads the dictionary of another. `Desc` makes the cast (`uint16`). The file
still opens: an index that wraps gets smaller (`Uint16Index`), so it is that of
a text dictionary (`DictIndexRange`), and `WrittenFilesOpen` does not need the
hypothesis.

The other hypotheses are those of `RecordsAreAsCommitted` and
`BuiltImagesAreWellFormed`. `BuilderAssumption` says, for this, that a value given
to a float, double or bytes field is no wider than the field: the setters of
the first two take a `float` and a `double`, and `set_bytes` checks the length
(`builder.hpp:1199`); a text left unset, and a field the client did not set, are
not spoken of.

`RoundTrip` is not inductive: it speaks of an opened file, and of what was
committed long before. `RecordsInv` is the invariant: `BuiltInv`, `CoverInv` and
`MeansInv` of the earlier theorems, and five parts that follow the values from a
tuple to the file:

- `RawInv`: what a tuple holds in a float, double or bytes field fits the width
  the schema declares. (An integer fits because `CoverInv` measured it, a text id
  because `MeansInv` ties it to its dictionary.)
- `ShapeInv`: from the start of `choose_layout` on, the widths, biases and offsets
  are those of the tuples there are.
- `DictsInv`: the dictionaries written so far are the texts of each field, in the
  order of the fields, and the tuples of an interned image, encoded.
- `CarriesInv`: each record of each slot refers to the tuple of its row: by its
  bytes, by its id, or by a place in the slot's remap table that holds the id.
- `ContentsInv`: the finished file has this schema and these dictionaries.

The rest is about one state (`Complete`). For the fields: what a field stores,
bias subtracted, is below the power of its width (`ValueKept`, over the wrap of
a word and over both orders, `DistanceHolds`); the fields of a tuple do not
overlap (`FieldsApart`, from `OffsetsFollow`), so the stretch of an encoded tuple
at the offset of a field is that field's digits (`FieldBytes`), and their sum
gives the value back (`DigitSum`, `FieldLoads`). For the references: a remap
table gives back the ids it was made from, because the place of an id is the
number of smaller ones (`RanksApart`, `RemapBack`). `TupleReads` and `FieldReads` put
these together. For the keys: trimming loses only zeros (`NarrowAddress`,
`WideAddress`), and where the table splits a packed key it splits it as the
builder did (`PackedKeyReads`). For the count: `RowAt` relates a place in the image
to a row. Every place has one row and every row one place (`RecordsHaveRows`,
`RowsHaveRecords`, `OneRowOfPlace`, `OnePlaceOfRow`), with gaps in a dense
directory, which have no record; so there are as many places as rows
(`PlacesCounted`), and as many as commits.

### Every file opens

`AcceptanceProofs` proves that the reader rejects nothing the writer writes:

- `WrittenFilesOpen`:
  `BuildSpec => [](AddressFits /\ ImageFits => WrittenOpens)`. Of the checks that
  `try_open` makes of a file of `finish`, none fails: for every schema, every
  sequence of calls that ends in a file, every layout and every alignment.

`AddressFits` excludes finding 5, where the file is in fact rejected, and is
nothing but that; `ImageFits` is the 2^64 of the offsets. Short byte addresses,
several open handles and client stagings are included: a record may be lost to
the client there, but the file it is lost in opens.

`WrittenOpens` speaks of an opening that has not failed, so it says nothing of how
far it is, nor of the file. `AcceptedInv` is the invariant: `BuiltInv`, `ShapeInv`,
`DictsInv` and `ContentsInv` of the theorems before, and six parts more:

- `CountInv`: the record count of the footer is the number of staged rows.
- `BlobInv`: the texts of each dictionary are together no longer than an offset of
  the dictionary can say. `intern` refuses a text that would pass the limit, so this
  is an invariant of the builder, and it makes `blob_size` exact.
- `RoomInv`: every dictionary and every block of records begins after the header,
  every dictionary ends before `pos`, and there are no more records written than
  bytes (so that a file below 2^64 bytes has a record count below it as well).
- `HeadersInv`: each dictionary written has the count, the size and the offsets its
  own `open` will recompute from its header.
- `FrameInv`: marks, sizes, schema and footer of the finished file agree with each
  other, and the dictionaries and the records all lie between header and directory.
- `AcceptInv`: before the file is written nothing is opened, and after that the
  opening is where `Progress` says. `Progress` is what a check needs of the checks
  before it: in the loop over the slots, `previous` is the partition of the last
  slot, `floor` is at or below the records of every slot to come, and `total`, which
  the code adds up in 64 bits, is the exact sum of the counts so far (`SlotsPassed`).

Given a file that is `Laid` out so, there is a lemma for each group of checks:
`FramePasses`, `SchemaPasses`, `FieldsPass`, `GeometryPasses`, `SlotPasses`,
`DictsPass`, `OffsetsPass`, `TextFieldsPass`. The ones with content are about
slots. `SlotDecodes` says that what the reader decodes is what the writer encoded,
the gaps of a dense directory included; `RecordsPass`, that the quotient by which
the reader bounds the count is large enough (`FitsQuotient`); `SlotsFollow`, that
the records of one slot end before those of the next begin; and `TotalsAddUp`,
that the counts of the slots, gaps and all, add up to the count in the footer,
because the runs divide the rows among them. `OpeningAdvances` puts them together,
one step per action of `TableOpen`: none of them rejects, and `Progress` goes on.

### From end to end

- `LibraryIsCommittedMap`:
  `OneAtATime => (LibrarySpec /\ [](LongAddresses /\ ImageFits) => IsCommittedMap)`.
  The library is an ordered map of what was committed: for every schema, every
  sequence of commits, every choice of layout, every query and every sequence of
  lookups, `find`, `lower_bound`, `upper_bound`, `floor`, `begin`, `++` and `--` on
  the opened table return what the map of the committed keys would.

This is a refinement, so the hypotheses are about the behaviour: at every state
of it, byte addresses are longer than a word and shorter than 256 bytes
(findings 2 and 5), and the file fits its offsets. `OneAtATime` is the
assumption of the round trip.

Each of the theorems before says its part, and this one says that the parts meet.
`IsOrderedMap` speaks of a well formed image and of what the image holds; it does
not say that an image which was built is one, nor that it holds the right keys.
`LibraryInv` is the invariant that joins them: `RecordsInv` and `AcceptedInv` of the
build and the opening; before the client has a table, the lookup variables are
untouched; and after, the file is the accepted one and `SearchInv` of
`TableLookupProofs` holds of the search. `AcceptedInv` is in it for `TableStays`:
once the status is `ok` the opening is over and the writer has ended, so no step
of the builder changes the image or the history under a lookup.

The rest is four facts. `BuilderCommits`: a step of the builder adds one key to the
committed ones or none, because the permutation by which `finish` sorts is onto
(`OntoItself`). `OpenedTable`: an image that was accepted is well formed
(`FinishedWellFormed`) and its contents are exactly the committed keys, each
place having a row and each row a place. `FreshTable` and `TableNext`: a client that
starts at `begin()` starts in `SearchInv`, and every step of a lookup keeps it and
is a step of `SortedMap` (the lemmas `FreshImplements` and `NextImplements` of
`TableLookupProofs`, instantiated with the opened image). `SameFound` and the lemmas
before it: the instance of `TableLookupProofs` has definitions of its own, which
are equal to those of the library one by one, and the map of the contents is the
map of the committed keys.

### Recursion and sums

The prover has no induction rule it can use on an operator. Where a proof needs
induction, it is on a set: `NatSetInduction` (a set of naturals that contains 0
and successors is all of them, by least counterexample) and `SubsetInduction` (the
same over finite subsets, by cardinality). A function defined by recursion is
shown to exist by `RecursionExists`, so that `PowerOf2`, the field offsets and
`MapThenSumSet` can be unfolded; a finite sum has its value whatever order it
is taken in (`Total`, `TotalRemove`), and `MapThenSumSet` is bridged to it by
uniqueness of the recursive solution (`PartialExists`, `TotalUnique`).

### What they rest on, and what they leave out

Assumptions used: `WordAssumption`, `LayoutAssumption`, `FormatAssumption`,
`BuilderAssumption`, `WriterAssumption`, `LookupAssumption`, `OpenAssumption`,
`LibraryAssumption`; the runs evaluate all of them. `WriterAssumption` says,
among the rest, that field ids are 0, 1, 2 and so on, as `schema_builder`
numbers them.

Every safety invariant, action property and refinement that a passing run checks
is stated by a theorem. Where one is false in general (findings 2 to 5), the
theorem has the hypothesis that excludes the finding, and the runs' instances
satisfy that hypothesis.

Liveness is beyond the prover: `BuildOpens` and `CallsReturn` are checked by TLC
only, under the fairness of section 3.

## 5. Not modelled

- `keyed_builder` and `keyed_table`: stateless, each call splits or joins a key
  with the client's functions and forwards to a call that is modelled; the
  inverse the table itself offers (`key_at`) is part of `RoundTrip`.
- `schema_builder::add` and its checks of names and widths: the schema is the
  constant `FieldKind`; a name is its length.
- The 32-bit sums of a schema. The offset of a field, the strides, the offset of
  a name, the length of the name blob and the counts of fields and dictionaries
  are natural numbers in the model; where a run or a theorem says "every schema",
  it is one whose tuple and names are shorter than 4 GiB. (A field is at most 8
  bytes wide: half a billion fields.)
- `blob_dictionary_view::find`, a scan of the texts.
- `counting_sink` and what `buffer_sink` holds; a sink is what can throw.
- The wording and counters of `build_report`, messages of exceptions, prefetch
  hints, conversions to `double`, `float` and spans.
- A client staging of a kind the library does not have, and a
  `memory_staging` built for another number of address bits.
- A text field left unset (it stores id 0) is outside `RoundTrip`.
- A file that changes while it is mapped: readers share an image nobody writes.
- Two handles open at once are in `builder_order`; their values are not claimed
  to stay apart, because the scratch is one per builder.

## 6. Plan

Done: every module of section 2, in the order `Words`, `Image`, `Layout`,
`TableBuilder`, `ImageWriter`, `SortedMap`, `TableLookup`, then `Format`,
`TableOpen`, `BuildAndOpen` and `BuildAndLookup`, because what a build commits
and what a lookup returns is what the library is for, and the file is what joins
them. Of the proofs: the builder, opening, the lookups with their refinement,
the walks, the types and the prices of the writer, the image a build leaves
behind, the round trip, that every file opens, and that the lookups on it are
those of a map of the committed keys.

Next: `schema_builder::add`, with the names and widths it rejects, in place of the
constant `FieldKind`.
