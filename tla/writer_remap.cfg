\* Keyed builds with enough repetition for remap tables to pay, opened again.
SPECIFICATION BuildSpec
CONSTANTS
    ByteBase = 2
    WordBytes = 7
    Weight <- Powers2
    NaturalWidths = {1, 4, 7}
    RemapEntrySize = 4
    MaxLocalWidth = 1
    DictHeaderSize = 2
    Sizes <- SmallSizes
    FieldKind <- UintOnly
    RawWidth <- NoRaw
    TextSize <- TextBytes
    MaxBlob = 15
    FieldValues <- UintValues
    Keys = {1, 8, 9, 10, 11}
    SplitKeys <- NoKeys
    WideKeys <- NoKeys
    AddressSpan = 8
    InputOrders = {"assume_sorted"}
    DedupSample = 4
    GiveUpRatio <- Half
    ClientStagings = {}
    h1 = h1
    h2 = h2
    Handles = {h1}
    MaxRecords = 5
    LayoutOptions <- RemapOptions
    SinkFailures = FALSE
CHECK_DEADLOCK FALSE
INVARIANTS
    StagedAsCommitted
    DedupExact
    WriterTypeOK
    RoundTrip
    PricedAsWritten
    WrittenOpens
