\* Caller-split builds in any order: trimming, dense and sparse directories, texts; opened again.
SPECIFICATION BuildSpec
CONSTANTS
    ByteBase = 3
    WordBytes = 4
    Weight <- Powers3
    NaturalWidths = {1, 2, 4}
    RemapEntrySize = 1
    MaxLocalWidth = 1
    DictHeaderSize = 2
    Sizes <- SmallSizes
    FieldKind <- TextOnly
    RawWidth <- NoRaw
    TextSize <- TextBytes
    MaxBlob = 2
    FieldValues <- TextValues
    Keys <- NoKeys
    SplitKeys <- SplitSmall
    WideKeys <- NoKeys
    AddressSpan = 4
    InputOrders = {"sort_if_needed"}
    DedupSample = 2
    GiveUpRatio <- Half
    ClientStagings = {}
    h1 = h1
    h2 = h2
    Handles = {h1}
    MaxRecords = 3
    LayoutOptions <- AllOptions
    SinkFailures = TRUE
CHECK_DEADLOCK FALSE
INVARIANTS
    StagedAsCommitted
    WalksInStep
    ImageWellFormed
    RoundTrip
    DenseBounded
    WrittenOpens
