\* Builds of all three key worlds, opened and searched.
SPECIFICATION LibrarySpec
CONSTANTS
    ByteBase = 4
    WordBytes = 3
    Weight <- Powers4
    NaturalWidths = {1, 2, 3}
    RemapEntrySize = 1
    MaxLocalWidth = 1
    DictHeaderSize = 2
    Sizes <- SmallSizes
    FieldKind <- UintOnly
    RawWidth <- NoRaw
    TextSize <- TextBytes
    MaxBlob = 3
    FieldValues <- NoValues
    Keys = {1, 8, 9}
    SplitKeys <- SplitFew
    WideKeys <- WideFew
    AddressSpan = 4
    InputOrders = {"sort_if_needed"}
    DedupSample = 9
    GiveUpRatio <- Half
    ClientStagings = {}
    h1 = h1
    h2 = h2
    Handles = {h1}
    MaxRecords = 3
    LayoutOptions <- LookupOptions
    SinkFailures = FALSE
    Queries <- FewQueries
    Ops = {"find", "lower_bound", "upper_bound", "floor", "begin", "next", "prev"}
CHECK_DEADLOCK FALSE
PROPERTIES
    IsCommittedMap
