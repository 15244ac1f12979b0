\* Addresses as wide as an 8-bit field has values.
SPECIFICATION BuildSpec
CONSTANTS
    ByteBase = 4
    WordBytes = 3
    Weight <- Powers4
    NaturalWidths = {1, 2, 3}
    RemapEntrySize = 1
    MaxLocalWidth = 1
    DictHeaderSize = 2
    Sizes <- TightSizes
    FieldKind <- SintAndBytes
    RawWidth <- BytesOfThree
    TextSize <- TextBytes
    MaxBlob = 3
    FieldValues <- SintAndBytesValues
    Keys = {1}
    SplitKeys <- NoKeys
    WideKeys <- WideLong
    AddressSpan = 4
    InputOrders = {"sort_if_needed"}
    DedupSample = 9
    GiveUpRatio <- Half
    ClientStagings = {}
    h1 = h1
    h2 = h2
    Handles = {h1}
    MaxRecords = 2
    LayoutOptions <- WideOptions
    SinkFailures = TRUE
CHECK_DEADLOCK FALSE
INVARIANTS
    WrittenOpens
