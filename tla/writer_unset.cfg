\* A field left unset while others are set.
SPECIFICATION Spec
CONSTANTS
    ByteBase = 4
    WordBytes = 3
    Weight <- Powers4
    NaturalWidths = {1, 2, 3}
    RemapEntrySize = 1
    MaxLocalWidth = 1
    DictHeaderSize = 2
    Sizes <- SmallSizes
    FieldKind <- SintOnly
    RawWidth <- NoRaw
    TextSize <- TextBytes
    MaxBlob = 3
    FieldValues <- SignedValues
    Keys <- NoKeys
    SplitKeys <- NoKeys
    WideKeys <- WideLong
    AddressSpan = 4
    InputOrders = {"sort_if_needed"}
    DedupSample = 9
    GiveUpRatio <- Half
    ClientStagings = {}
    h1 = h1
    h2 = h2
    Handles = {h1}
    MaxRecords = 2
    LayoutOptions <- PlainOptions
    SinkFailures = TRUE
CHECK_DEADLOCK FALSE
INVARIANTS
    UnsetReadsZero
