\* A record in the last partition of the word.
SPECIFICATION Spec
CONSTANTS
    ByteBase = 2
    WordBytes = 2
    Weight <- Powers2
    NaturalWidths = {1, 2}
    RemapEntrySize = 2
    MaxLocalWidth = 1
    DictHeaderSize = 2
    Sizes <- SmallSizes
    FieldKind <- SintOnly
    RawWidth <- NoRaw
    TextSize <- TextBytes
    MaxBlob = 3
    FieldValues <- SignedValues
    Keys <- NoKeys
    SplitKeys <- SplitLast
    WideKeys <- NoKeys
    AddressSpan = 4
    InputOrders = {"sort_if_needed"}
    DedupSample = 9
    GiveUpRatio <- Half
    ClientStagings = {}
    h1 = h1
    h2 = h2
    Handles = {h1}
    MaxRecords = 3
    LayoutOptions <- LastOptions
    SinkFailures = TRUE
CHECK_DEADLOCK FALSE
INVARIANTS
    DenseBounded
