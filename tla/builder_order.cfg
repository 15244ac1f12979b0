\* Builds of all three forms, two handles, client stagings of both kinds.
SPECIFICATION BuilderSpec
CONSTANTS
    ByteBase = 2
    WordBytes = 2
    Weight <- Powers2
    NaturalWidths = {1, 2}
    FieldKind <- UintOnly
    RawWidth <- NoRaw
    TextSize <- NoTexts
    MaxBlob = 0
    FieldValues <- NoValues
    Keys = {1, 2}
    SplitKeys <- Split
    WideKeys <- Wide3
    AddressSpan = 2
    InputOrders = {"assume_sorted", "sort_if_needed"}
    DedupSample = 2
    GiveUpRatio <- Half
    ClientStagings = {"wide", "blob"}
    h1 = h1
    h2 = h2
    Handles = {h1, h2}
    MaxRecords = 3
SYMMETRY HandleSymmetry
INVARIANTS
    TypeOK
    SortedFlagExact
    UnsortedUnreachable
    DedupExact
PROPERTIES
    FrozenAfterFinish
