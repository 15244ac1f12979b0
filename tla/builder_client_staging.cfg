\* A staging installed before a span build.
SPECIFICATION BuilderSpec
CONSTANTS
    ByteBase = 2
    WordBytes = 2
    Weight <- Powers2
    NaturalWidths = {1, 2}
    FieldKind <- UintOnly
    RawWidth <- NoRaw
    TextSize <- NoTexts
    MaxBlob = 0
    FieldValues <- NoValues
    Keys = {1}
    SplitKeys <- NoKeys
    WideKeys <- Wide3
    AddressSpan = 2
    InputOrders = {"assume_sorted", "sort_if_needed"}
    DedupSample = 3
    GiveUpRatio <- Half
    ClientStagings = {"wide"}
    h1 = h1
    h2 = h2
    Handles = {h1, h2}
    MaxRecords = 3
SYMMETRY HandleSymmetry
INVARIANTS
    BlobExactlyWide
