\* Files that differ from an image in one or two places.
SPECIFICATION MCSpec
CONSTANTS
    ByteBase = 3
    WordBytes = 4
    Weight <- Powers3
    NaturalWidths = {1, 2, 4}
    RemapEntrySize = 2
    MaxLocalWidth = 2
    DictHeaderSize = 2
    Sizes <- SmallSizes
    Files <- Images
CHECK_DEADLOCK FALSE
INVARIANTS
    OpenTypeOK
    ChecksReadInside
    LookupsReadInside
    BlocksDisjoint
    ValuesReadInside
