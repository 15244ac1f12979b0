\* Every lookup on images of integer and of byte-string addresses.
SPECIFICATION Spec
CONSTANTS
    ByteBase = 2
    WordBytes = 3
    Weight <- Powers2
    NaturalWidths = {1, 2, 3}
    RemapEntrySize = 1
    MaxLocalWidth = 1
    DictHeaderSize = 2
    Images <- AllImages
    Queries <- AllQueries
    Ops = {"find", "lower_bound", "upper_bound", "floor", "begin", "next", "prev"}
INVARIANTS
    TypeOK
    IteratorValid
PROPERTIES
    IsOrderedMap
    CallsReturn
