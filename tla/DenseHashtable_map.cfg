SPECIFICATION Spec
CONSTANTS
    Keys <- MCKeys
    Ranges <- MCRanges
    Values = {v1, v2}
    EmptyKey = 0
    DeletedKey = 9
    T0 = T0
    None = None
    Hashers <- MCHashers
    KeySize = 8
    HT_MIN_BUCKETS = 4
    HT_DEFAULT_STARTING_BUCKETS = 4
    HT_OCCUPANCY_PCT = 70
    HT_EMPTY_PCT = 28
    MaxDoublings = 3
SYMMETRY Symmetry
VIEW Table
INVARIANTS TypeOK ProbesEnd
PROPERTIES ImplementsDictionary
