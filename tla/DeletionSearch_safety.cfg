SPECIFICATION Spec
CONSTANTS
    MIN_WORD_LENGTH = 4
    MAX_WORD_LENGTH = 7
    Words <- MCWords
    Tokens <- MCTokens
    Sizes = {3}
    PerJob = 2
    MaxLength3 = 5
\* one batch and no more
CHECK_DEADLOCK FALSE
INVARIANTS OneJobPerEntry NearPairsFound MaskExact
