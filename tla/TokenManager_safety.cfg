\* Three strings, three requests of two of them, three batches of two documents.
CONSTANTS
    a = a
    b = b
    c = c
    Tokens <- MCTokens
    Dist <- MCDist
    Share <- MCShare
    Requests <- MCRequests
    Dids = {1, 2}
    MaxBatches = 3
SPECIFICATION Spec
INVARIANTS TypeOK RelationsComplete WordsOfTheBatch
