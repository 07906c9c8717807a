\* The client pushes a document after the first result of a batch.
CONSTANTS
    Queries = {1, 2}
    MaxDocs = 3
    Spots = 2
    Freedom <- MCLateMatch
SPECIFICATION Spec
INVARIANTS DeliveredOnce
CHECK_DEADLOCK FALSE
