\* The client of test.cpp: four documents in any batches, two buffers, two queries.
\* It may stop calling, so a state without a successor is no error by itself; one
\* inside a call violates CallsReturn.
CONSTANTS
    Queries = {1, 2}
    MaxDocs = 4
    Spots = 2
    Freedom <- MCFree
SPECIFICATION FairSpec
CHECK_DEADLOCK FALSE
INVARIANTS TypeOK BuffersKept ResultsBacked
PROPERTIES ImplementsCore ChangesAreQuiet CallsReturn
