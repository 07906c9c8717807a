\* The client starts and ends queries while results are outstanding.
CONSTANTS
    Queries = {1, 2}
    MaxDocs = 3
    Spots = 2
    Freedom <- MCEarlyQuery
SPECIFICATION Spec
INVARIANTS RightResult
CHECK_DEADLOCK FALSE
