SPECIFICATION Spec
CONSTANTS
    Tokens = {1, 2, 3}
    Weight <- LightWeight
    Qids = {1, 2, 3}
    Queries <- ShortQueries
    Docs <- SmallDocs
\* the client may stop; the ids are bounded
CHECK_DEADLOCK FALSE
INVARIANTS TypeOK ResultsExact GroupsSorted CellsKept OneCellPerQuery
