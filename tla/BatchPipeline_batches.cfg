\* Two workers, two batches of one document, two tables and one list.
CONSTANTS
    Workers = {w1, w2}
    Waiter = n
    Quantum = 4
    Stop = STOP_JOB
    Batches = 2
    DocTables = 1
    QueryTables = 1
    MaxPrunes = 1
    Lists = 1
    MaxRes = 2
    Docs = 1
    KindWeight <- MCKindWeight
SPECIFICATION FairSpec
INVARIANTS TypeOK PhaseOrder RunEndIsSafe TablesOneByOne
PROPERTIES RowsKeptApart ImplementsPhases BatchesEnd
