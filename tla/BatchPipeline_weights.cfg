\* Three batches of one document, two tables and one list, a small quantum: the
\* tables and a row of barriers are lighter than 2*Quantum, as in the code.
CONSTANTS
    Workers = {w1, w2}
    Waiter = n
    Quantum = 3
    Stop = STOP_JOB
    Batches = 3
    DocTables = 2
    QueryTables = 1
    MaxPrunes = 1
    Lists = 1
    MaxRes = 1
    Docs = 1
    KindWeight <- MCKindWeight
SPECIFICATION Spec
INVARIANTS PhaseOrder
