\* Three workers, two jobs that are barriers, a light one and a heavy one.
CONSTANTS
    Workers = {w1, w2, w3}
    Waiter = n
    Light = {b1, b2, a1}
    Heavy = {h1}
    Barrier = {b1, b2}
    Job <- MCJob
    Weight <- MCWeight
    Quantum = 2
    Stop = STOP_JOB
SPECIFICATION FairSpec
INVARIANTS NoLostWakeup EachJobOnce OneStopPerWorker BarrierLast WeightsCover
PROPERTIES EveryJobRuns CallsReturn
