SPECIFICATION Spec
CONSTANTS
    Queries <- MCQueries
    Batches <- MCBatches
    MaxBatches = 2
    THREADS = {t1, t2}
    MIN_WORD_LENGTH = 1
    MAX_WORD_LENGTH = 3
\* the run ends after MaxBatches
CHECK_DEADLOCK FALSE
INVARIANTS TypeOK WordsExact AnswersExact
PROPERTIES ReaderEnds
