SPECIFICATION Spec
CONSTANTS
    N = 6
    MaxGroups = 6
\* results() returns
CHECK_DEADLOCK FALSE
INVARIANTS TypeOK AnswerSorted
