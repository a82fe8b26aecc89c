SPECIFICATION FairSpec
CONSTANTS
    NumKeys = 6
    NumRuns = 2
    PAGE_SIZE = 4
    MIN_PAGE_SIZE = 1
    MAX_FAILURES_AT_MIN_PAGE = 3
    MaxSweeps = 5
INVARIANTS Inv
PROPERTIES DoneMeansEveryKey NeverRedoesCommitted RememberedSizeHolds EverySweepEnds
CHECK_DEADLOCK FALSE
