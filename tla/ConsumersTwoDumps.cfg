SPECIFICATION FairSpec
CONSTANTS
    DATA_TYPES = {a, b}
    a = a
    b = b
    MaxPublished = 5
    MaxOverruns = 0
    MaxFaults = 0
    MaxRestarts = 0
INVARIANT NeverCancelsAnImport
PROPERTY EveryMessageIsDelivered
