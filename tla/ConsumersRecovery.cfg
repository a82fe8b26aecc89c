SPECIFICATION FairSpec
CONSTANTS
    DATA_TYPES = {a, b}
    a = a
    b = b
    MaxPublished = 3
    MaxOverruns = 0
    MaxFaults = 1
    MaxRestarts = 0
INVARIANT Inv
INVARIANT GhostTagsAreRepaired
PROPERTY RecoveryConcludes
PROPERTY EveryMessageIsDelivered
