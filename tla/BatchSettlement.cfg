SPECIFICATION FairSpec
CONSTANTS
    Last = 4
    Marker = 3
    Invalid = {}
    Rejected = {4}
    Poison = {2}
    BatchSize = 2
    Prefetch = 2
    MaxRequeues = 1
    MaxPoisonRetries = 1
    MaxFlushRetries = 2
    MarkerMaxRequeues = 1
    RecordMaxRequeues = 1
    MaxFaults = 1
    MaxDisruptions = 1
INVARIANT TypeOK
INVARIANT AckedIsWritten
INVARIANT OnlyJustifiedDeadLetters
INVARIANT SignalCoversItsRecords
INVARIANT EveryDeliveryHasOneOwner
PROPERTY EverythingSettles
CHECK_DEADLOCK FALSE
