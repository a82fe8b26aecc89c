\* Two dumps, two queues, two concurrent handlers, every failure once.
SPECIFICATION Spec
CONSTANTS
    DATA_TYPES = {artists, releases}
    Versions = {v1, v2}
    Tasks = {h1, h2}
    None = None
    MARKER_MAX_REQUEUES = 1
    MaxFaults = 2
    MaxLosses = 0
SYMMETRY Symmetry
INVARIANTS
    Inv
    AckedSignalIsDurable
    CacheNeverAheadOfNode
    SignalsStayWithTheirDump
    FailureNeverBesideStamp
PROPERTIES
    ImplementsGate
CHECK_DEADLOCK FALSE
