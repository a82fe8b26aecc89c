\* One dump, two queues, fair scheduling; Neo4j fails once, the process or its connection is lost once.
SPECIFICATION FairSpec
CONSTANTS
    DATA_TYPES = {artists, releases}
    Versions = {v1}
    Tasks = {h1, h2}
    None = None
    MARKER_MAX_REQUEUES = 1
    MaxFaults = 1
    MaxLosses = 1
INVARIANTS
    Inv
    CompletedDumpHasOwner
PROPERTIES
    ImplementsGate
    DumpGetsItsMaintenance
CHECK_DEADLOCK FALSE
