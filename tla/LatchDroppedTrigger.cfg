\* Two dumps, nothing fails: the second dump's trigger meets the first's pass.
SPECIFICATION Spec
CONSTANTS
    DATA_TYPES = {artists, releases}
    Versions = {v1, v2}
    Tasks = {h1, h2}
    None = None
    MARKER_MAX_REQUEUES = 1
    MaxFaults = 0
    MaxLosses = 0
SYMMETRY Symmetry
INVARIANTS
    CompletedDumpHasOwner
CHECK_DEADLOCK FALSE
