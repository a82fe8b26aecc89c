SPECIFICATION Spec
CONSTANTS
    none = none
    silent = silent
    nameless = nameless
    NoHash = none
    NoBlock = silent
    NoName = nameless
    Versions <- AllVersions
    Dumps <- TwoDumps
    OldHash <- Loaded
    OldEdges <- LoadedEdges
    BackfillName <- BackfillFile
    BatchSize = 2
    Prefetch = 2
    MaxReturns = 1
INVARIANT Inv
INVARIANT HashTellsTheEdges
INVARIANT OwnNameStays
INVARIANT ReferencesAreNamed
INVARIANT LatestVersionWins
PROPERTY ForeignEdgesStay
