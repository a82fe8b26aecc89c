\* Two dumps, an upgrade of STATS_VERSION, and two faults: failing calls or crashes.
SPECIFICATION Spec
CONSTANTS
    NumVersions = 2
    MaxStats = 2
    POST_IMPORT_MAINTENANCE_MAX_ATTEMPTS = 2
    MaxFaults = 2
INVARIANTS Inv StatsVersionHonest
PROPERTIES StampedMeansSwept FinalWhenQuiet
CHECK_DEADLOCK FALSE
