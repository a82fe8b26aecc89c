SPECIFICATION Spec
CONSTANTS
    DATA_TYPES = {artists, labels, masters, releases}
    artists = artists
    labels = labels
    masters = masters
    releases = releases
    max_hold_s = 2
    flush_interval = 1
    backoff_max = 1
    max_write_s = 1
    WRITE_CANCEL_GRACE_S = 1
    BROKER_CONSUMER_TIMEOUT_S = 9
    max_concurrent_flushes = 2
    None = None
SYMMETRY Symmetry
INVARIANT SlotWaitBounded
INVARIANT BelowConsumerTimeout
