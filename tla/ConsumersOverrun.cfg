SPECIFICATION Spec
CONSTANTS
    DATA_TYPES = {a, b}
    a = a
    b = b
    MaxPublished = 3
    MaxOverruns = 1
    MaxFaults = 0
    MaxRestarts = 1
INVARIANT SubscriptionsAreTagged
