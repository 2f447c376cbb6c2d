\* A MaxInterval above half the largest Duration (31 at 6 bits): the
\* interval runs 3, 6, 12, 20 and its doubling then wraps around.
CONSTANTS
    InitialInterval = 3
    MaxInterval = 20
    MaxAttempts = 0
    MaxDuration = 0
    DefaultPollInterval = 2
    DurationBits = 6

SPECIFICATION Spec

INVARIANT IntervalPositive
