\* InitialInterval above MaxInterval: 8 then capped at 4.
CONSTANTS
    InitialInterval = 8
    MaxInterval = 4
    MaxAttempts = 3
    MaxDuration = 0
    DefaultPollInterval = 2
    DurationBits = 6

SPECIFICATION Spec

INVARIANT IntervalCapped
