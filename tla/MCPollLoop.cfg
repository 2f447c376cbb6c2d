\* Intervals 3, 6, 8 (capped), four attempts, a MaxDuration deadline.
CONSTANTS
    InitialInterval = 3
    MaxInterval = 8
    MaxAttempts = 4
    MaxDuration = 10
    DefaultPollInterval = 2
    DurationBits = 6

SPECIFICATION FairSpec

INVARIANT TypeOK
INVARIANT StopsAtFirstTerminal
INVARIANT PollAttemptsBound
INVARIANT IntervalCapped
PROPERTY PollTerminates
PROPERTY IntervalMonotone
