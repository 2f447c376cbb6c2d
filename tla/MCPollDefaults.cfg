\* The zero PollPolicy but for MaxDuration: default interval 2 with no cap
\* above it, an unbounded attempt count, a deadline.
CONSTANTS
    InitialInterval = 0
    MaxInterval = 0
    MaxAttempts = 0
    MaxDuration = 10
    DefaultPollInterval = 2
    DurationBits = 6

SPECIFICATION FairSpec

INVARIANT IntervalCapped
INVARIANT IntervalPositive
PROPERTY PollTerminates
