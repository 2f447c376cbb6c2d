\* Uncapped backoff on 5-bit durations (-16..15): at loop index 3 the
\* exponential term 2 * 2^3 = 16 no longer fits, so the platform-dependent
\* conversion and the panicking rand.Int64N(DurationMax + 1) are reached.
CONSTANTS
    MaxAttempts = 5
    InitialBackoff = 2
    MaxBackoff = 0
    DurationBits = 5
    Statuses <- MCStatuses
    Classifier <- MCClassifier

SPECIFICATION FairSpec

INVARIANT TypeOK
INVARIANT ExhaustedBeforeSurfacing
