\* A capped policy on 5-bit durations (-16..15), the small image of
\* InitialBackoff = 1s, MaxBackoff = 10s, MaxAttempts = 40 on 64 bits:
\* at loop index 3 the term 2 * 2^3 = 16 overflows the Duration range.
CONSTANTS
    MaxAttempts = 5
    InitialBackoff = 2
    MaxBackoff = 10
    DurationBits = 5
    Statuses <- MCStatuses
    Classifier <- MCClassifier

SPECIFICATION Spec

INVARIANT BackoffWithinCap
