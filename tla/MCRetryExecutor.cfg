\* Four attempts, backoff 2, 4, 8 capped at 5: the cap, the full jitter
\* (including a zero wait) and the last-attempt break are all reached.
CONSTANTS
    MaxAttempts = 4
    InitialBackoff = 2
    MaxBackoff = 5
    DurationBits = 6
    Statuses <- MCStatuses
    Classifier <- MCClassifier

SPECIFICATION FairSpec

INVARIANT TypeOK
INVARIANT ExhaustedBeforeSurfacing
INVARIANT BackoffWithinCap
INVARIANT CancelHonoured
INVARIANT HooksPerAttempt
PROPERTY CancelledCallReturns
PROPERTY RetryRefinesAbstract
