\* The zero RetryPolicy (MaxAttempts = 0): a single attempt, result returned
\* as is, no classification.
CONSTANTS
    MaxAttempts = 0
    InitialBackoff = 2
    MaxBackoff = 5
    DurationBits = 6
    Statuses <- MCStatuses
    Classifier <- MCClassifier

SPECIFICATION FairSpec

INVARIANT TypeOK
