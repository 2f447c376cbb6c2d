--------------------------- MODULE MCRetryExecutor ---------------------------
(***************************************************************************)
(* Model-checking instance of RetryExecutor.  Durations are 6-bit (the     *)
(* range -32..31); the server answers 200, 400 or 503, so every branch of  *)
(* doRequest and of the default classifier is taken.                       *)
(***************************************************************************)
EXTENDS RetryExecutor

\* A configured Classifier that also retries transport failures and any 5xx,
\* the common override of the default.
MCClassifier(statusCode, err) == statusCode = 0 \/ statusCode >= 500

MCStatuses == {200, 400, 503}
=============================================================================
