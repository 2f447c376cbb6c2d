---------------------------- MODULE RetryAbstract ----------------------------
(***************************************************************************)
(* What one call of doWithRetry promises its caller (retry.go:56-59 and    *)
(* spec section 4.1), with the mechanism left out: no backoff, no timer,   *)
(* no request in flight.  A call is a sequence of atomic attempts, each    *)
(* with some outcome, after which the call either returns that outcome,    *)
(* goes on to the next attempt, or, when the context is done, returns the  *)
(* context's error.  Between attempts a done context may end the call.     *)
(***************************************************************************)
EXTENDS Integers, ErrorClassifier

CONSTANTS MaxAttempts, Statuses, Classifier(_, _)

VARIABLES
    status,    \* "running" | "returned"
    attempts,  \* attempts made so far
    result,    \* the returned outcome (pending while running)
    ctxDone,   \* the caller's context is done
    custom     \* the policy has a Classifier

absVars == <<status, attempts, result, ctxDone, custom>>

RetryEnabled == MaxAttempts > 1
Budget == IF RetryEnabled THEN MaxAttempts ELSE 1
Outcomes == [kind : AttemptErrKinds, status : Statuses \cup {0}]

Retryable(o) ==
    IF custom THEN Classifier(o.status, o.kind)
    ELSE defaultRetryClassifier(o.status)

\* After an attempt with outcome o the call returns o: a success, an error
\* that is not retried, or the last attempt of the budget.
Ends(o) == o.kind = NoErr \/ ~Retryable(o) \/ attempts + 1 = Budget

Init ==
    /\ status = "running"
    /\ attempts = 0
    /\ result = Outcome("pending", 0)
    /\ ctxDone = FALSE
    /\ custom \in BOOLEAN

Attempt ==
    /\ status = "running" /\ attempts < Budget
    /\ attempts' = attempts + 1
    /\ \E o \in Outcomes :
          \/ Ends(o) /\ status' = "returned" /\ result' = o
          \/ ~Ends(o) /\ UNCHANGED <<status, result>>
          \/ ~Ends(o) /\ ctxDone
             /\ status' = "returned" /\ result' = CancelledResult
    /\ UNCHANGED <<ctxDone, custom>>

\* The context ends the wait between two attempts.
CancelBetween ==
    /\ status = "running" /\ ctxDone /\ attempts \in 1..(Budget - 1)
    /\ status' = "returned" /\ result' = CancelledResult
    /\ UNCHANGED <<attempts, ctxDone, custom>>

Cancel ==
    /\ status = "running" /\ ~ctxDone
    /\ ctxDone' = TRUE
    /\ UNCHANGED <<status, attempts, result, custom>>

Next == Attempt \/ CancelBetween \/ Cancel

Spec == Init /\ [][Next]_absVars
=============================================================================
