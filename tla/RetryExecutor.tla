---------------------------- MODULE RetryExecutor ----------------------------
(***************************************************************************)
(* One call of doWithRetry (retry.go) running the attempt function that    *)
(* Client.doRequestWithRetry builds (client.go): buildReq, then doRequest  *)
(* with its DebugHook callbacks.  The caller's context can be cancelled,   *)
(* or its deadline elapse, at any moment.                                  *)
(*                                                                         *)
(* Durations are signed integers of DurationBits bits, standing for the    *)
(* 64-bit time.Duration: the conversion of the float64 exponential term to *)
(* a Duration and the "+1" of the jitter keep that width.                  *)
(***************************************************************************)
EXTENDS Integers, ErrorClassifier

CONSTANTS
    MaxAttempts,      \* RetryPolicy.MaxAttempts (a nil policy acts as <= 1)
    InitialBackoff,   \* RetryPolicy.InitialBackoff
    MaxBackoff,       \* RetryPolicy.MaxBackoff (<= 0: uncapped)
    DurationBits,     \* width of time.Duration (64 in the program)
    Statuses,         \* the status codes the server may answer with
    Classifier(_, _)  \* a configured RetryPolicy.Classifier(statusCode, err)

ASSUME ConstantsAssumption ==
    /\ MaxAttempts \in Int
    /\ DurationBits \in Nat \ {0, 1}
    /\ InitialBackoff \in Int /\ MaxBackoff \in Int
    /\ Statuses \subseteq 100..999
    /\ \A s \in Statuses \cup {0}, k \in AttemptErrKinds :
          Classifier(s, k) \in BOOLEAN

DurationMin == -(2^(DurationBits - 1))
DurationMax == 2^(DurationBits - 1) - 1
Duration == DurationMin..DurationMax

\* The arithmetic facts about the Duration range the proofs use.
ASSUME DurationAssumption ==
    DurationMax \in Nat \ {0} /\ DurationMin = -DurationMax - 1

VARIABLES
    pc,        \* "call" | "inflight" | "sleeping" | "done" | "panicked"
    attempt,   \* the loop index of doWithRetry
    calls,     \* how many times fn() has been called
    lastErr,   \* doWithRetry's lastErr
    result,    \* what doWithRetry returned
    wait,      \* the last backoff computed by policy.backoff
    ctxDone,   \* the caller's context is cancelled or past its deadline
    onReq,     \* OnRequest callbacks fired
    onResp,    \* OnResponse callbacks fired
    sentAfterCancel, \* requests dispatched with the context already done
    conf       \* the client's hook, classifier and URL configuration

vars == <<pc, attempt, calls, lastErr, result, wait, ctxDone, onReq, onResp,
          sentAfterCancel, conf>>

NoResult == Outcome("pending", 0)

(***************************************************************************)
(* Plausible faults of the code, each a mutated form of the definition it  *)
(* names; no action of the specification uses them.                       *)
(***************************************************************************)
IsLastAttemptEarly(i) == i = MaxAttempts - 2      \* IsLastAttempt, off by one
IsLastAttemptLate(i) == i = MaxAttempts           \* IsLastAttempt, off by one
RetryEnabledNotOne == MaxAttempts # 1             \* RetryEnabled, "== 1"
CapBackoffDropped(d) == d                         \* CapBackoff, cap forgotten
FireOnResponseSkipsTransport(o) ==                \* FireOnResponse, a path missed
    onResp' = onResp + (IF conf.onResponse /\ o.kind # Transport THEN 1 ELSE 0)
AbortInflightNever == FALSE                       \* AbortInflight, no context

(***************************************************************************)
(* The configuration a call runs with, fixed for the whole call:           *)
(* whether DebugHook.OnRequest / OnResponse are set, whether the policy    *)
(* has a Classifier, and whether http.NewRequestWithContext fails (a bad   *)
(* base URL; it then fails on every attempt).                              *)
(***************************************************************************)
Configs == [onRequest : BOOLEAN, onResponse : BOOLEAN,
            custom : BOOLEAN, buildFails : BOOLEAN]

\* retry.go:60, the retry machinery is bypassed.
RetryEnabled == MaxAttempts > 1

\* retry.go:77, the last iteration of the loop.
IsLastAttempt(i) == i = MaxAttempts - 1

\* RetryPolicy.isRetryable
isRetryable(o) ==
    IF conf.custom THEN Classifier(o.status, o.kind)
    ELSE defaultRetryClassifier(o.status)

(***************************************************************************)
(* RetryPolicy.backoff(i), split in two: the capped delay before jitter,   *)
(* as the set of values it may take, and the full jitter applied to it.    *)
(* float64(InitialBackoff) * 2^i is exact; its conversion to a Duration is *)
(* out of range when it exceeds DurationMax, and Go leaves the result to   *)
(* the platform: amd64 yields the most negative Duration, arm64 saturates  *)
(* to the largest.                                                         *)
(***************************************************************************)
ToDuration(x) == IF x \in Duration THEN {x} ELSE {DurationMin, DurationMax}

CapBackoff(d) == IF MaxBackoff > 0 /\ d > MaxBackoff THEN MaxBackoff ELSE d

CappedBackoff(i) ==
    IF InitialBackoff <= 0 THEN {0}
    ELSE {CapBackoff(d) : d \in ToDuration(InitialBackoff * 2^i)}

\* int64(dur) + 1 wraps around at the top of the range.
AddOne(d) == IF d = DurationMax THEN DurationMin ELSE d + 1

\* rand.Int64N(int64(dur) + 1) panics when its argument is not positive.
JitterPanics(d) == d > 0 /\ AddOne(d) <= 0

\* Full jitter: uniform in [0, dur] when dur > 0, dur itself otherwise.
FullJitter(d) == IF d > 0 THEN 0..d ELSE {d}

-----------------------------------------------------------------------------

Init ==
    /\ pc = "call"
    /\ attempt = 0
    /\ calls = 0
    /\ lastErr = Outcome(NoErr, 0)
    /\ result = NoResult
    /\ wait = 0
    /\ ctxDone = FALSE
    /\ onReq = 0
    /\ onResp = 0
    /\ sentAfterCancel = 0
    /\ conf \in Configs

Finish(r) == pc' = "done" /\ result' = r

(***************************************************************************)
(* What doWithRetry does with the value o that fn() returned: the rest of  *)
(* one loop iteration up to the sleep, or the single-shot return.  A       *)
(* select entered with the context already done returns ctx.Err() at once. *)
(***************************************************************************)
HandleOutcome(o) ==
    \/ /\ ~RetryEnabled
       /\ Finish(o)
       /\ UNCHANGED <<attempt, lastErr, wait>>
    \/ /\ RetryEnabled /\ o.kind = NoErr
       /\ Finish(o)
       /\ UNCHANGED <<attempt, lastErr, wait>>
    \/ /\ RetryEnabled /\ o.kind # NoErr
       /\ lastErr' = o
       /\ \/ /\ ~isRetryable(o)
             /\ Finish(o)
             /\ UNCHANGED <<attempt, wait>>
          \/ /\ isRetryable(o) /\ IsLastAttempt(attempt)
             /\ Finish(lastErr')
             /\ UNCHANGED <<attempt, wait>>
          \/ /\ isRetryable(o) /\ ~IsLastAttempt(attempt)
             /\ \E d \in CappedBackoff(attempt) :
                  \/ /\ JitterPanics(d) /\ pc' = "panicked"
                     /\ UNCHANGED <<attempt, wait, result>>
                  \/ /\ ~JitterPanics(d)
                     /\ \E w \in FullJitter(d) :
                          \/ w > 0 /\ wait' = w /\ ~ctxDone
                             /\ pc' = "sleeping"
                             /\ UNCHANGED <<attempt, result>>
                          \/ w > 0 /\ wait' = w /\ ctxDone
                             /\ Finish(CancelledResult)
                             /\ UNCHANGED attempt
                          \/ w <= 0 /\ wait' = w /\ pc' = "call"
                             /\ attempt' = attempt + 1
                             /\ UNCHANGED result

\* doRequest's OnResponse call, made on each of its return paths.
FireOnResponse(o) == onResp' = onResp + (IF conf.onResponse THEN 1 ELSE 0)

(***************************************************************************)
(* fn() is called.  buildReq fails: (0, nil, err) without any hook.        *)
(* Otherwise OnRequest fires and httpClient.Do is entered; with the        *)
(* context already done Do fails at once with a transport error.          *)
(***************************************************************************)
Dispatch ==
    /\ pc = "call"
    /\ calls' = calls + 1
    /\ \/ /\ conf.buildFails
          /\ HandleOutcome(Outcome(BuildErr, 0))
          /\ UNCHANGED <<onReq, onResp, sentAfterCancel>>
       \/ /\ ~conf.buildFails /\ ~ctxDone
          /\ onReq' = onReq + (IF conf.onRequest THEN 1 ELSE 0)
          /\ pc' = "inflight"
          /\ UNCHANGED <<attempt, lastErr, result, wait, onResp, sentAfterCancel>>
       \/ /\ ~conf.buildFails /\ ctxDone
          /\ onReq' = onReq + (IF conf.onRequest THEN 1 ELSE 0)
          /\ FireOnResponse(Outcome(Transport, 0))
          /\ sentAfterCancel' = sentAfterCancel + 1
          /\ HandleOutcome(Outcome(Transport, 0))
    /\ UNCHANGED <<ctxDone, conf>>

\* The server answers (or the connection fails): doRequest fires OnResponse
\* on each of its four return paths and returns.
Respond ==
    /\ pc = "inflight"
    /\ \E o \in DoRequestOutcomes(Statuses) :
          /\ FireOnResponse(o)
          /\ HandleOutcome(o)
    /\ UNCHANGED <<calls, ctxDone, onReq, sentAfterCancel, conf>>

\* The context ends while Do waits: Do returns the context's error.
AbortInflight ==
    /\ pc = "inflight" /\ ctxDone
    /\ FireOnResponse(Outcome(Transport, 0))
    /\ HandleOutcome(Outcome(Transport, 0))
    /\ UNCHANGED <<calls, ctxDone, onReq, sentAfterCancel, conf>>

(***************************************************************************)
(* The select of retry.go:83-87.  When the timer has fired and the context *)
(* is done, Go picks either case, so the timer case stays possible.        *)
(***************************************************************************)
WakeTimer ==
    /\ pc = "sleeping"
    /\ pc' = "call"
    /\ attempt' = attempt + 1
    /\ UNCHANGED <<calls, lastErr, result, wait, ctxDone, onReq, onResp,
                   sentAfterCancel, conf>>

WakeCancelled ==
    /\ pc = "sleeping" /\ ctxDone
    /\ Finish(CancelledResult)
    /\ UNCHANGED <<attempt, calls, lastErr, wait, ctxDone, onReq, onResp,
                   sentAfterCancel, conf>>

\* The caller cancels its context, or its deadline passes.
Cancel ==
    /\ ~ctxDone /\ pc \notin {"done", "panicked"}
    /\ ctxDone' = TRUE
    /\ UNCHANGED <<pc, attempt, calls, lastErr, result, wait, onReq, onResp,
                   sentAfterCancel, conf>>

\* doWithRetry has returned, or its goroutine panicked.
Terminated == pc \in {"done", "panicked"} /\ UNCHANGED vars

Next ==
    \/ Dispatch \/ Respond \/ AbortInflight
    \/ WakeTimer \/ WakeCancelled
    \/ Cancel \/ Terminated

(***************************************************************************)
(* Fairness.  The goroutine runs its own steps; time.After fires; net/http *)
(* aborts a request whose context is done.  The server is not assumed to   *)
(* answer (http.DefaultClient has no timeout) and the caller is not        *)
(* assumed to cancel.                                                      *)
(***************************************************************************)
Fairness ==
    /\ WF_vars(Dispatch)
    /\ WF_vars(AbortInflight)
    /\ WF_vars(WakeTimer \/ WakeCancelled)

Spec == Init /\ [][Next]_vars
FairSpec == Spec /\ Fairness

-----------------------------------------------------------------------------

\* The values fn() can return.
AttemptOutcomes == [kind : AttemptErrKinds, status : Statuses \cup {0}]

\* The attempt budget: MaxAttempts in retry mode, one attempt otherwise.
Budget == IF RetryEnabled THEN MaxAttempts ELSE 1

TypeOK ==
    /\ pc \in {"call", "inflight", "sleeping", "done", "panicked"}
    /\ attempt \in 0..(Budget - 1)
    /\ calls \in 0..Budget
    /\ lastErr \in AttemptOutcomes
    /\ result \in [kind : AttemptErrKinds \cup {CtxErr, "pending"},
                   status : Statuses \cup {0}]
    /\ wait \in Duration
    /\ ctxDone \in BOOLEAN
    /\ onReq \in Nat /\ onResp \in Nat /\ sentAfterCancel \in Nat
    /\ conf \in Configs

(***************************************************************************)
(* ExhaustedBeforeSurfacing: an error the classifier calls retryable       *)
(* reaches doWithRetry's caller only once fn() has been called as many     *)
(* times as the budget allows (unless the context ended the call); with    *)
(* TypeOK's calls \in 0..Budget, the budget is used exactly.               *)
(***************************************************************************)
ExhaustedBeforeSurfacing ==
    (/\ pc = "done"
     /\ result.kind \notin {NoErr, CtxErr}
     /\ isRetryable(result)) => calls = Budget

(***************************************************************************)
(* BackoffWithinCap: every backoff doWithRetry computes lies in            *)
(* [0, min(InitialBackoff * 2^i, MaxBackoff)] (spec: "for all i,           *)
(* 0 <= backoff(i) <= min(...)"); the sleep of retry.go:81 uses it.        *)
(***************************************************************************)
IdealBackoff(i) ==
    IF MaxBackoff > 0 /\ InitialBackoff * 2^i > MaxBackoff
    THEN MaxBackoff ELSE InitialBackoff * 2^i

BackoffWithinCap ==
    /\ wait >= 0
    /\ pc = "sleeping" => wait <= IdealBackoff(attempt)

(***************************************************************************)
(* CancelHonoured: with the default classifier, once the caller's context  *)
(* is done at most one more request is dispatched (the one a sleep's       *)
(* select may still start when its timer wins the race); that request      *)
(* fails with a transport error, which is not retried.                     *)
(***************************************************************************)
CancelHonoured == ~conf.custom => sentAfterCancel <= 1

(***************************************************************************)
(* HooksPerAttempt: each physical attempt (a call of doRequest) fires      *)
(* OnRequest once if it is set and, once it has returned, OnResponse once  *)
(* if it is set, whatever the outcome; buildReq failures fire nothing.     *)
(***************************************************************************)
HooksPerAttempt ==
    LET physical == IF conf.buildFails THEN 0 ELSE calls
        returned == physical - (IF pc = "inflight" THEN 1 ELSE 0)
    IN  /\ onReq = (IF conf.onRequest THEN physical ELSE 0)
        /\ onResp = (IF conf.onResponse THEN returned ELSE 0)

(***************************************************************************)
(* CancelledCallReturns: once the caller's context is done, doWithRetry    *)
(* returns (or has crashed), whether or not the server ever answers.       *)
(***************************************************************************)
CancelledCallReturns == ctxDone ~> (pc \in {"done", "panicked"})

(***************************************************************************)
(* The refinement mapping to RetryAbstract: the call is running until      *)
(* doWithRetry returns (a panic is a state the abstraction does not have), *)
(* and an attempt counts once fn() has returned, so the request in flight  *)
(* is not yet counted.                                                     *)
(***************************************************************************)
absStatus ==
    IF pc = "done" THEN "returned"
    ELSE IF pc = "panicked" THEN "panicked" ELSE "running"
absAttempts == IF pc = "inflight" THEN calls - 1 ELSE calls

Abstract == INSTANCE RetryAbstract WITH
    status <- absStatus, attempts <- absAttempts, custom <- conf.custom

(***************************************************************************)
(* RetryRefinesAbstract: every behaviour of doWithRetry over doRequest is  *)
(* one of the promised call: at most Budget attempts, the first success,  *)
(* a non-retryable error or the last error returned as it is, and the      *)
(* context's error only between attempts.                                  *)
(***************************************************************************)
RetryRefinesAbstract == Abstract!Spec
=============================================================================
