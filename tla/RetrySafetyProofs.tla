--------------------------- MODULE RetrySafetyProofs --------------------------
(***************************************************************************)
(* Proofs of the safety invariants of one retried call beyond its type and *)
(* its budget: the DebugHook callbacks fire once per request               *)
(* (HooksPerAttempt); with the default classifier at most one request      *)
(* leaves after the caller's context is done (CancelHonoured); and, for a  *)
(* policy whose exponential term never overflows, every backoff lies in    *)
(* [0, min(InitialBackoff * 2^i, MaxBackoff)] (BackoffWithinCap).          *)
(***************************************************************************)
EXTENDS RetryExecutorProofs

(***************************************************************************)
(* HooksPerAttempt is not inductive by itself: a request in flight counts  *)
(* as sent but not yet returned, which only balances when the request was  *)
(* built, i.e. when buildReq does not fail.                                *)
(***************************************************************************)
HInv ==
    /\ IInv
    /\ pc = "inflight" => ~conf.buildFails
    /\ HooksPerAttempt

(***************************************************************************)
(* CancelHonoured is not inductive either: once a request has left with    *)
(* the context done, the call has returned, so no further Dispatch can     *)
(* happen.                                                                 *)
(***************************************************************************)
CInv ==
    /\ IInv
    /\ ~conf.custom => \/ sentAfterCancel = 0
                       \/ sentAfterCancel = 1 /\ pc = "done"

\* The two error outcomes fn() produces without an answer from the server.
LEMMA LocalOutcomesTyped ==
    Outcome(BuildErr, 0) \in AttemptOutcomes
    /\ Outcome(Transport, 0) \in AttemptOutcomes
BY DEF Outcome, AttemptOutcomes, AttemptErrKinds, BuildErr, Transport

\* What doRequest can return is a value of fn().
LEMMA DoRequestOutcomesTyped ==
    DoRequestOutcomes(Statuses) \subseteq AttemptOutcomes
BY DEF DoRequestOutcomes, Outcome, AttemptOutcomes, AttemptErrKinds

LEMMA InitHInv == Init => HInv
BY InitIInv DEF Init, HInv, HooksPerAttempt

LEMMA NextHInv == HInv /\ [Next]_vars => HInv'
<1> SUFFICES ASSUME HInv, [Next]_vars PROVE HInv'
    OBVIOUS
<1>0. TypeOK /\ HooksPerAttempt /\ (pc = "inflight" => ~conf.buildFails)
    BY DEF HInv, IInv
<1>1. IInv'
    BY NextIInv DEF HInv
<1>9. SUFFICES (pc' = "inflight" => ~conf'.buildFails) /\ HooksPerAttempt'
    BY <1>1 DEF HInv
<1>2. CASE Dispatch
    <2>1. CASE conf.buildFails /\ HandleOutcome(Outcome(BuildErr, 0))
               /\ UNCHANGED <<onReq, onResp, sentAfterCancel>>
        <3>1. pc' # "inflight"
            BY <1>0, <2>1, LocalOutcomesTyped, HandleOutcomeTyped
        <3>. QED
            BY <1>0, <1>2, <2>1, <3>1 DEF Dispatch, HooksPerAttempt
    <2>3. CASE ~conf.buildFails /\ ~ctxDone
               /\ onReq' = onReq + (IF conf.onRequest THEN 1 ELSE 0)
               /\ pc' = "inflight"
               /\ UNCHANGED <<attempt, lastErr, result, wait, onResp,
                              sentAfterCancel>>
        BY <1>0, <1>2, <2>3 DEF Dispatch, HooksPerAttempt, TypeOK
    <2>4. CASE ~conf.buildFails /\ ctxDone
               /\ onReq' = onReq + (IF conf.onRequest THEN 1 ELSE 0)
               /\ FireOnResponse(Outcome(Transport, 0))
               /\ sentAfterCancel' = sentAfterCancel + 1
               /\ HandleOutcome(Outcome(Transport, 0))
        <3>1. pc' # "inflight"
            BY <1>0, <2>4, LocalOutcomesTyped, HandleOutcomeTyped
        <3>. QED
            BY <1>0, <1>2, <2>4, <3>1 DEF Dispatch, HooksPerAttempt,
                                         FireOnResponse, TypeOK
    <2>. QED
        BY <1>2, <2>1, <2>3, <2>4 DEF Dispatch
<1>3. CASE Respond
    <2>1. PICK o \in DoRequestOutcomes(Statuses) :
                FireOnResponse(o) /\ HandleOutcome(o)
        BY <1>3 DEF Respond
    <2>2. pc' # "inflight"
        BY <1>0, <2>1, DoRequestOutcomesTyped, HandleOutcomeTyped
    <2>. QED
        BY <1>0, <1>3, <2>1, <2>2 DEF Respond, HooksPerAttempt,
                                     FireOnResponse, TypeOK
<1>4. CASE AbortInflight
    <2>1. pc' # "inflight"
        BY <1>0, <1>4, LocalOutcomesTyped, HandleOutcomeTyped
        DEF AbortInflight
    <2>. QED
        BY <1>0, <1>4, <2>1 DEF AbortInflight, HooksPerAttempt,
                               FireOnResponse, TypeOK
<1>5. CASE WakeTimer \/ WakeCancelled \/ Cancel
    BY <1>0, <1>5 DEF WakeTimer, WakeCancelled, Cancel, Finish,
                      HooksPerAttempt
<1>6. CASE Terminated \/ UNCHANGED vars
    BY <1>0, <1>6 DEF Terminated, vars, HooksPerAttempt
<1>. QED
    BY <1>2, <1>3, <1>4, <1>5, <1>6 DEF Next

(***************************************************************************)
(* HooksAccounted: for every configuration, OnRequest has fired exactly    *)
(* once per request doRequest built, and OnResponse once per request that  *)
(* returned, on each of doRequest's return paths (the invariant            *)
(* HooksPerAttempt that retry_core and retry_single check).                *)
(***************************************************************************)
THEOREM HooksAccounted == Spec => []HooksPerAttempt
<1>1. Init => HInv
    BY InitHInv
<1>2. HInv /\ [Next]_vars => HInv'
    BY NextHInv
<1>3. HInv => HooksPerAttempt
    BY DEF HInv
<1>. QED
    BY <1>1, <1>2, <1>3, PTL DEF Spec

(***************************************************************************)
(* A transport error is never retried by the default classifier (status 0 *)
(* is not in its list): doWithRetry returns it at once.                    *)
(***************************************************************************)
LEMMA TransportNotRetried ==
    ASSUME ~conf.custom, HandleOutcome(Outcome(Transport, 0))
    PROVE  pc' = "done"
<1>1. ~isRetryable(Outcome(Transport, 0))
    BY DEF isRetryable, defaultRetryClassifier, DefaultRetryableStatuses,
           Outcome
<1>2. Outcome(Transport, 0).kind # NoErr
    BY DEF Outcome, Transport, NoErr
<1>. QED
    BY <1>1, <1>2 DEF HandleOutcome, Finish

LEMMA InitCInv == Init => CInv
BY InitIInv DEF Init, CInv

LEMMA NextCInv == CInv /\ [Next]_vars => CInv'
<1> SUFFICES ASSUME CInv, [Next]_vars PROVE CInv'
    OBVIOUS
<1>1. IInv'
    BY NextIInv DEF CInv
<1>2. conf' = conf
    BY DEF Next, Dispatch, Respond, AbortInflight, WakeTimer, WakeCancelled,
           Cancel, Terminated, vars
<1>3. SUFFICES ASSUME ~conf.custom
               PROVE  \/ sentAfterCancel' = 0
                      \/ sentAfterCancel' = 1 /\ pc' = "done"
    BY <1>1, <1>2 DEF CInv
<1>4. pc # "done" => sentAfterCancel = 0
    BY <1>3 DEF CInv
<1>5. CASE Dispatch /\ ~conf.buildFails /\ ctxDone
    <2>1. HandleOutcome(Outcome(Transport, 0))
          /\ sentAfterCancel' = sentAfterCancel + 1
        BY <1>5 DEF Dispatch
    <2>. QED
        BY <1>3, <1>4, <1>5, <2>1, TransportNotRetried DEF Dispatch
<1>6. CASE Dispatch /\ ~(~conf.buildFails /\ ctxDone)
    BY <1>4, <1>6 DEF Dispatch
<1>7. CASE Respond \/ AbortInflight \/ WakeTimer \/ WakeCancelled \/ Cancel
    BY <1>4, <1>7 DEF Respond, AbortInflight, WakeTimer, WakeCancelled,
                      Cancel
<1>8. CASE Terminated \/ UNCHANGED vars
    BY <1>3, <1>8 DEF CInv, Terminated, vars
<1>. QED
    BY <1>5, <1>6, <1>7, <1>8 DEF Next

(***************************************************************************)
(* CancelIsFinal: for every policy and configuration with the default      *)
(* classifier, once the caller's context is done doRequest sends at most   *)
(* one more request (when a sleep's select lets the timer win), and that   *)
(* request's transport error ends the call (the invariant CancelHonoured   *)
(* that retry_core checks).                                                *)
(***************************************************************************)
THEOREM CancelIsFinal == Spec => []CancelHonoured
<1>1. Init => CInv
    BY InitCInv
<1>2. CInv /\ [Next]_vars => CInv'
    BY NextCInv
<1>3. CInv => CancelHonoured
    BY DEF CInv, CancelHonoured
<1>. QED
    BY <1>1, <1>2, <1>3, PTL DEF Spec

(***************************************************************************)
(* The policies for which RetryPolicy.backoff's float64-to-Duration        *)
(* conversion (retry.go:45) is exact at every loop index that computes a   *)
(* backoff (0..MaxAttempts-2): InitialBackoff * 2^i is a positive          *)
(* Duration.  For a positive InitialBackoff the lower bound holds anyway;  *)
(* it is stated because the provers cannot derive 2^i > 0 for a variable   *)
(* exponent.  retry_core's policy (2, 4, 8 on 6 bits) is one of them; the  *)
(* policy of retry_backoff_overflow is not.                                *)
(***************************************************************************)
NoBackoffOverflow ==
    InitialBackoff > 0 =>
        \A i \in 0..(MaxAttempts - 2) : InitialBackoff * 2^i \in 1..DurationMax

\* BackoffWithinCap is inductive together with IInv, which bounds the index.
BInv == IInv /\ BackoffWithinCap

(***************************************************************************)
(* Under NoBackoffOverflow, the capped delay for a loop index that         *)
(* computes a backoff is the ideal one, and it is not negative.            *)
(***************************************************************************)
LEMMA CappedIsIdeal ==
    ASSUME NoBackoffOverflow, NEW i \in 0..(MaxAttempts - 2),
           NEW d \in CappedBackoff(i)
    PROVE  /\ d \in Int /\ d >= 0
           /\ InitialBackoff > 0 => d > 0 /\ d = IdealBackoff(i)
<1> USE ConstantsAssumption, DurationFacts
<1>1. CASE InitialBackoff <= 0
    BY <1>1 DEF CappedBackoff
<1>2. CASE InitialBackoff > 0
    <2>1. InitialBackoff * 2^i \in 1..DurationMax
        BY <1>2 DEF NoBackoffOverflow
    <2>2. ToDuration(InitialBackoff * 2^i) = {InitialBackoff * 2^i}
        BY <2>1 DEF ToDuration, Duration
    <2>3. d = CapBackoff(InitialBackoff * 2^i)
        BY <1>2, <2>2 DEF CappedBackoff
    <2>. QED
        BY <2>1, <2>3 DEF CapBackoff, IdealBackoff
<1>. QED
    BY <1>1, <1>2

(***************************************************************************)
(* The loop body leaves a backoff in [0, IdealBackoff(attempt)] whenever   *)
(* it goes to sleep, and never a negative one.                             *)
(***************************************************************************)
LEMMA HandleOutcomeBackoff ==
    ASSUME NoBackoffOverflow, TypeOK, wait >= 0,
           NEW o \in AttemptOutcomes, HandleOutcome(o)
    PROVE  BackoffWithinCap'
<1> USE ConstantsAssumption, DurationFacts
<1>1. CASE UNCHANGED <<attempt, wait>> /\ pc' \in {"done", "panicked"}
    BY <1>1 DEF BackoffWithinCap
<1>2. CASE /\ RetryEnabled /\ ~IsLastAttempt(attempt)
           /\ \E d \in CappedBackoff(attempt) :
                \/ JitterPanics(d) /\ pc' = "panicked" /\ UNCHANGED wait
                \/ /\ ~JitterPanics(d)
                   /\ \E w \in FullJitter(d) :
                        \/ w > 0 /\ wait' = w /\ pc' = "sleeping"
                           /\ UNCHANGED attempt
                        \/ w > 0 /\ wait' = w /\ pc' = "done"
                        \/ w <= 0 /\ wait' = w /\ pc' = "call"
    <2>1. attempt \in 0..(MaxAttempts - 2)
        BY <1>2 DEF TypeOK, Budget, RetryEnabled, IsLastAttempt
    <2>2. PICK d \in CappedBackoff(attempt) :
                \/ JitterPanics(d) /\ pc' = "panicked" /\ UNCHANGED wait
                \/ /\ ~JitterPanics(d)
                   /\ \E w \in FullJitter(d) :
                        \/ w > 0 /\ wait' = w /\ pc' = "sleeping"
                           /\ UNCHANGED attempt
                        \/ w > 0 /\ wait' = w /\ pc' = "done"
                        \/ w <= 0 /\ wait' = w /\ pc' = "call"
        BY <1>2
    <2>3. d \in Int /\ d >= 0
          /\ (InitialBackoff > 0 => d > 0 /\ d = IdealBackoff(attempt))
        BY <2>1, CappedIsIdeal
    <2>5. CASE JitterPanics(d) /\ pc' = "panicked" /\ UNCHANGED wait
        BY <2>5 DEF BackoffWithinCap
    <2>6. CASE ~JitterPanics(d)
               /\ \E w \in FullJitter(d) :
                    \/ w > 0 /\ wait' = w /\ pc' = "sleeping"
                       /\ UNCHANGED attempt
                    \/ w > 0 /\ wait' = w /\ pc' = "done"
                    \/ w <= 0 /\ wait' = w /\ pc' = "call"
        <3>1. PICK w \in FullJitter(d) :
                    \/ w > 0 /\ wait' = w /\ pc' = "sleeping"
                       /\ UNCHANGED attempt
                    \/ w > 0 /\ wait' = w /\ pc' = "done"
                    \/ w <= 0 /\ wait' = w /\ pc' = "call"
            BY <2>6
        <3>2. w \in 0..d
            BY <2>3 DEF FullJitter
        <3>3. CASE InitialBackoff <= 0
            <4>1. d = 0
                BY <3>3 DEF CappedBackoff
            <4>2. w = 0
                BY <3>2, <4>1
            <4>. QED
                BY <3>1, <4>2 DEF BackoffWithinCap
        <3>4. CASE InitialBackoff > 0
            BY <2>3, <3>1, <3>2, <3>4 DEF BackoffWithinCap
        <3>. QED
            BY <3>3, <3>4
    <2>. QED
        BY <2>2, <2>5, <2>6
<1>. QED
    BY <1>1, <1>2 DEF HandleOutcome, Finish

LEMMA InitBInv == Init => BInv
BY InitIInv DEF Init, BInv, BackoffWithinCap

LEMMA NextBInv == NoBackoffOverflow /\ BInv /\ [Next]_vars => BInv'
<1> SUFFICES ASSUME NoBackoffOverflow, BInv, [Next]_vars PROVE BInv'
    OBVIOUS
<1>0. TypeOK /\ wait >= 0
    BY DEF BInv, IInv, BackoffWithinCap
<1>1. IInv'
    BY NextIInv DEF BInv
<1>2. SUFFICES BackoffWithinCap'
    BY <1>1 DEF BInv
<1>3. CASE Dispatch
    <2>1. CASE conf.buildFails /\ HandleOutcome(Outcome(BuildErr, 0))
        BY <1>0, <2>1, HandleOutcomeBackoff, LocalOutcomesTyped
    <2>2. CASE ~conf.buildFails /\ ~ctxDone /\ pc' = "inflight"
               /\ UNCHANGED wait
        BY <1>0, <2>2 DEF BackoffWithinCap
    <2>3. CASE ~conf.buildFails /\ ctxDone
               /\ HandleOutcome(Outcome(Transport, 0))
        BY <1>0, <2>3, HandleOutcomeBackoff, LocalOutcomesTyped
    <2>. QED
        BY <1>3, <2>1, <2>2, <2>3 DEF Dispatch
<1>4. CASE Respond
    <2>1. PICK o \in DoRequestOutcomes(Statuses) : HandleOutcome(o)
        BY <1>4 DEF Respond
    <2>. QED
        BY <1>0, <2>1, HandleOutcomeBackoff, DoRequestOutcomesTyped
<1>5. CASE AbortInflight
    BY <1>0, <1>5, HandleOutcomeBackoff, LocalOutcomesTyped
    DEF AbortInflight
<1>6. CASE WakeTimer \/ WakeCancelled
    BY <1>0, <1>6 DEF WakeTimer, WakeCancelled, Finish, BackoffWithinCap
<1>7. CASE Cancel \/ Terminated \/ UNCHANGED vars
    BY <1>7 DEF Cancel, Terminated, vars, BInv, BackoffWithinCap
<1>. QED
    BY <1>3, <1>4, <1>5, <1>6, <1>7 DEF Next

(***************************************************************************)
(* BackoffBounded: for every policy whose exponential term does not        *)
(* overflow at the indices the loop reaches, every backoff doWithRetry     *)
(* computes is non-negative and every sleep lies within                    *)
(* min(InitialBackoff * 2^i, MaxBackoff), the spec's bound (the invariant  *)
(* BackoffWithinCap that retry_core checks; retry_backoff_overflow shows   *)
(* it failing for a policy outside the hypothesis).                        *)
(***************************************************************************)
THEOREM BackoffBounded ==
    ASSUME NoBackoffOverflow PROVE Spec => []BackoffWithinCap
<1>1. Init => BInv
    BY InitBInv
<1>2. BInv /\ [Next]_vars => BInv'
    BY NextBInv
<1>3. BInv => BackoffWithinCap
    BY DEF BInv
<1>. QED
    BY <1>1, <1>2, <1>3, PTL DEF Spec
=============================================================================
