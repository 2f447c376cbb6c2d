------------------------- MODULE RetryExecutorProofs -------------------------
(***************************************************************************)
(* Proofs about RetryExecutor, for every value of its constants.           *)
(***************************************************************************)
EXTENDS RetryExecutor, TLAPS

ResultValues == [kind : AttemptErrKinds \cup {CtxErr, "pending"},
                 status : Statuses \cup {0}]

(***************************************************************************)
(* The inductive invariant behind TypeOK: fn() has been called once per    *)
(* loop iteration begun (attempt iterations done, plus the current one     *)
(* once it has called fn()), and the loop only sleeps when the current     *)
(* iteration is not the last, so waking up keeps attempt below the budget. *)
(***************************************************************************)
IInv ==
    /\ TypeOK
    /\ calls = attempt + (IF pc = "call" THEN 0 ELSE 1)
    /\ pc = "sleeping" => RetryEnabled /\ ~IsLastAttempt(attempt)

LEMMA DurationFacts == DurationMin \in Int /\ DurationMax \in Int
                       /\ DurationMin < 0 /\ 0 < DurationMax
BY DurationAssumption

\* Every value the backoff computation can leave in wait is a Duration.
LEMMA BackoffTyped ==
    ASSUME NEW i \in Nat, NEW d \in CappedBackoff(i), NEW w \in FullJitter(d)
    PROVE  d \in Duration /\ w \in Duration
<1>1. \A x : ToDuration(x) \subseteq Duration
    BY DurationFacts DEF ToDuration, Duration
<1>2. d \in Duration
    <2>1. CASE InitialBackoff <= 0
        BY <2>1, DurationFacts DEF CappedBackoff, Duration
    <2>2. CASE ~(InitialBackoff <= 0)
        <3>1. PICK x \in ToDuration(InitialBackoff * 2^i) : d = CapBackoff(x)
            BY <2>2 DEF CappedBackoff
        <3>2. x \in Duration
            BY <1>1, <3>1
        <3>. QED
            BY <3>1, <3>2, ConstantsAssumption, DurationFacts
            DEF CapBackoff, Duration
    <2>. QED
        BY <2>1, <2>2
<1>3. w \in Duration
    BY <1>2, DurationFacts DEF FullJitter, Duration
<1>. QED
    BY <1>2, <1>3

(***************************************************************************)
(* What HandleOutcome leaves behind: the loop state stays within the       *)
(* budget, and going back to the top of the loop or to sleep only happens  *)
(* in retry mode, from an iteration that was not the last.                 *)
(***************************************************************************)
LEMMA HandleOutcomeTyped ==
    ASSUME TypeOK, NEW o \in AttemptOutcomes, HandleOutcome(o)
    PROVE  /\ pc' \in {"call", "sleeping", "done", "panicked"}
           /\ pc' = "call" => /\ attempt' = attempt + 1
                              /\ RetryEnabled /\ ~IsLastAttempt(attempt)
           /\ pc' # "call" => attempt' = attempt
           /\ pc' = "sleeping" => RetryEnabled /\ ~IsLastAttempt(attempt)
           /\ attempt' \in 0..(Budget - 1)
           /\ lastErr' \in AttemptOutcomes
           /\ result' \in ResultValues
           /\ wait' \in Duration
<1> USE ConstantsAssumption, DurationFacts
<1>1. CASE ~RetryEnabled /\ Finish(o) /\ UNCHANGED <<attempt, lastErr, wait>>
    BY <1>1 DEF Finish, TypeOK, AttemptOutcomes, ResultValues, AttemptErrKinds
<1>2. CASE RetryEnabled /\ o.kind = NoErr /\ Finish(o)
           /\ UNCHANGED <<attempt, lastErr, wait>>
    BY <1>2 DEF Finish, TypeOK, AttemptOutcomes, ResultValues, AttemptErrKinds
<1>3. CASE RetryEnabled /\ o.kind # NoErr /\ lastErr' = o
           /\ \/ ~isRetryable(o) /\ Finish(o) /\ UNCHANGED <<attempt, wait>>
              \/ isRetryable(o) /\ IsLastAttempt(attempt) /\ Finish(lastErr')
                 /\ UNCHANGED <<attempt, wait>>
              \/ /\ isRetryable(o) /\ ~IsLastAttempt(attempt)
                 /\ \E d \in CappedBackoff(attempt) :
                      \/ /\ JitterPanics(d) /\ pc' = "panicked"
                         /\ UNCHANGED <<attempt, wait, result>>
                      \/ /\ ~JitterPanics(d)
                         /\ \E w \in FullJitter(d) :
                              \/ w > 0 /\ wait' = w /\ ~ctxDone
                                 /\ pc' = "sleeping"
                                 /\ UNCHANGED <<attempt, result>>
                              \/ w > 0 /\ wait' = w /\ ctxDone
                                 /\ Finish(CancelledResult)
                                 /\ UNCHANGED attempt
                              \/ w <= 0 /\ wait' = w /\ pc' = "call"
                                 /\ attempt' = attempt + 1
                                 /\ UNCHANGED result
    <2>1. CASE ~isRetryable(o) /\ Finish(o) /\ UNCHANGED <<attempt, wait>>
        BY <1>3, <2>1 DEF Finish, TypeOK, AttemptOutcomes, ResultValues,
                          AttemptErrKinds
    <2>2. CASE isRetryable(o) /\ IsLastAttempt(attempt) /\ Finish(lastErr')
               /\ UNCHANGED <<attempt, wait>>
        BY <1>3, <2>2 DEF Finish, TypeOK, AttemptOutcomes, ResultValues,
                          AttemptErrKinds
    <2>3. CASE isRetryable(o) /\ ~IsLastAttempt(attempt)
               /\ \E d \in CappedBackoff(attempt) :
                    \/ /\ JitterPanics(d) /\ pc' = "panicked"
                       /\ UNCHANGED <<attempt, wait, result>>
                    \/ /\ ~JitterPanics(d)
                       /\ \E w \in FullJitter(d) :
                            \/ w > 0 /\ wait' = w /\ ~ctxDone
                               /\ pc' = "sleeping"
                               /\ UNCHANGED <<attempt, result>>
                            \/ w > 0 /\ wait' = w /\ ctxDone
                               /\ Finish(CancelledResult)
                               /\ UNCHANGED attempt
                            \/ w <= 0 /\ wait' = w /\ pc' = "call"
                               /\ attempt' = attempt + 1
                               /\ UNCHANGED result
        <3>1. attempt \in Nat /\ attempt + 1 \in 0..(Budget - 1)
            BY <1>3, <2>3 DEF TypeOK, Budget, IsLastAttempt, RetryEnabled
        <3>2. PICK d \in CappedBackoff(attempt) :
                    \/ /\ JitterPanics(d) /\ pc' = "panicked"
                       /\ UNCHANGED <<attempt, wait, result>>
                    \/ /\ ~JitterPanics(d)
                       /\ \E w \in FullJitter(d) :
                            \/ w > 0 /\ wait' = w /\ ~ctxDone
                               /\ pc' = "sleeping"
                               /\ UNCHANGED <<attempt, result>>
                            \/ w > 0 /\ wait' = w /\ ctxDone
                               /\ Finish(CancelledResult)
                               /\ UNCHANGED attempt
                            \/ w <= 0 /\ wait' = w /\ pc' = "call"
                               /\ attempt' = attempt + 1
                               /\ UNCHANGED result
            BY <2>3
        <3>3. CASE JitterPanics(d) /\ pc' = "panicked"
                   /\ UNCHANGED <<attempt, wait, result>>
            BY <1>3, <2>3, <3>3 DEF TypeOK, AttemptOutcomes, ResultValues
        <3>4. CASE ~JitterPanics(d)
                   /\ \E w \in FullJitter(d) :
                        \/ w > 0 /\ wait' = w /\ ~ctxDone
                           /\ pc' = "sleeping"
                           /\ UNCHANGED <<attempt, result>>
                        \/ w > 0 /\ wait' = w /\ ctxDone
                           /\ Finish(CancelledResult)
                           /\ UNCHANGED attempt
                        \/ w <= 0 /\ wait' = w /\ pc' = "call"
                           /\ attempt' = attempt + 1
                           /\ UNCHANGED result
            <4>1. PICK w \in FullJitter(d) :
                        \/ w > 0 /\ wait' = w /\ ~ctxDone
                           /\ pc' = "sleeping"
                           /\ UNCHANGED <<attempt, result>>
                        \/ w > 0 /\ wait' = w /\ ctxDone
                           /\ Finish(CancelledResult)
                           /\ UNCHANGED attempt
                        \/ w <= 0 /\ wait' = w /\ pc' = "call"
                           /\ attempt' = attempt + 1
                           /\ UNCHANGED result
                BY <3>4
            <4>2. w \in Duration
                BY <3>1, BackoffTyped
            <4>. QED
                BY <1>3, <2>3, <3>1, <4>1, <4>2
                DEF TypeOK, AttemptOutcomes, ResultValues, Finish,
                    CancelledResult, Outcome, AttemptErrKinds
        <3>. QED
            BY <3>2, <3>3, <3>4
    <2>. QED
        BY <1>3, <2>1, <2>2, <2>3
<1>. QED
    BY <1>1, <1>2, <1>3 DEF HandleOutcome

LEMMA InitIInv == Init => IInv
<1> SUFFICES ASSUME Init PROVE IInv
    OBVIOUS
<1> USE ConstantsAssumption, DurationFacts
<1>1. attempt \in 0..(Budget - 1) /\ calls \in 0..Budget
    BY DEF Init, Budget, RetryEnabled
<1>2. lastErr \in AttemptOutcomes
    BY DEF Init, Outcome, AttemptOutcomes, AttemptErrKinds
<1>3. result \in [kind : AttemptErrKinds \cup {CtxErr, "pending"},
                  status : Statuses \cup {0}]
    BY DEF Init, NoResult, Outcome
<1>4. wait \in Duration
    BY DEF Init, Duration
<1>5. TypeOK
    BY <1>1, <1>2, <1>3, <1>4 DEF Init, TypeOK
<1>. QED
    BY <1>5 DEF Init, IInv

(***************************************************************************)
(* Every path out of the attempt function ends in HandleOutcome with the   *)
(* call counter one ahead of the loop index; the invariant is restored     *)
(* whatever the outcome and whichever branch of the loop body is taken.    *)
(***************************************************************************)
LEMMA HandleOutcomeIInv ==
    ASSUME TypeOK, NEW o \in AttemptOutcomes, HandleOutcome(o),
           calls' = attempt + 1, ctxDone' = ctxDone, conf' = conf,
           onReq' \in Nat, onResp' \in Nat, sentAfterCancel' \in Nat
    PROVE  IInv'
<1> USE ConstantsAssumption, DurationFacts
<1>1. /\ pc' \in {"call", "sleeping", "done", "panicked"}
      /\ pc' = "call" => /\ attempt' = attempt + 1
                         /\ RetryEnabled /\ ~IsLastAttempt(attempt)
      /\ pc' # "call" => attempt' = attempt
      /\ pc' = "sleeping" => RetryEnabled /\ ~IsLastAttempt(attempt)
      /\ attempt' \in 0..(Budget - 1)
      /\ lastErr' \in AttemptOutcomes
      /\ result' \in ResultValues
      /\ wait' \in Duration
    BY HandleOutcomeTyped
<1>2. attempt \in 0..(Budget - 1) /\ Budget \in Int
    BY DEF TypeOK, Budget
<1>3. calls' \in 0..Budget /\ calls' = attempt' + (IF pc' = "call" THEN 0 ELSE 1)
    <2>1. CASE pc' = "call"
        BY <1>1, <1>2, <2>1
    <2>2. CASE pc' # "call"
        BY <1>1, <1>2, <2>2
    <2>. QED
        BY <2>1, <2>2
<1>4. pc' = "sleeping" => RetryEnabled /\ ~IsLastAttempt(attempt')
    BY <1>1
<1>5. TypeOK'
    BY <1>1, <1>3 DEF TypeOK, ResultValues
<1>. QED
    BY <1>3, <1>4, <1>5 DEF IInv

LEMMA NextIInv == IInv /\ [Next]_vars => IInv'
<1> SUFFICES ASSUME IInv, [Next]_vars PROVE IInv'
    OBVIOUS
<1> USE ConstantsAssumption, DurationFacts
<1>1. CASE Dispatch
    <2>1. calls = attempt /\ attempt \in 0..(Budget - 1)
        BY <1>1 DEF Dispatch, IInv, TypeOK
    <2>2. CASE conf.buildFails /\ HandleOutcome(Outcome(BuildErr, 0))
               /\ UNCHANGED <<onReq, onResp, sentAfterCancel>>
        <3>1. Outcome(BuildErr, 0) \in AttemptOutcomes
            BY DEF Outcome, AttemptOutcomes, AttemptErrKinds, BuildErr
        <3>. QED
            BY <1>1, <2>1, <2>2, <3>1, HandleOutcomeIInv DEF Dispatch, IInv, TypeOK
    <2>3. CASE ~conf.buildFails /\ ~ctxDone
               /\ onReq' = onReq + (IF conf.onRequest THEN 1 ELSE 0)
               /\ pc' = "inflight"
               /\ UNCHANGED <<attempt, lastErr, result, wait, onResp,
                              sentAfterCancel>>
        <3>1. calls' \in 0..Budget /\ calls' = attempt' + 1
            BY <1>1, <2>1, <2>3 DEF Dispatch, Budget
        <3>. QED
            BY <1>1, <2>1, <2>3, <3>1 DEF Dispatch, IInv, TypeOK
    <2>4. CASE ~conf.buildFails /\ ctxDone
               /\ onReq' = onReq + (IF conf.onRequest THEN 1 ELSE 0)
               /\ FireOnResponse(Outcome(Transport, 0))
               /\ sentAfterCancel' = sentAfterCancel + 1
               /\ HandleOutcome(Outcome(Transport, 0))
        <3>1. Outcome(Transport, 0) \in AttemptOutcomes
            BY DEF Outcome, AttemptOutcomes, AttemptErrKinds, Transport
        <3>. QED
            BY <1>1, <2>1, <2>4, <3>1, HandleOutcomeIInv
            DEF Dispatch, IInv, TypeOK, FireOnResponse
    <2>. QED
        BY <1>1, <2>2, <2>3, <2>4 DEF Dispatch
<1>2. CASE Respond
    <2>1. PICK o \in DoRequestOutcomes(Statuses) :
                FireOnResponse(o) /\ HandleOutcome(o)
        BY <1>2 DEF Respond
    <2>2. o \in AttemptOutcomes
        BY DEF DoRequestOutcomes, Outcome, AttemptOutcomes, AttemptErrKinds
    <2>3. calls = attempt + 1
        BY <1>2 DEF Respond, IInv
    <2>. QED
        BY <1>2, <2>1, <2>2, <2>3, HandleOutcomeIInv
        DEF Respond, IInv, TypeOK, FireOnResponse
<1>3. CASE AbortInflight
    <2>1. Outcome(Transport, 0) \in AttemptOutcomes
        BY DEF Outcome, AttemptOutcomes, AttemptErrKinds, Transport
    <2>2. calls = attempt + 1
        BY <1>3 DEF AbortInflight, IInv
    <2>. QED
        BY <1>3, <2>1, <2>2, HandleOutcomeIInv
        DEF AbortInflight, IInv, TypeOK, FireOnResponse
<1>4. CASE WakeTimer
    BY <1>4 DEF WakeTimer, IInv, TypeOK, Budget, IsLastAttempt, RetryEnabled
<1>5. CASE WakeCancelled
    BY <1>5 DEF WakeCancelled, IInv, TypeOK, Finish, CancelledResult, Outcome,
                ResultValues, AttemptErrKinds
<1>6. CASE Cancel
    BY <1>6 DEF Cancel, IInv, TypeOK
<1>7. CASE Terminated \/ UNCHANGED vars
    BY <1>7 DEF Terminated, vars, IInv, TypeOK
<1>. QED
    BY <1>1, <1>2, <1>3, <1>4, <1>5, <1>6, <1>7 DEF Next

(***************************************************************************)
(* TypeCorrect: in every reachable state of doWithRetry, fn() has been     *)
(* called at most Budget times and the loop index stays below the budget, *)
(* whatever MaxAttempts, the backoff constants and the duration width.    *)
(***************************************************************************)
THEOREM TypeCorrect == Spec => []TypeOK
<1>1. IInv => TypeOK
    BY DEF IInv
<1>. QED
    BY InitIInv, NextIInv, <1>1, PTL DEF Spec

(***************************************************************************)
(* When the loop body returns an outcome, the call counter is one ahead of *)
(* the loop index; a retryable error is then returned only from the last   *)
(* index, or from a budget of one call.                                    *)
(***************************************************************************)
LEMMA HandleOutcomeExhausts ==
    ASSUME TypeOK, NEW o \in AttemptOutcomes, HandleOutcome(o),
           calls' = attempt + 1, conf' = conf
    PROVE  ExhaustedBeforeSurfacing'
<1> USE ConstantsAssumption, DurationFacts
<1>1. CASE ~RetryEnabled /\ Finish(o)
    BY <1>1 DEF TypeOK, Budget, Finish, ExhaustedBeforeSurfacing
<1>2. CASE RetryEnabled /\ o.kind = NoErr /\ Finish(o)
    BY <1>2 DEF Finish, ExhaustedBeforeSurfacing
<1>3. CASE RetryEnabled /\ o.kind # NoErr /\ lastErr' = o
           /\ ~isRetryable(o) /\ Finish(o)
    BY <1>3 DEF Finish, ExhaustedBeforeSurfacing, isRetryable
<1>4. CASE RetryEnabled /\ o.kind # NoErr /\ lastErr' = o
           /\ IsLastAttempt(attempt) /\ Finish(lastErr')
    BY <1>4 DEF Finish, ExhaustedBeforeSurfacing, IsLastAttempt, Budget
<1>5. CASE RetryEnabled /\ o.kind # NoErr /\ isRetryable(o)
           /\ ~IsLastAttempt(attempt)
           /\ \E d \in CappedBackoff(attempt) :
                \/ JitterPanics(d) /\ pc' = "panicked"
                \/ /\ ~JitterPanics(d)
                   /\ \E w \in FullJitter(d) :
                        \/ pc' = "sleeping"
                        \/ Finish(CancelledResult)
                        \/ pc' = "call"
    BY <1>5 DEF Finish, CancelledResult, Outcome, ExhaustedBeforeSurfacing
<1>. QED
    BY <1>1, <1>2, <1>3, <1>4, <1>5 DEF HandleOutcome

(***************************************************************************)
(* ExhaustedBeforeSurfacing holds after every step: an outcome reaches the *)
(* caller only through HandleOutcome, where the lemma above applies, or    *)
(* through the cancelled select; a returned call never changes again.      *)
(***************************************************************************)
LEMMA NextExhausts ==
    IInv /\ ExhaustedBeforeSurfacing /\ [Next]_vars => ExhaustedBeforeSurfacing'
<1> SUFFICES ASSUME IInv, ExhaustedBeforeSurfacing, [Next]_vars
             PROVE  ExhaustedBeforeSurfacing'
    OBVIOUS
<1>1. CASE Dispatch
    <2>1. calls' = attempt + 1 /\ conf' = conf
        BY <1>1 DEF Dispatch, IInv, TypeOK
    <2>2. Outcome(BuildErr, 0) \in AttemptOutcomes
          /\ Outcome(Transport, 0) \in AttemptOutcomes
        BY DEF Outcome, AttemptOutcomes, AttemptErrKinds, BuildErr, Transport
    <2>3. CASE HandleOutcome(Outcome(BuildErr, 0))
        BY <2>1, <2>2, <2>3, HandleOutcomeExhausts DEF IInv
    <2>4. CASE HandleOutcome(Outcome(Transport, 0))
        BY <2>1, <2>2, <2>4, HandleOutcomeExhausts DEF IInv
    <2>5. CASE pc' = "inflight"
        BY <2>5 DEF ExhaustedBeforeSurfacing
    <2>. QED
        BY <1>1, <2>3, <2>4, <2>5 DEF Dispatch
<1>2. CASE Respond
    <2>1. PICK o \in DoRequestOutcomes(Statuses) : HandleOutcome(o)
        BY <1>2 DEF Respond
    <2>2. o \in AttemptOutcomes
        BY DEF DoRequestOutcomes, Outcome, AttemptOutcomes, AttemptErrKinds
    <2>. QED
        BY <1>2, <2>1, <2>2, HandleOutcomeExhausts DEF Respond, IInv
<1>3. CASE AbortInflight
    <2>1. Outcome(Transport, 0) \in AttemptOutcomes
        BY DEF Outcome, AttemptOutcomes, AttemptErrKinds, Transport
    <2>. QED
        BY <1>3, <2>1, HandleOutcomeExhausts DEF AbortInflight, IInv
<1>4. CASE WakeTimer \/ Cancel
    BY <1>4 DEF WakeTimer, Cancel, ExhaustedBeforeSurfacing
<1>5. CASE WakeCancelled
    BY <1>5 DEF WakeCancelled, Finish, CancelledResult, Outcome,
                ExhaustedBeforeSurfacing
<1>6. CASE Terminated \/ UNCHANGED vars
    BY <1>6 DEF Terminated, vars, ExhaustedBeforeSurfacing, isRetryable, Budget,
                RetryEnabled
<1>. QED
    BY <1>1, <1>2, <1>3, <1>4, <1>5, <1>6 DEF Next

(***************************************************************************)
(* RetriesExhausted: doWithRetry hands a retryable error to its caller     *)
(* only after fn() has been called MaxAttempts times (once, when retries   *)
(* are disabled), for every policy and classifier; the run retry_core     *)
(* checks the same property on a small instance.                          *)
(***************************************************************************)
THEOREM RetriesExhausted == Spec => []ExhaustedBeforeSurfacing
<1>1. Init => ExhaustedBeforeSurfacing
    BY DEF Init, ExhaustedBeforeSurfacing
<1>. QED
    BY InitIInv, NextIInv, NextExhausts, <1>1, PTL DEF Spec

-----------------------------------------------------------------------------
(***************************************************************************)
(* Refinement of RetryAbstract.  The jitter's rand.Int64N panics only when *)
(* the capped delay is the largest Duration, so the refinement is proved   *)
(* for the policies whose backoff cannot reach it: no backoff, or a cap    *)
(* below the largest Duration.                                             *)
(***************************************************************************)
NoPanicPolicy ==
    InitialBackoff <= 0 \/ (MaxBackoff > 0 /\ MaxBackoff < DurationMax)

LEMMA NoJitterPanic ==
    ASSUME NoPanicPolicy, NEW i \in Nat, NEW d \in CappedBackoff(i)
    PROVE  ~JitterPanics(d)
<1> USE ConstantsAssumption, DurationFacts
<1>1. CASE InitialBackoff <= 0
    BY <1>1 DEF CappedBackoff, JitterPanics
<1>2. CASE InitialBackoff > 0
    <2>1. MaxBackoff > 0 /\ MaxBackoff < DurationMax
        BY <1>2 DEF NoPanicPolicy
    <2>2. PICK x \in ToDuration(InitialBackoff * 2^i) : d = CapBackoff(x)
        BY <1>2 DEF CappedBackoff
    <2>3. x \in Duration
        BY DEF ToDuration, Duration
    <2>4. d <= MaxBackoff /\ d \in Int
        BY <2>1, <2>2, <2>3 DEF CapBackoff, Duration
    <2>. QED
        BY <2>1, <2>4 DEF JitterPanics, AddOne
<1>. QED
    BY <1>1, <1>2

(***************************************************************************)
(* Whatever the rest of the loop body does with the outcome o of the call *)
(* of fn() that just returned, the step is the abstract Attempt: o is      *)
(* returned exactly when the abstraction ends the call with it, and the    *)
(* sleep, the immediate retry and the cancelled select keep or end it as   *)
(* the abstraction allows.                                                 *)
(***************************************************************************)
LEMMA HandleOutcomeRefines ==
    ASSUME TypeOK, NoPanicPolicy, NEW o \in AttemptOutcomes, HandleOutcome(o),
           pc \in {"call", "inflight"}, absAttempts = attempt,
           calls' = attempt + 1, ctxDone' = ctxDone, conf' = conf
    PROVE  Abstract!Attempt
<1> USE ConstantsAssumption, DurationFacts
<1>1. pc' \in {"call", "sleeping", "done", "panicked"}
    BY HandleOutcomeTyped
<1>2. attempt \in 0..(Budget - 1)
    BY DEF TypeOK
<1>3. o \in Abstract!Outcomes
    BY DEF AttemptOutcomes, Abstract!Outcomes, AttemptErrKinds,
           Abstract!AttemptErrKinds, NoErr, BuildErr, Transport, ReadErr,
           HTTPErr, Abstract!NoErr, Abstract!BuildErr, Abstract!Transport,
           Abstract!ReadErr, Abstract!HTTPErr
<1>4. /\ absStatus = "running"
      /\ absAttempts < Abstract!Budget
      /\ absAttempts' = absAttempts + 1
      /\ conf'.custom = conf.custom
    BY <1>1, <1>2 DEF absStatus, absAttempts, Budget, Abstract!Budget,
                     Abstract!RetryEnabled, RetryEnabled
<1>5. Abstract!Retryable(o) = isRetryable(o)
    BY DEF Abstract!Retryable, isRetryable, Abstract!defaultRetryClassifier,
           defaultRetryClassifier, Abstract!DefaultRetryableStatuses,
           DefaultRetryableStatuses
<1>6. Abstract!CancelledResult = CancelledResult
    BY DEF Abstract!CancelledResult, CancelledResult, Abstract!Outcome,
           Outcome, Abstract!CtxErr, CtxErr
<1>7. Abstract!Ends(o) <=> o.kind = NoErr \/ ~isRetryable(o) \/ attempt + 1 = Budget
    BY <1>5 DEF Abstract!Ends, Abstract!NoErr, NoErr, Abstract!Budget, Budget,
                Abstract!RetryEnabled, RetryEnabled
<1>8. SUFFICES
        \/ /\ o.kind = NoErr \/ ~isRetryable(o) \/ attempt + 1 = Budget
           /\ pc' = "done" /\ result' = o
        \/ /\ ~(o.kind = NoErr \/ ~isRetryable(o) \/ attempt + 1 = Budget)
           /\ pc' \in {"call", "sleeping"} /\ result' = result
        \/ /\ ~(o.kind = NoErr \/ ~isRetryable(o) \/ attempt + 1 = Budget)
           /\ ctxDone /\ pc' = "done" /\ result' = CancelledResult
    <2>1. absStatus' = "returned" <=> pc' = "done"
        BY <1>1 DEF absStatus
    <2>2. pc' \in {"call", "sleeping"} => absStatus' = absStatus
        BY <1>4 DEF absStatus
    <2>. QED
        BY <1>3, <1>4, <1>6, <1>7, <2>1, <2>2 DEF Abstract!Attempt
<1>9. CASE ~RetryEnabled /\ Finish(o)
    BY <1>2, <1>9 DEF Finish, Budget
<1>10. CASE RetryEnabled /\ o.kind = NoErr /\ Finish(o)
    BY <1>10 DEF Finish
<1>11. CASE RetryEnabled /\ o.kind # NoErr /\ ~isRetryable(o) /\ Finish(o)
    BY <1>11 DEF Finish
<1>12. CASE RetryEnabled /\ o.kind # NoErr /\ lastErr' = o
            /\ IsLastAttempt(attempt) /\ Finish(lastErr')
    BY <1>12 DEF Finish, IsLastAttempt, Budget
<1>13. CASE /\ RetryEnabled /\ o.kind # NoErr /\ isRetryable(o)
            /\ ~IsLastAttempt(attempt)
            /\ \E d \in CappedBackoff(attempt) :
                 \/ JitterPanics(d) /\ pc' = "panicked"
                 \/ /\ ~JitterPanics(d)
                    /\ \E w \in FullJitter(d) :
                         \/ ~ctxDone /\ pc' = "sleeping" /\ result' = result
                         \/ ctxDone /\ Finish(CancelledResult)
                         \/ pc' = "call" /\ result' = result
    <2>1. ~(o.kind = NoErr \/ ~isRetryable(o) \/ attempt + 1 = Budget)
        BY <1>2, <1>13 DEF IsLastAttempt, Budget, RetryEnabled
    <2>2. PICK d \in CappedBackoff(attempt) :
                \/ JitterPanics(d) /\ pc' = "panicked"
                \/ /\ ~JitterPanics(d)
                   /\ \E w \in FullJitter(d) :
                        \/ ~ctxDone /\ pc' = "sleeping" /\ result' = result
                        \/ ctxDone /\ Finish(CancelledResult)
                        \/ pc' = "call" /\ result' = result
        BY <1>13
    <2>3. ~JitterPanics(d)
        BY <1>2, NoJitterPanic
    <2>. QED
        BY <2>1, <2>2, <2>3 DEF Finish
<1>. QED
    BY <1>9, <1>10, <1>11, <1>12, <1>13 DEF HandleOutcome

(***************************************************************************)
(* Every step of the detailed call is a step of the abstract one or leaves *)
(* its state alone: dispatching a request and waking from a sleep are      *)
(* internal, the return of fn() is an abstract attempt, a cancelled sleep  *)
(* ends the call between attempts.                                         *)
(***************************************************************************)
LEMMA NextRefines ==
    ASSUME NoPanicPolicy, IInv, [Next]_vars
    PROVE  [Abstract!Next]_Abstract!absVars
<1> USE ConstantsAssumption, DurationFacts
<1> TypeOK
    BY DEF IInv
<1>1. CASE Dispatch
    <2>1. pc = "call" /\ absAttempts = attempt /\ calls' = attempt + 1
          /\ ctxDone' = ctxDone /\ conf' = conf
        BY <1>1 DEF Dispatch, IInv, TypeOK, absAttempts
    <2>2. Outcome(BuildErr, 0) \in AttemptOutcomes
          /\ Outcome(Transport, 0) \in AttemptOutcomes
        BY DEF Outcome, AttemptOutcomes, AttemptErrKinds, BuildErr, Transport
    <2>3. CASE HandleOutcome(Outcome(BuildErr, 0))
        BY <2>1, <2>2, <2>3, HandleOutcomeRefines DEF Abstract!Next
    <2>4. CASE HandleOutcome(Outcome(Transport, 0))
        BY <2>1, <2>2, <2>4, HandleOutcomeRefines DEF Abstract!Next
    <2>5. CASE pc' = "inflight" /\ UNCHANGED result
        BY <2>1, <2>5 DEF Abstract!absVars, absStatus, absAttempts, TypeOK
    <2>. QED
        BY <1>1, <2>3, <2>4, <2>5 DEF Dispatch
<1>2. CASE Respond
    <2>1. PICK o \in DoRequestOutcomes(Statuses) : HandleOutcome(o)
        BY <1>2 DEF Respond
    <2>2. o \in AttemptOutcomes
        BY DEF DoRequestOutcomes, Outcome, AttemptOutcomes, AttemptErrKinds
    <2>3. pc = "inflight" /\ absAttempts = attempt /\ calls' = attempt + 1
          /\ ctxDone' = ctxDone /\ conf' = conf
        BY <1>2 DEF Respond, IInv, TypeOK, absAttempts
    <2>. QED
        BY <2>1, <2>2, <2>3, HandleOutcomeRefines DEF Abstract!Next
<1>3. CASE AbortInflight
    <2>1. Outcome(Transport, 0) \in AttemptOutcomes
        BY DEF Outcome, AttemptOutcomes, AttemptErrKinds, Transport
    <2>2. pc = "inflight" /\ absAttempts = attempt /\ calls' = attempt + 1
          /\ ctxDone' = ctxDone /\ conf' = conf
        BY <1>3 DEF AbortInflight, IInv, TypeOK, absAttempts
    <2>. QED
        BY <1>3, <2>1, <2>2, HandleOutcomeRefines DEF AbortInflight, Abstract!Next
<1>4. CASE WakeTimer
    BY <1>4 DEF WakeTimer, Abstract!absVars, absStatus, absAttempts
<1>5. CASE WakeCancelled
    <2>1. RetryEnabled /\ ~IsLastAttempt(attempt) /\ calls = attempt + 1
        BY <1>5 DEF WakeCancelled, IInv
    <2>2. absAttempts \in 1..(Abstract!Budget - 1)
        BY <1>5, <2>1 DEF TypeOK, absAttempts, WakeCancelled, Budget, Abstract!Budget,
                    Abstract!RetryEnabled, RetryEnabled, IsLastAttempt
    <2>3. Abstract!CancelBetween
        BY <1>5, <2>2 DEF WakeCancelled, Abstract!CancelBetween, absStatus,
                          absAttempts, Finish, CancelledResult,
                          Abstract!CancelledResult, Outcome, Abstract!Outcome,
                          CtxErr, Abstract!CtxErr
    <2>. QED
        BY <2>3 DEF Abstract!Next
<1>6. CASE Cancel
    <2>1. Abstract!Cancel
        BY <1>6 DEF Cancel, Abstract!Cancel, absStatus, absAttempts
    <2>. QED
        BY <2>1 DEF Abstract!Next
<1>7. CASE Terminated \/ UNCHANGED vars
    BY <1>7 DEF Terminated, vars, Abstract!absVars, absStatus, absAttempts
<1>. QED
    BY <1>1, <1>2, <1>3, <1>4, <1>5, <1>6, <1>7 DEF Next

(***************************************************************************)
(* Refinement: for every policy whose jitter cannot panic, doWithRetry     *)
(* over doRequest implements RetryAbstract, the run retry_core checks the  *)
(* same property (RetryRefinesAbstract) on a small instance.               *)
(***************************************************************************)
THEOREM Refinement == ASSUME NoPanicPolicy PROVE Spec => RetryRefinesAbstract
<1>1. Init => Abstract!Init
    BY DEF Init, Abstract!Init, absStatus, absAttempts, NoResult, Outcome,
           Abstract!Outcome, Configs
<1>2. IInv /\ [Next]_vars => [Abstract!Next]_Abstract!absVars
    BY NextRefines
<1>. QED
    BY <1>1, <1>2, InitIInv, NextIInv, PTL DEF Spec, RetryRefinesAbstract,
       Abstract!Spec
=============================================================================
