------------------------------- MODULE PollLoop -------------------------------
(***************************************************************************)
(* Client.WaitRunTerminal (client.go): poll a run's status until its state *)
(* is terminal, the poll attempt budget is spent, or the context (the      *)
(* caller's, narrowed by PollPolicy.MaxDuration) is done.  Each status     *)
(* fetch is one GetRunStatus call, itself a retried request (modelled in   *)
(* RetryExecutor); here it is one step that starts it and one that returns *)
(* its result.  The server's run advances on its own.                      *)
(*                                                                         *)
(* Time is abstracted: sleeps and the MaxDuration deadline are events;     *)
(* durations keep their DurationBits-bit width where they are computed.    *)
(***************************************************************************)
EXTENDS Integers

CONSTANTS
    InitialInterval,     \* PollPolicy.InitialInterval (<= 0: default)
    MaxInterval,         \* PollPolicy.MaxInterval (<= 0: the initial interval)
    MaxAttempts,         \* PollPolicy.MaxAttempts (<= 0: unbounded)
    MaxDuration,         \* PollPolicy.MaxDuration (<= 0: no deadline)
    DefaultPollInterval, \* defaultPollInterval, 2s in the program
    DurationBits         \* width of time.Duration (64 in the program)

ASSUME PollConstantsAssumption ==
    /\ InitialInterval \in Int /\ MaxInterval \in Int
    /\ MaxAttempts \in Int /\ MaxDuration \in Int
    /\ DurationBits \in Nat \ {0, 1}
    /\ DefaultPollInterval \in Nat \ {0}

DurationMin == -(2^(DurationBits - 1))
DurationMax == 2^(DurationBits - 1) - 1
Duration == DurationMin..DurationMax
DurationSpan == 2^DurationBits

\* The range facts the proofs use, and the policy's durations are Durations.
ASSUME PollDurationAssumption ==
    /\ DurationMax \in Nat \ {0} /\ DurationMin = -DurationMax - 1
    /\ DurationSpan = DurationMax - DurationMin + 1
    /\ InitialInterval \in Duration /\ MaxInterval \in Duration
    /\ DefaultPollInterval \in Duration

\* A Duration result wraps around like Go's int64 arithmetic.
Wrap(x) == ((x - DurationMin) % DurationSpan) + DurationMin

(***************************************************************************)
(* Run states as the server sends them: a word, possibly in upper case     *)
(* and surrounded by white space.  isTerminalState compares                *)
(* strings.ToLower(strings.TrimSpace(state)), which is the word.           *)
(***************************************************************************)
Words == {"queued", "running", "succeeded", "failed", "cancelled"}
TerminalWords == {"succeeded", "failed", "cancelled"}
StateText == [word : Words, upper : BOOLEAN, padded : BOOLEAN]

\* A plausible fault of Normalize: the raw string compared.
NormalizeRaw(s) == IF s.upper \/ s.padded THEN "unrecognized" ELSE s.word

Normalize(s) == s.word
isTerminalState(s) == Normalize(s) \in TerminalWords

\* The lifecycle of a run on the server: it only moves forward.
RunSteps == {<<"queued", "running">>} \cup
            ({"queued", "running"} \X TerminalWords)

VARIABLES
    pc,          \* "start" | "call" | "fetching" | "sleeping" | "done"
    interval,    \* the loop's interval variable
    attempt,     \* the loop index
    sleepFor,    \* the last pollJitter(interval)
    lastSeen,    \* the state of the last status fetched
    result,      \* what WaitRunTerminal returned
    callerCancelled, \* the caller's context is cancelled
    deadlineFired,   \* the MaxDuration timeout has elapsed
    runState,    \* the run's state on the server (a word)
    blankRunID   \* the runID argument is blank

vars == <<pc, interval, attempt, sleepFor, lastSeen, result, callerCancelled,
          deadlineFired, runState, blankRunID>>

(***************************************************************************)
(* Plausible faults of the code, each a mutated form of the definition it  *)
(* names; no action of the specification uses them.                       *)
(***************************************************************************)
AttemptsExhaustedEarly(i) == MaxAttempts > 0 /\ i + 2 >= MaxAttempts
AttemptsExhaustedLate(i) == MaxAttempts > 0 /\ i >= MaxAttempts
NextIntervalUncapped(i) == Wrap(2 * i)
DeadlineExpiresNever == FALSE
EffInitialIntervalUndefaulted == InitialInterval

NoState == [word |-> "none", upper |-> FALSE, padded |-> FALSE]
Results == {"pending", "invalid", "status", "fetchErr", "exhausted", "cancelled"}
Returned(kind) == [kind |-> kind, state |-> NoState]

\* The policy after the defaulting of client.go:134-139.
EffInitialInterval ==
    IF InitialInterval <= 0 THEN DefaultPollInterval ELSE InitialInterval
EffMaxInterval == IF MaxInterval <= 0 THEN EffInitialInterval ELSE MaxInterval

\* The governing context: the caller's, with the MaxDuration timeout on top.
ctxDone == callerCancelled \/ deadlineFired

\* pollJitter(d): d +- 25%, as the set of values it may return.
pollJitter(d) ==
    LET quarter == d \div 4
    IN  IF d <= 0 THEN {0}
        ELSE IF quarter <= 0 THEN {d}
        ELSE {Wrap(d - quarter + r) : r \in 0..(2 * quarter)}

\* client.go:157, the attempt budget is spent.
AttemptsExhausted(i) == MaxAttempts > 0 /\ i + 1 >= MaxAttempts

\* A plausible fault of NextInterval: the cap resets to the initial interval.
NextIntervalResetAtCap(i) ==
    IF Wrap(2 * i) > EffMaxInterval THEN EffInitialInterval ELSE Wrap(2 * i)

\* interval *= 2, then the cap.
NextInterval(i) ==
    IF Wrap(2 * i) > EffMaxInterval THEN EffMaxInterval ELSE Wrap(2 * i)

-----------------------------------------------------------------------------

Init ==
    /\ pc = "start"
    /\ interval = 0
    /\ attempt = 0
    /\ sleepFor = 0
    /\ lastSeen = NoState
    /\ result = Returned("pending")
    /\ callerCancelled = FALSE
    /\ deadlineFired = FALSE
    /\ runState \in {"queued", "running"}
    /\ blankRunID \in BOOLEAN

Finish(r) == pc' = "done" /\ result' = r

\* The argument check and policy defaulting before the loop.
Start ==
    /\ pc = "start"
    /\ \/ blankRunID /\ Finish(Returned("invalid"))
          /\ UNCHANGED interval
       \/ ~blankRunID /\ pc' = "call" /\ interval' = EffInitialInterval
          /\ UNCHANGED result
    /\ UNCHANGED <<attempt, sleepFor, lastSeen, callerCancelled,
                   deadlineFired, runState, blankRunID>>

\* c.GetRunStatus(ctx, runID) is called.
FetchStart ==
    /\ pc = "call"
    /\ pc' = "fetching"
    /\ UNCHANGED <<interval, attempt, sleepFor, lastSeen, result,
                   callerCancelled, deadlineFired, runState, blankRunID>>

(***************************************************************************)
(* GetRunStatus returns the run's current state, as text s.  The rest of   *)
(* the loop body up to the select: the terminal check, the attempt budget, *)
(* then the sleep, which returns at once if the context is already done.   *)
(***************************************************************************)
HandleStatus(s) ==
    /\ lastSeen' = s
    /\ \/ /\ isTerminalState(s)
          /\ Finish([kind |-> "status", state |-> s])
          /\ UNCHANGED sleepFor
       \/ /\ ~isTerminalState(s)
          /\ AttemptsExhausted(attempt)
          /\ Finish(Returned("exhausted"))
          /\ UNCHANGED sleepFor
       \/ /\ ~isTerminalState(s)
          /\ ~AttemptsExhausted(attempt)
          /\ \/ ctxDone /\ Finish(Returned("cancelled")) /\ UNCHANGED sleepFor
             \/ ~ctxDone /\ pc' = "sleeping" /\ UNCHANGED result
                /\ sleepFor' \in pollJitter(interval)

FetchStatus ==
    /\ pc = "fetching"
    /\ \E s \in {t \in StateText : t.word = runState} : HandleStatus(s)
    /\ UNCHANGED <<interval, attempt, callerCancelled, deadlineFired,
                   runState, blankRunID>>

\* GetRunStatus fails (after its own retries): the error is returned as is.
FetchFails ==
    /\ pc = "fetching"
    /\ Finish(Returned("fetchErr"))
    /\ UNCHANGED <<interval, attempt, sleepFor, lastSeen, callerCancelled,
                   deadlineFired, runState, blankRunID>>

(***************************************************************************)
(* The select of client.go:161-165.  The timer case stays possible after   *)
(* the context ends during the sleep: Go picks among ready cases.  The     *)
(* loop index is only read when MaxAttempts > 0; it is not advanced        *)
(* otherwise, which keeps the state space finite.                          *)
(***************************************************************************)
WakeTimer ==
    /\ pc = "sleeping"
    /\ pc' = "call"
    /\ interval' = NextInterval(interval)
    /\ attempt' = IF MaxAttempts > 0 THEN attempt + 1 ELSE attempt
    /\ UNCHANGED <<sleepFor, lastSeen, result, callerCancelled, deadlineFired,
                   runState, blankRunID>>

WakeCancelled ==
    /\ pc = "sleeping" /\ ctxDone
    /\ Finish(Returned("cancelled"))
    /\ UNCHANGED <<interval, attempt, sleepFor, lastSeen, callerCancelled,
                   deadlineFired, runState, blankRunID>>

\* The caller cancels its context.
CallerCancel ==
    /\ pc # "done" /\ ~callerCancelled
    /\ callerCancelled' = TRUE
    /\ UNCHANGED <<pc, interval, attempt, sleepFor, lastSeen, result,
                   deadlineFired, runState, blankRunID>>

\* The context.WithTimeout of client.go:143 expires.
DeadlineExpires ==
    /\ pc \notin {"start", "done"} /\ MaxDuration > 0 /\ ~deadlineFired
    /\ deadlineFired' = TRUE
    /\ UNCHANGED <<pc, interval, attempt, sleepFor, lastSeen, result,
                   callerCancelled, runState, blankRunID>>

\* The server advances the run.
RunAdvances ==
    /\ \E step \in RunSteps : step[1] = runState /\ runState' = step[2]
    /\ UNCHANGED <<pc, interval, attempt, sleepFor, lastSeen, result,
                   callerCancelled, deadlineFired, blankRunID>>

Terminated == pc = "done" /\ UNCHANGED vars

Next ==
    \/ Start \/ FetchStart \/ FetchStatus \/ FetchFails
    \/ WakeTimer \/ WakeCancelled
    \/ CallerCancel \/ DeadlineExpires \/ RunAdvances \/ Terminated

(***************************************************************************)
(* Fairness: the goroutine runs, time.After and the MaxDuration timer      *)
(* fire.  A fetch is not assumed to return unless its context is done      *)
(* (net/http aborts a request whose context ends); neither the server's    *)
(* run nor the caller's cancellation is assumed to happen.                 *)
(***************************************************************************)
Fairness ==
    /\ WF_vars(Start) /\ WF_vars(FetchStart)
    /\ WF_vars(pc = "fetching" /\ ctxDone /\ FetchFails)
    /\ WF_vars(WakeTimer \/ WakeCancelled)
    /\ WF_vars(DeadlineExpires)

Spec == Init /\ [][Next]_vars
FairSpec == Spec /\ Fairness

-----------------------------------------------------------------------------

TypeOK ==
    /\ pc \in {"start", "call", "fetching", "sleeping", "done"}
    /\ interval \in Duration
    /\ attempt \in 0..(IF MaxAttempts > 0 THEN MaxAttempts - 1 ELSE 0)
    /\ sleepFor \in Duration
    /\ lastSeen \in StateText \cup {NoState}
    /\ result \in [kind : Results, state : StateText \cup {NoState}]
    /\ callerCancelled \in BOOLEAN /\ deadlineFired \in BOOLEAN
    /\ runState \in Words
    /\ blankRunID \in BOOLEAN

(***************************************************************************)
(* StopsAtFirstTerminal: WaitRunTerminal never fetches again, nor sleeps,  *)
(* nor reports the attempt budget spent, once a fetched state is terminal  *)
(* (case-insensitively, white space trimmed); and what it returns as the   *)
(* run's status is terminal.                                               *)
(***************************************************************************)
TerminalPerSpec(s) == s.word \in TerminalWords

StopsAtFirstTerminal ==
    /\ pc \in {"call", "fetching", "sleeping"} => ~TerminalPerSpec(lastSeen)
    /\ result.kind = "exhausted" => ~TerminalPerSpec(lastSeen)
    /\ result.kind = "status" => TerminalPerSpec(result.state)

(***************************************************************************)
(* PollAttemptsBound: "max attempts exhausted" is reported after exactly   *)
(* MaxAttempts fetches (attempt + 1 of them), never fewer; TypeOK bounds   *)
(* the loop index below MaxAttempts.                                       *)
(***************************************************************************)
PollAttemptsBound ==
    result.kind = "exhausted" => attempt + 1 = MaxAttempts

(***************************************************************************)
(* IntervalCapped: the interval a sleep is drawn around never exceeds the  *)
(* (defaulted) MaxInterval (spec: "a capped duration is never exceeded    *)
(* even before jitter is applied").                                        *)
(***************************************************************************)
IntervalCapped == pc = "sleeping" => interval <= EffMaxInterval

(***************************************************************************)
(* PollTerminates: with a MaxDuration, WaitRunTerminal returns, whatever   *)
(* the server and the network do (a fetch may hang until its context      *)
(* ends, so an attempt budget alone does not bound the wait).              *)
(***************************************************************************)
PollTerminates == MaxDuration > 0 => <>(pc = "done")

(***************************************************************************)
(* IntervalPositive: every poll sleep is around a positive interval and    *)
(* lasts a positive time (spec: "backoff and poll intervals are never      *)
(* negative"); a zero or negative interval makes pollJitter return 0 and   *)
(* the loop fetch the status back to back.  Broken by a missing default    *)
(* and by the wrap-around of interval *= 2 or of the jitter's sum.         *)
(***************************************************************************)
IntervalPositive == pc = "sleeping" => interval > 0 /\ sleepFor > 0

(***************************************************************************)
(* IntervalMonotone: from one poll to the next the interval never shrinks, *)
(* unless it is set to MaxInterval (the exponential backoff of             *)
(* client.go:167-171: a wait is never shorter than the one before it,      *)
(* jitter aside).  Broken by a cap that resets the interval and by the     *)
(* wrap-around of interval *= 2.                                           *)
(***************************************************************************)
IntervalMonotone ==
    [][pc = "sleeping" /\ pc' = "call" =>
         interval' = EffMaxInterval \/ interval' >= interval]_vars
=============================================================================
