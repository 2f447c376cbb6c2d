---------------------------- MODULE PollLoopProofs ----------------------------
(***************************************************************************)
(* Proofs about PollLoop (WaitRunTerminal) for every policy and every      *)
(* duration width: its type invariant, that it stops at the first terminal *)
(* state, and that the attempt budget is reported spent only when it is.  *)
(***************************************************************************)
EXTENDS PollLoop, TLAPS

(***************************************************************************)
(* The inductive invariant.  TypeOK alone does not bound the loop index:   *)
(* the sleep is entered only when the budget is not yet spent, so the     *)
(* index advanced on waking stays below MaxAttempts.  And nothing has     *)
(* been fetched before the loop starts.                                    *)
(***************************************************************************)
IInv ==
    /\ TypeOK
    /\ pc = "sleeping" /\ MaxAttempts > 0 => attempt + 1 < MaxAttempts
    /\ pc = "start" => lastSeen = NoState
    /\ StopsAtFirstTerminal
    /\ PollAttemptsBound

LEMMA DurationFacts ==
    /\ DurationMin \in Int /\ DurationMax \in Int
    /\ DurationMin < 0 /\ 0 < DurationMax
    /\ DurationSpan = DurationMax - DurationMin + 1
BY PollDurationAssumption

LEMMA WrapTyped == ASSUME NEW x \in Int PROVE Wrap(x) \in Duration
<1>1. DurationSpan \in Nat \ {0}
    BY DurationFacts
<1>2. (x - DurationMin) % DurationSpan \in 0..(DurationSpan - 1)
    BY <1>1, DurationFacts
<1>. QED
    BY <1>2, DurationFacts DEF Wrap, Duration

LEMMA PolicyTyped ==
    /\ EffInitialInterval \in 1..DurationMax
    /\ EffMaxInterval \in Duration
BY PollConstantsAssumption, PollDurationAssumption, DurationFacts
DEF EffInitialInterval, EffMaxInterval, Duration

LEMMA JitterTyped ==
    ASSUME NEW d \in Duration, NEW t \in pollJitter(d) PROVE t \in Duration
<1>0. d \in Int
    BY DurationFacts DEF Duration
<1>1. CASE d <= 0
    <2>1. pollJitter(d) = {0}
        BY <1>1 DEF pollJitter
    <2>. QED
        BY <2>1, DurationFacts DEF Duration
<1>2. CASE d > 0 /\ d \div 4 <= 0
    <2>1. pollJitter(d) = {d}
        BY <1>0, <1>2 DEF pollJitter
    <2>. QED
        BY <2>1
<1>3. CASE d > 0 /\ d \div 4 > 0
    <2>1. pollJitter(d) = {Wrap(d - d \div 4 + r) : r \in 0..(2 * (d \div 4))}
        BY <1>0, <1>3 DEF pollJitter
    <2>2. PICK r \in 0..(2 * (d \div 4)) : t = Wrap(d - d \div 4 + r)
        BY <2>1
    <2>3. d - d \div 4 + r \in Int
        BY <1>0
    <2>. QED
        BY <2>2, <2>3, WrapTyped
<1>. QED
    BY <1>0, <1>1, <1>2, <1>3

LEMMA NextIntervalTyped ==
    ASSUME NEW i \in Duration PROVE NextInterval(i) \in Duration
<1>1. Wrap(2 * i) \in Duration
    BY WrapTyped DEF Duration
<1>. QED
    BY <1>1, PolicyTyped DEF NextInterval

LEMMA ReturnedTyped ==
    ASSUME NEW k \in Results
    PROVE  Returned(k) \in [kind : Results, state : StateText \cup {NoState}]
BY DEF Returned

LEMMA InitIInv == Init => IInv
<1> SUFFICES ASSUME Init PROVE IInv
    OBVIOUS
<1>1. interval \in Duration /\ sleepFor \in Duration
    BY DurationFacts DEF Init, Duration
<1>2. attempt \in 0..(IF MaxAttempts > 0 THEN MaxAttempts - 1 ELSE 0)
    BY PollConstantsAssumption DEF Init
<1>3. result \in [kind : Results, state : StateText \cup {NoState}]
    BY ReturnedTyped DEF Init, Results
<1>4. lastSeen \in StateText \cup {NoState}
    BY DEF Init
<1>5. TypeOK
    BY <1>1, <1>2, <1>3, <1>4, Zenon DEF Init, TypeOK, Words
<1>. QED
    BY <1>5 DEF Init, IInv, StopsAtFirstTerminal, PollAttemptsBound,
                TerminalPerSpec, NoState, TerminalWords, Returned

(***************************************************************************)
(* Every way out of the loop: a returned result that is terminal when it   *)
(* is a status, and that says "exhausted" only after MaxAttempts           *)
(* non-terminal fetches, keeps the invariant.                              *)
(***************************************************************************)
LEMMA FinishIInv ==
    ASSUME IInv,
           NEW r \in [kind : Results, state : StateText \cup {NoState}],
           Finish(r),
           lastSeen' \in StateText \cup {NoState},
           r.kind = "exhausted" => ~TerminalPerSpec(lastSeen')
                                   /\ attempt + 1 = MaxAttempts,
           r.kind = "status" => TerminalPerSpec(r.state),
           UNCHANGED <<interval, attempt, sleepFor, callerCancelled,
                       deadlineFired, runState, blankRunID>>
    PROVE  IInv'
<1>1. TypeOK'
    BY Zenon DEF IInv, TypeOK, Finish
<1>2. StopsAtFirstTerminal' /\ PollAttemptsBound'
    BY DEF Finish, StopsAtFirstTerminal, PollAttemptsBound
<1>. QED
    BY <1>1, <1>2 DEF IInv, Finish

(***************************************************************************)
(* The loop body after a fetch: each way out either returns or sleeps with *)
(* a non-terminal state seen and budget left.                              *)
(***************************************************************************)
LEMMA HandleStatusIInv ==
    ASSUME IInv, NEW s \in StateText, HandleStatus(s), pc = "fetching",
           UNCHANGED <<interval, attempt, callerCancelled, deadlineFired,
                       runState, blankRunID>>
    PROVE  IInv'
<1>1. isTerminalState(s) <=> TerminalPerSpec(s)
    BY DEF isTerminalState, Normalize, TerminalPerSpec
<1>2. /\ attempt \in 0..(IF MaxAttempts > 0 THEN MaxAttempts - 1 ELSE 0)
      /\ interval \in Duration
      /\ MaxAttempts \in Int
    BY PollConstantsAssumption DEF IInv, TypeOK
<1>3. lastSeen' \in StateText \cup {NoState}
    BY DEF HandleStatus
<1>4. CASE isTerminalState(s) /\ Finish([kind |-> "status", state |-> s])
           /\ UNCHANGED sleepFor
    BY <1>1, <1>3, <1>4, FinishIInv DEF Results
<1>5. CASE ~isTerminalState(s) /\ AttemptsExhausted(attempt)
           /\ Finish(Returned("exhausted")) /\ UNCHANGED sleepFor
    <2>1. attempt + 1 = MaxAttempts
        BY <1>2, <1>5 DEF AttemptsExhausted
    <2>2. ~TerminalPerSpec(lastSeen')
        BY <1>1, <1>5 DEF HandleStatus
    <2>. QED
        BY <1>3, <1>5, <2>1, <2>2, ReturnedTyped, FinishIInv
        DEF Returned, Results
<1>6. CASE ~isTerminalState(s) /\ ~AttemptsExhausted(attempt) /\ ctxDone
           /\ Finish(Returned("cancelled")) /\ UNCHANGED sleepFor
    BY <1>3, <1>6, ReturnedTyped, FinishIInv DEF Returned, Results
<1>7. CASE ~isTerminalState(s) /\ ~AttemptsExhausted(attempt) /\ ~ctxDone
           /\ pc' = "sleeping" /\ UNCHANGED result
           /\ sleepFor' \in pollJitter(interval)
    <2>1. sleepFor' \in Duration
        BY <1>2, <1>7, JitterTyped
    <2>2. MaxAttempts > 0 => attempt + 1 < MaxAttempts
        BY <1>2, <1>7 DEF AttemptsExhausted
    <2>3. TypeOK'
        BY <1>3, <1>7, <2>1, Zenon DEF IInv, TypeOK
    <2>4. ~TerminalPerSpec(lastSeen')
        BY <1>1, <1>7 DEF HandleStatus
    <2>. QED
        BY <1>7, <2>2, <2>3, <2>4 DEF IInv, StopsAtFirstTerminal,
                                      PollAttemptsBound
<1>. QED
    BY <1>4, <1>5, <1>6, <1>7 DEF HandleStatus

LEMMA NextIInv == IInv /\ [Next]_vars => IInv'
<1> SUFFICES ASSUME IInv, [Next]_vars PROVE IInv'
    OBVIOUS
<1>0. TypeOK
    BY DEF IInv
<1>1. CASE Start
    <2>1. CASE blankRunID /\ Finish(Returned("invalid")) /\ UNCHANGED interval
        <3>1. lastSeen' \in StateText \cup {NoState}
            BY <1>0, <1>1 DEF Start, TypeOK
        <3>2. Returned("invalid") \in [kind : Results, state : StateText \cup {NoState}]
            BY ReturnedTyped DEF Results
        <3>3. UNCHANGED <<interval, attempt, sleepFor, callerCancelled,
                          deadlineFired, runState, blankRunID>>
            BY <1>1, <2>1 DEF Start
        <3>. QED
            BY <2>1, <3>1, <3>2, <3>3, FinishIInv DEF Returned
    <2>2. CASE ~blankRunID /\ pc' = "call" /\ interval' = EffInitialInterval
               /\ UNCHANGED result
        <3>1. interval' \in Duration
            BY <2>2, PolicyTyped, DurationFacts DEF Duration
        <3>2. TypeOK'
            BY <1>0, <1>1, <2>2, <3>1, Zenon DEF Start, TypeOK
        <3>3. ~TerminalPerSpec(lastSeen')
            BY <1>1, <2>2 DEF Start, IInv, NoState, TerminalPerSpec,
                              TerminalWords
        <3>. QED
            BY <1>1, <2>2, <3>2, <3>3 DEF Start, IInv, StopsAtFirstTerminal,
                                         PollAttemptsBound
    <2>. QED
        BY <1>1, <2>1, <2>2 DEF Start
<1>2. CASE FetchStart
    BY <1>2 DEF FetchStart, IInv, TypeOK, StopsAtFirstTerminal,
                PollAttemptsBound
<1>3. CASE FetchStatus
    <2>1. PICK s \in {t \in StateText : t.word = runState} : HandleStatus(s)
        BY <1>3 DEF FetchStatus
    <2>. QED
        BY <1>3, <2>1, HandleStatusIInv DEF FetchStatus
<1>4. CASE FetchFails
    BY <1>0, <1>4, ReturnedTyped, FinishIInv DEF FetchFails, Returned, Results,
                                                TypeOK
<1>5. CASE WakeTimer
    <2>1. interval' \in Duration
        BY <1>0, <1>5, NextIntervalTyped DEF WakeTimer, TypeOK
    <2>2. attempt' \in 0..(IF MaxAttempts > 0 THEN MaxAttempts - 1 ELSE 0)
        BY <1>0, <1>5, PollConstantsAssumption DEF WakeTimer, IInv, TypeOK
    <2>3. TypeOK'
        BY <1>0, <1>5, <2>1, <2>2, Zenon DEF WakeTimer, TypeOK
    <2>. QED
        BY <1>5, <2>3 DEF WakeTimer, IInv, StopsAtFirstTerminal,
                          PollAttemptsBound
<1>6. CASE WakeCancelled
    BY <1>0, <1>6, ReturnedTyped, FinishIInv DEF WakeCancelled, Returned,
                                                Results, TypeOK
<1>7. CASE CallerCancel \/ DeadlineExpires \/ RunAdvances
    <2>1. runState' \in Words
        BY <1>7 DEF CallerCancel, DeadlineExpires, RunAdvances, RunSteps,
                    IInv, TypeOK, Words, TerminalWords
    <2>. QED
        BY <1>7, <2>1 DEF CallerCancel, DeadlineExpires, RunAdvances, IInv,
                          TypeOK, StopsAtFirstTerminal, PollAttemptsBound
<1>8. CASE Terminated \/ UNCHANGED vars
    BY <1>8 DEF Terminated, vars, IInv, TypeOK, StopsAtFirstTerminal,
                PollAttemptsBound
<1>. QED
    BY <1>1, <1>2, <1>3, <1>4, <1>5, <1>6, <1>7, <1>8 DEF Next

(***************************************************************************)
(* PollTypeCorrect: WaitRunTerminal's interval and sleep stay Durations    *)
(* and its loop index below a positive MaxAttempts, for every policy; the  *)
(* run poll_core checks TypeOK on a small instance.                        *)
(***************************************************************************)
THEOREM PollTypeCorrect == Spec => []TypeOK
BY InitIInv, NextIInv, PTL DEF Spec, IInv

(***************************************************************************)
(* FirstTerminalStops: WaitRunTerminal never sleeps, fetches again or      *)
(* reports the budget spent after a fetch returned a terminal state in any *)
(* spelling, and returns only terminal states (poll_core checks it too).   *)
(***************************************************************************)
THEOREM FirstTerminalStops == Spec => []StopsAtFirstTerminal
BY InitIInv, NextIInv, PTL DEF Spec, IInv

(***************************************************************************)
(* AttemptsBoundHolds: "max attempts exhausted" comes after exactly        *)
(* MaxAttempts fetches, for every positive MaxAttempts.                    *)
(***************************************************************************)
THEOREM AttemptsBoundHolds == Spec => []PollAttemptsBound
BY InitIInv, NextIInv, PTL DEF Spec, IInv

-----------------------------------------------------------------------------
(***************************************************************************)
(* The interval properties.  Both fail for some policies (the runs         *)
(* poll_interval_cap and poll_interval_wrap); they are proved for the      *)
(* policies that exclude those findings.                                   *)
(***************************************************************************)

\* A wrap-around is the identity on a value already in range.
LEMMA WrapId == ASSUME NEW x \in Duration PROVE Wrap(x) = x
<1>1. DurationSpan \in Nat \ {0} /\ x - DurationMin \in 0..(DurationSpan - 1)
    BY DurationFacts DEF Duration
<1>2. (x - DurationMin) % DurationSpan = x - DurationMin
    BY <1>1
<1>. QED
    BY <1>2, DurationFacts DEF Wrap, Duration

\* The defaulted cap is a positive Duration.
LEMMA EffMaxPositive == EffMaxInterval \in 1..DurationMax
BY PolicyTyped, PollConstantsAssumption, PollDurationAssumption
DEF EffMaxInterval, Duration

(***************************************************************************)
(* The interval the loop holds never exceeds the cap once it has been      *)
(* doubled; before that it is the initial interval.                        *)
(***************************************************************************)
CapInv == pc \in {"call", "fetching", "sleeping"} => interval <= EffMaxInterval

LEMMA NextCapInv ==
    ASSUME EffInitialInterval <= EffMaxInterval,
           IInv, CapInv, [Next]_vars
    PROVE  CapInv'
<1>0. interval \in Int /\ EffMaxInterval \in Int
    BY EffMaxPositive, DurationFacts DEF IInv, TypeOK, Duration
<1>1. CASE Start
    BY <1>1 DEF Start, Finish, CapInv
<1>2. CASE FetchStart \/ FetchStatus \/ FetchFails \/ WakeCancelled
    BY <1>2 DEF FetchStart, FetchStatus, HandleStatus, FetchFails,
                WakeCancelled, Finish, CapInv
<1>3. CASE WakeTimer
    <2>1. Wrap(2 * interval) \in Int
        BY <1>0, WrapTyped, DurationFacts DEF Duration
    <2>. QED
        BY <1>0, <1>3, <2>1 DEF WakeTimer, NextInterval, CapInv
<1>4. CASE CallerCancel \/ DeadlineExpires \/ RunAdvances \/ Terminated
           \/ UNCHANGED vars
    BY <1>4 DEF CallerCancel, DeadlineExpires, RunAdvances, Terminated, vars,
                CapInv
<1>. QED
    BY <1>1, <1>2, <1>3, <1>4 DEF Next

(***************************************************************************)
(* IntervalCapHolds: for every policy whose InitialInterval does not       *)
(* exceed its MaxInterval (after the defaulting of client.go:134-139), no  *)
(* sleep of WaitRunTerminal is drawn around an interval above the cap (the *)
(* invariant IntervalCapped of poll_core and poll_defaults).               *)
(***************************************************************************)
THEOREM IntervalCapHolds ==
    ASSUME EffInitialInterval <= EffMaxInterval
    PROVE  Spec => []IntervalCapped
<1>1. Init => IInv /\ CapInv
    BY InitIInv DEF Init, CapInv
<1>2. IInv /\ CapInv /\ [Next]_vars => (IInv /\ CapInv)'
    BY NextIInv, NextCapInv
<1>3. CapInv => IntervalCapped
    BY DEF CapInv, IntervalCapped
<1>. QED
    BY <1>1, <1>2, <1>3, PTL DEF Spec

(***************************************************************************)
(* The largest interval the loop can hold: the cap, or an initial interval *)
(* above it.  The policies whose doubling never leaves the Duration range  *)
(* (at 64 bits: a MaxInterval and InitialInterval below about 146 years).  *)
(***************************************************************************)
IntervalBound ==
    IF EffInitialInterval > EffMaxInterval THEN EffInitialInterval
    ELSE EffMaxInterval
NoIntervalWrap == 2 * IntervalBound <= DurationMax

LEMMA BoundFacts ==
    /\ IntervalBound \in Int
    /\ EffInitialInterval <= IntervalBound /\ EffMaxInterval <= IntervalBound
BY PolicyTyped, EffMaxPositive DEF IntervalBound

\* A positive interval below the bound jitters to a positive sleep.
LEMMA JitterPositive ==
    ASSUME NoIntervalWrap, NEW d \in 1..IntervalBound, NEW t \in pollJitter(d)
    PROVE  t > 0
<1>0. 2 * d <= DurationMax /\ d \in Int /\ d > 0
    BY BoundFacts, DurationFacts DEF NoIntervalWrap
<1>1. CASE d \div 4 <= 0
    <2>1. pollJitter(d) = {d}
        BY <1>0, <1>1 DEF pollJitter
    <2>. QED
        BY <2>1
<1>2. CASE d \div 4 > 0
    <2>1. pollJitter(d) = {Wrap(d - d \div 4 + r) : r \in 0..(2 * (d \div 4))}
        BY <1>0, <1>2 DEF pollJitter
    <2>2. PICK r \in 0..(2 * (d \div 4)) : t = Wrap(d - d \div 4 + r)
        BY <2>1
    <2>3. d - d \div 4 + r \in 1..DurationMax
        <3>1. d \div 4 \in 1..(d - 1) /\ r \in 0..(2 * (d \div 4))
            BY <1>0, <1>2
        <3>2. d - d \div 4 <= d - d \div 4 + r
              /\ d - d \div 4 + r <= d + d \div 4
            BY <3>1
        <3>3. 1 <= d - d \div 4 /\ d + d \div 4 <= 2 * d
            BY <1>0, <3>1
        <3>. QED
            BY <1>0, <3>2, <3>3, DurationFacts
    <2>4. d - d \div 4 + r \in Duration
        BY <2>3, DurationFacts DEF Duration
    <2>. QED
        BY <2>2, <2>3, <2>4, WrapId
<1>. QED
    BY <1>0, <1>1, <1>2

(***************************************************************************)
(* While the loop runs, its interval is positive and within the bound;     *)
(* while it sleeps, the sleep is positive.                                 *)
(***************************************************************************)
PosInv ==
    /\ pc \in {"call", "fetching", "sleeping"} => interval \in 1..IntervalBound
    /\ pc = "sleeping" => sleepFor > 0

LEMMA NextPosInv ==
    ASSUME NoIntervalWrap, IInv, PosInv, [Next]_vars
    PROVE  PosInv'
<1>0. interval \in Int /\ IntervalBound \in Int
    BY BoundFacts DEF IInv, TypeOK, Duration
<1>1. CASE Start
    BY <1>1, PolicyTyped, BoundFacts DEF Start, Finish, PosInv
<1>2. CASE FetchStart \/ FetchFails \/ WakeCancelled
    BY <1>2 DEF FetchStart, FetchFails, WakeCancelled, Finish, PosInv
<1>3. CASE FetchStatus
    <2>1. PICK s \in {t \in StateText : t.word = runState} : HandleStatus(s)
        BY <1>3 DEF FetchStatus
    <2>2. interval \in 1..IntervalBound /\ interval' = interval
        BY <1>3 DEF FetchStatus, PosInv
    <2>3. CASE pc' = "sleeping"
        <3>1. sleepFor' \in pollJitter(interval)
            BY <2>1, <2>3 DEF HandleStatus, Finish
        <3>. QED
            BY <2>2, <2>3, <3>1, JitterPositive DEF PosInv
    <2>4. CASE pc' # "sleeping"
        BY <2>1, <2>4 DEF HandleStatus, Finish, PosInv
    <2>. QED
        BY <2>3, <2>4
<1>4. CASE WakeTimer
    <2>1. interval \in 1..IntervalBound
        BY <1>4 DEF WakeTimer, PosInv
    <2>2. 2 * interval \in Duration
        BY <2>1, BoundFacts, DurationFacts DEF NoIntervalWrap, Duration
    <2>3. NextInterval(interval) =
            IF 2 * interval > EffMaxInterval THEN EffMaxInterval
            ELSE 2 * interval
        BY <2>2, WrapId DEF NextInterval
    <2>4. NextInterval(interval) \in 1..IntervalBound
        BY <2>1, <2>3, EffMaxPositive, BoundFacts
    <2>. QED
        BY <1>4, <2>4 DEF WakeTimer, PosInv
<1>5. CASE CallerCancel \/ DeadlineExpires \/ RunAdvances \/ Terminated
           \/ UNCHANGED vars
    BY <1>5 DEF CallerCancel, DeadlineExpires, RunAdvances, Terminated, vars,
                PosInv
<1>. QED
    BY <1>1, <1>2, <1>3, <1>4, <1>5 DEF Next

(***************************************************************************)
(* IntervalsStayPositive: for every policy whose doubling stays within the *)
(* Duration range, WaitRunTerminal never sleeps around a non-positive      *)
(* interval nor for a non-positive time, i.e. it never polls back to back  *)
(* (the invariant IntervalPositive of poll_defaults; poll_interval_wrap    *)
(* shows it failing for a policy outside the hypothesis).                  *)
(***************************************************************************)
THEOREM IntervalsStayPositive ==
    ASSUME NoIntervalWrap PROVE Spec => []IntervalPositive
<1>1. Init => IInv /\ PosInv
    BY InitIInv DEF Init, PosInv
<1>2. IInv /\ PosInv /\ [Next]_vars => (IInv /\ PosInv)'
    BY NextIInv, NextPosInv
<1>3. PosInv => IntervalPositive
    BY DEF PosInv, IntervalPositive
<1>. QED
    BY <1>1, <1>2, <1>3, PTL DEF Spec

(***************************************************************************)
(* One step of the loop, seen through the interval: only WakeTimer goes    *)
(* from the sleep back to the fetch, and it doubles a positive interval    *)
(* within range, then caps it.                                             *)
(***************************************************************************)
LEMMA MonotoneStep ==
    ASSUME NoIntervalWrap, PosInv, [Next]_vars
    PROVE  [pc = "sleeping" /\ pc' = "call" =>
              interval' = EffMaxInterval \/ interval' >= interval]_vars
<1>1. CASE WakeTimer
    <2>1. interval \in 1..IntervalBound
        BY <1>1 DEF WakeTimer, PosInv
    <2>2. 2 * interval \in Duration
        BY <2>1, BoundFacts, DurationFacts DEF NoIntervalWrap, Duration
    <2>3. interval' = IF 2 * interval > EffMaxInterval THEN EffMaxInterval
                      ELSE 2 * interval
        BY <1>1, <2>2, WrapId DEF WakeTimer, NextInterval
    <2>. QED
        BY <2>1, <2>3, EffMaxPositive
<1>2. CASE ~WakeTimer
    <2>1. ~(pc = "sleeping" /\ pc' = "call")
        BY <1>2 DEF Next, vars, Start, FetchStart, FetchStatus, HandleStatus,
                    FetchFails, WakeCancelled, Finish, CallerCancel,
                    DeadlineExpires, RunAdvances, Terminated
    <2>. QED
        BY <2>1
<1>. QED
    BY <1>1, <1>2

(***************************************************************************)
(* BackoffNeverShrinks: for every policy whose doubling stays within the   *)
(* Duration range, each wake of WaitRunTerminal's select leaves an         *)
(* interval no shorter than the one slept around, unless it is the cap     *)
(* (the action property IntervalMonotone of poll_core).                    *)
(***************************************************************************)
THEOREM BackoffNeverShrinks ==
    ASSUME NoIntervalWrap PROVE Spec => IntervalMonotone
<1>1. Init => IInv /\ PosInv
    BY InitIInv DEF Init, PosInv
<1>2. IInv /\ PosInv /\ [Next]_vars => (IInv /\ PosInv)'
    BY NextIInv, NextPosInv
<1>3. PosInv /\ [Next]_vars =>
        [pc = "sleeping" /\ pc' = "call" =>
           interval' = EffMaxInterval \/ interval' >= interval]_vars
    BY MonotoneStep
<1>. QED
    BY <1>1, <1>2, <1>3, PTL DEF Spec, IntervalMonotone
=============================================================================
