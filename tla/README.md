# Formal models of the jenkins-rpc Go client

This directory holds TLA+ models of the Go client in
`src/go-client/internal/rpcclient`. It contains the TLC configurations that
model-check the models on small instances and the TLAPS proofs of their main
invariants. `PROJECT.json` lists every component, run, mutant, finding and
hazard, and maps each model definition to the source lines it translates.

## The system

The client is a single library with no goroutines of its own. What it does
concurrently, it does with the caller's `context.Context`, the `net/http`
transport and Go timers.

| part | source | what it does |
|---|---|---|
| ErrorClassifier | `errors.go`, `retry.go:28-38` | `defaultRetryClassifier` retries 429/502/503/504. `HTTPError.Category` and `CategoryOf` map an error to a category. |
| RetryExecutor | `retry.go` | `doWithRetry` calls `fn` up to `MaxAttempts` times. `backoff` computes an exponential delay with a cap and full jitter. The loop sleeps in a `select` that the context can end. |
| TransportInvoker | `client.go:279-336` | `doRequestWithRetry` builds the request. `doRequest` fires `OnRequest`, calls `httpClient.Do` and reads the body. It turns a non-2xx status into an `*HTTPError` and fires `OnResponse` on each return path. |
| DebugInstrumentation | `hooks.go`, the hook calls in `doRequest` | The optional `OnRequest` / `OnResponse` callbacks. |
| PollLoop | `client.go:129-185, 210-217` | `WaitRunTerminal` polls `GetRunStatus`, with an optional `MaxDuration` timeout and an attempt budget. It sleeps `pollJitter(interval)` (±25 %) and doubles the interval up to `MaxInterval`. |
| endpoints | `client.go:67-127, 219-277, 338-362` | `Invoke`, `GetRunStatus`, `GetCatalog`, `GetBridgePending` and `CompleteBridgeRequest` each validate their arguments, encode, make one `doRequestWithRetry` call and decode. |
| configuration | `client.go:38-65` | `New` and the copy-on-configure methods `WithRetryPolicy` and `WithDebugHook`. |
| catalog filtering | `client.go:187-208` | A pure filter over the catalog's operations. |
| facade | `jenkinsrpc.go` | Type aliases and forwarding functions. |

How the parts interact:
- Every endpoint runs through RetryExecutor. Each attempt of RetryExecutor is one TransportInvoker call, which fires the debug hooks.
- PollLoop calls `GetRunStatus`, and therefore a whole RetryExecutor run, once per poll.
- ErrorClassifier decides RetryExecutor's retries, and callers use it on the errors they get back.

## Modules

| module | models | state / actions |
|---|---|---|
| `ErrorClassifier` | the classifiers | Pure operators. An outcome is `[kind, status]`, where kind is one of none, build, transport, read, http and ctx. `DoRequestOutcomes` is the set of outcomes `doRequest` can return for the given statuses. |
| `RetryExecutor` | `doWithRetry` + `doRequestWithRetry` + `doRequest` + hooks | See below. |
| `PollLoop` | `WaitRunTerminal` | See below. |
| `RetryAbstract` | what one `doWithRetry` call promises (`retry.go:56-91`) | `status`, `attempts`, `result`, `ctxDone`, `custom`. `Attempt` is one atomic call of `fn` whose outcome is returned, retried or (context done) replaced by `ctx.Err()`. `CancelBetween` is a done context ending the wait between attempts. `Cancel` is the caller cancelling. |
| `RetryExecutorProofs` | TLAPS proofs about `RetryExecutor`, including its refinement of `RetryAbstract` | |
| `RetrySafetyProofs` | TLAPS proofs of the hook, cancellation and backoff invariants of `RetryExecutor` | |
| `PollLoopProofs` | TLAPS proofs about `PollLoop` | |
| `MCRetryExecutor`, `MCPollLoop`, `MCErrorClassifier` | TLC instances | |

### RetryExecutor

**State.**
- `pc` is where the goroutine is:
  - `call`: about to call `fn`;
  - `inflight`: inside `httpClient.Do`;
  - `sleeping`: in the `select`;
  - `done`: returned;
  - `panicked`.
- `attempt` is the range index.
- `calls` counts the calls of `fn`.
- `lastErr`, `result` and `wait` (the last backoff) are the loop's values.
- `ctxDone` is the caller's context.
- `onReq` and `onResp` count the hook calls.
- `sentAfterCancel` counts the requests entered with the context already done.
- `conf` picks the configuration: hooks present, custom classifier, `buildReq` failing.

**Actions.**
- `Dispatch`: `fn` is called. Either the build fails, or `OnRequest` fires and `Do` is entered. If the context is already done, `Do` fails at once.
- `Respond`: `Do` returns one of `DoRequestOutcomes`, with `OnResponse` fired.
- `AbortInflight`: net/http aborts the request when the context ends.
- `WakeTimer` and `WakeCancelled`: the two cases of the `select`.
- `Cancel`: the caller cancels its context.

Each return of `fn` goes through `HandleOutcome`, which is the whole rest of the loop body: the success return, the classifier, the last-attempt test, `backoff` and the sleep or the immediate retry.

`backoff` is modelled at `DurationBits` bits:
- `ToDuration` is the float-to-int conversion. An out-of-range product is either `MinInt64` (amd64) or `MaxInt64` (arm64), a choice the build makes.
- `CapBackoff` applies `MaxBackoff`.
- `JitterPanics` holds when `int64(dur)+1` wraps, so `rand.Int64N` panics.
- `FullJitter` is the set `0..dur`.

### PollLoop

**State.**
- `pc` takes the values `start`, `call`, `fetching`, `sleeping` and `done`.
- `interval`, `attempt` and `sleepFor` are the loop's variables.
- `lastSeen` is the last status text.
- `result` is what the function returned.
- `callerCancelled` and `deadlineFired` together give the context.
- `runState` is the run on the server, which only moves forward.
- `blankRunID` is the argument check.

The run state text is abstracted to a word, an upper-case flag and a padding flag. `Normalize` is what `ToLower(TrimSpace(.))` does to it.

**Actions.**
- `Start`: the argument check and the defaulting.
- `FetchStart`.
- `FetchStatus`: the fetch returns and `HandleStatus` runs. That covers the terminal check, the attempt budget and a `select` that was already cancelled.
- `FetchFails`.
- `WakeTimer`: doubling with wrap-around, then the cap.
- `WakeCancelled`.
- `CallerCancel`, `DeadlineExpires` and `RunAdvances`.

When `MaxAttempts <= 0` the loop index is never read, so the model does not advance it. This keeps the state space finite.

## Runs

| run | instance | checks | result |
|---|---|---|---|
| `retry_core` | MaxAttempts 4, InitialBackoff 2, MaxBackoff 5, 6-bit durations, statuses {200, 400, 503}, all 16 configurations | TypeOK, ExhaustedBeforeSurfacing, BackoffWithinCap, CancelHonoured, HooksPerAttempt, CancelledCallReturns, RetryRefinesAbstract | pass |
| `retry_overflow` | 5 attempts, no cap, 5-bit durations | TypeOK, ExhaustedBeforeSurfacing | pass. The backoff overflows and the panic path is reached. |
| `retry_single` | MaxAttempts 0 | TypeOK | pass |
| `retry_backoff_overflow` | 5 attempts, cap 10, 5-bit durations | BackoffWithinCap | **violation** (finding 1) |
| `poll_core` | Initial 3, Max 8, 4 attempts, MaxDuration set | TypeOK, StopsAtFirstTerminal, PollAttemptsBound, IntervalCapped, PollTerminates, IntervalMonotone | pass |
| `poll_defaults` | zero policy except MaxDuration | IntervalCapped, IntervalPositive, PollTerminates | pass |
| `poll_interval_cap` | Initial 8 > Max 4 | IntervalCapped | **violation** (finding 2) |
| `poll_interval_wrap` | Initial 3, Max 20, 6-bit durations | IntervalPositive | **violation** (finding 4) |
| `classifier_table` | every status 100..999 | CategoryMatchesSpec | **violation** (finding 3) |

What the properties say:
- **ExhaustedBeforeSurfacing**: a retryable error reaches the caller only after `Budget` calls.
- **BackoffWithinCap**: every sleep lies in `[0, min(cap, Initial·2^i)]`.
- **CancelHonoured**: with the default classifier, at most one request is sent after cancellation.
- **HooksPerAttempt**: `OnRequest` fires once per built request, and `OnResponse` once per request that returned.
- **CancelledCallReturns**: once the context is done, the call returns.
- **StopsAtFirstTerminal**: the loop never sleeps or gives up after seeing a terminal state in any spelling, and returns only terminal states.
- **PollAttemptsBound**: "exhausted" comes after exactly MaxAttempts fetches.
- **IntervalCapped**: no sleep exceeds MaxInterval.
- **PollTerminates**: with MaxDuration set, the loop ends.
- **IntervalPositive**: every poll sleep is around a positive interval and lasts a positive time. A missing default, or a wrap-around of `interval *= 2` or of the jitter's sum, makes the loop poll back to back.
- **IntervalMonotone** (action property): each wake of the poll's `select` leaves an interval no shorter than the one slept around, unless it is the cap. A cap that reset the interval would break it, and so does the wrap-around of finding 4.
- **RetryRefinesAbstract**: the retry loop, with its hooks, transport and timers, implements `RetryAbstract`. The mapping:
  - `status` is returned once `pc = "done"`, panicked on a panic, and running otherwise;
  - `attempts` is `calls`, less the request still in flight;
  - `result`, `ctxDone` and `custom` map directly.
  
  A request in flight is thus not yet an attempt. `Respond`, `AbortInflight` and the build failure of `Dispatch` are the abstract `Attempt`. `WakeCancelled` is `CancelBetween`. `Dispatch`, `WakeTimer` and the hooks are stutters.

Why these bounds are enough:
- Four attempts with a cap of 5 reach every branch of the loop body: an uncapped step, a capped step, a zero jitter and the last attempt.
- The 5-bit durations make the overflow happen after 4 doublings, just as 64 bits make it happen after about 34.
- Three statuses cover the three classes: success, a non-retryable error and a retryable error.
- The poll instance doubles 3 → 6 → 8 (capped) within its four attempts.

Every property of a passing run has a mutant in `PROJECT.json`, and TLC finds each one violated. Each mutant is a plausible fault of the code, such as an off-by-one in the last-attempt test, a dropped cap or a missed `OnResponse`.

## Fairness

- **Weak fairness on the goroutine's own steps and on the timers.** `time.After` fires.
- **Weak fairness on `AbortInflight` and on the cancelled fetch.** net/http returns when a request's context ends.
- **Weak fairness on the `MaxDuration` timer.**
- **No fairness on the server's answer.** `http.DefaultClient` has no timeout, so a request may hang.
- **No fairness on cancellation or on the run's progress.** These are up to the caller and the server.

This is why `PollTerminates` is stated only for a set `MaxDuration`, and why `CancelledCallReturns` is conditional on cancellation.

## Findings

1. **Backoff overflow** (`retry.go:45`). With `MaxBackoff` set, the product `InitialBackoff·2^attempt` can exceed `MaxInt64`. On amd64 the conversion then gives `MinInt64`. That value passes the cap check, and the retry is sent with no sleep at all. With a 1 s initial backoff this happens from attempt 34 on, and the backoff at index 34 is computed only when 34 is not the last index, so it needs `MaxAttempts >= 36`. This contradicts spec §8. Without a cap, on arm64, the jitter's `+1` wraps and `rand.Int64N` panics, but only after centuries of sleeps.
2. **First poll interval is not capped** (`client.go:147`). An `InitialInterval` greater than `MaxInterval` is slept once in full. The spec says the cap is never exceeded.
3. **Category of status >= 600** (`errors.go:69`). Such a status is classed `ServerError`. The spec and the constant's comment say 500-599.
4. **Poll interval wraps** (`client.go:168`). `interval *= 2` has no overflow guard. With a `MaxInterval` above half the largest Duration, the doubled interval wraps negative. It is then below `MaxInterval`, so the cap does not apply, and `pollJitter` returns 0. The loop then fetches the status without sleeping, although spec §3 says poll intervals are never negative. The jitter sum `d - quarter + rand(2*quarter+1)` at `client.go:184` wraps in the same way for an interval above 4/5 of the largest Duration. At 64 bits either case needs a `MaxInterval` of more than a century.

## Proofs

`RetryExecutorProofs` proves three theorems with TLAPS. They hold for every value of the constants allowed by `ConstantsAssumption`. `DurationAssumption` states the two's-complement range facts about `2^(DurationBits-1)`, which the provers cannot derive; TLC checks it on every run.

- **`TypeCorrect`**: `Spec => []TypeOK`. `TypeOK` alone is not inductive. The strengthening `IInv` adds two facts:
  - `calls = attempt + (0 if pc = "call" else 1)`, which links the call counter to the range index;
  - a sleeping loop is not at its last attempt.
  
  With these, `calls <= Budget` and `attempt < Budget` are preserved. The lemmas:
  - `BackoffTyped`: backoff and jitter values are Durations.
  - `HandleOutcomeTyped`: what the loop body can change.
  - `HandleOutcomeIInv`: every return of `fn` restores `IInv`.
  - `NextIInv`: one case per action.
- **`RetriesExhausted`**: `Spec => []ExhaustedBeforeSurfacing`, which `retry_core` checks on a small instance. The proof rests on `IInv` and on `HandleOutcomeExhausts`. A retryable error is returned either with a budget of one, or from the last index, where `calls = attempt + 1 = MaxAttempts`.

- **`Refinement`**: under `NoPanicPolicy`, `Spec => RetryRefinesAbstract`. `NoPanicPolicy` means no initial backoff, or a cap below `MaxInt64`. The hypothesis is needed because the abstract contract has no panic, and an uncapped backoff can overflow the jitter's `+1`. `retry_core` checks the refinement with TLC. The proof:
  - initial states map to initial states;
  - under `IInv`, each step maps to an abstract step or a stutter (`NextRefines`);
  - `HandleOutcomeRefines` shows that every return of `fn` is an abstract `Attempt`, with the same outcome when the call returns it;
  - `NoJitterPanic` shows that the panic path is unreachable under the hypothesis.

`PollLoopProofs` proves three theorems about `WaitRunTerminal`, for every policy and width allowed by `PollConstantsAssumption` and `PollDurationAssumption`:
- **`PollTypeCorrect`**: `Spec => []TypeOK`.
- **`FirstTerminalStops`**: `Spec => []StopsAtFirstTerminal`.
- **`AttemptsBoundHolds`**: `Spec => []PollAttemptsBound`.

All three rest on one inductive invariant, `IInv`, which adds two facts to the properties:
- a sleeping loop has budget left (`attempt + 1 < MaxAttempts`), so the index advanced on waking stays in range;
- before `Start` nothing has been fetched, so the loop begins with a non-terminal `lastSeen`.

The lemmas:
- `WrapTyped`, `JitterTyped` and `NextIntervalTyped`: the wrap-around arithmetic and `pollJitter` stay in Duration.
- `FinishIInv`: every return keeps the invariant.
- `HandleStatusIInv`: the loop body after a fetch keeps the invariant.

`RetrySafetyProofs` proves the remaining invariants of the retry loop:
- **`HooksAccounted`**: `Spec => []HooksPerAttempt`. `HInv` adds to `IInv` the fact that a request in flight was built (`pc = "inflight" => ~conf.buildFails`). Without it, an in-flight request of a failing build would count as sent but not returned. The lemma `HandleOutcomeTyped` supplies that the loop body never leaves a request in flight.
- **`CancelIsFinal`**: `Spec => []CancelHonoured`. `CInv` strengthens the bound to: with the default classifier, a request sent after cancellation has already ended the call (`sentAfterCancel = 1 => pc = "done"`). `TransportNotRetried` shows why: the default classifier never retries status 0.
- **`BackoffBounded`**: `BackoffWithinCap` holds under `NoBackoffOverflow`. That hypothesis says each product `InitialBackoff * 2^i` at an index the loop reaches (`0..MaxAttempts-2`) is a positive Duration. `retry_core`'s policy satisfies it; `retry_backoff_overflow`'s does not (TLC evaluates both). The lower bound is stated because the provers cannot derive `2^i > 0` for a variable exponent. `CappedIsIdeal` shows that the capped delay is then `IdealBackoff(i)`.

`PollLoopProofs` also proves the interval properties, under the policies that exclude findings 2 and 4:
- **`IntervalCapHolds`**: `IntervalCapped` holds when `EffInitialInterval <= EffMaxInterval`. `CapInv` extends the bound to every running state.
- **`IntervalsStayPositive`**: `IntervalPositive` holds under `NoIntervalWrap`, which requires twice the largest interval to fit in a Duration. At 64 bits that means intervals below about 146 years. `PosInv` keeps the interval in `1..IntervalBound` while the loop runs. The lemmas:
  - `WrapId`: the wrap-around is the identity in range;
  - `JitterPositive`: ±25 % of such an interval is positive and does not wrap.
- **`BackoffNeverShrinks`**: `Spec => IntervalMonotone` under `NoIntervalWrap`, from `PosInv` and the step lemma `MonotoneStep`.

TLC confirms the hypotheses where it matters. `EffInitialInterval <= EffMaxInterval` and `NoIntervalWrap` both hold on `poll_core` and `poll_defaults`. The first fails on `poll_interval_cap`, and the second fails on `poll_interval_wrap`.

What stays with TLC alone:
- **Liveness** (`CancelledCallReturns`, `PollTerminates`): TLAPS cannot prove fairness-based properties here.
- **The violations themselves**: `BackoffWithinCap`, `IntervalCapped` and `IntervalPositive` for the policies outside the hypotheses, shown by the four violation runs, and `CategoryMatchesSpec`.

## Not modelled

- **Endpoint methods.** They are encoding glue around one retried call.
- **Configuration constructors.** They share no state.
- **Catalog filtering.** It is a pure filter.
- **The facade.** It only re-exports.
- **Error and category strings.** They are formatting.
- **Duplicate side effects of retried POSTs.** The server-side effect of a call is outside the client; see the hazards in `PROJECT.json`.

## Plan for later work

1. **`PollOverRetry`**: a composition in which each PollLoop fetch is a `RetryAbstract` run under the same context. It would check that the deadline bounds the whole nested retry, and that cancellation during an inner sleep ends the poll.
2. **A refinement for PollLoop**: an abstract `WaitRunTerminal` (observe, return or go on) implemented by the loop.
3. **An ErrorClassifier property** for read errors: their category and their retry decision.
