--------------------------- MODULE ErrorClassifier ---------------------------
(***************************************************************************)
(* The pure classification functions of the client                         *)
(* (go-client/internal/rpcclient/errors.go and retry.go):                  *)
(*   - the outcome of one call of the attempt function, abstracted to the  *)
(*     kind of its error and the status code it carries;                   *)
(*   - defaultRetryClassifier, the retry decision used when no Classifier  *)
(*     is configured;                                                      *)
(*   - HTTPError.Category and CategoryOf, the diagnostic categories.       *)
(* Error messages, bodies and structured error payloads are left out: no   *)
(* decision of the client depends on them.                                 *)
(***************************************************************************)
EXTENDS Integers

(***************************************************************************)
(* The kinds of error an attempt can end with.                             *)
(*   NoErr     : err == nil (a 2xx response whose body was read)           *)
(*   BuildErr  : buildReq failed; the attempt returns (0, nil, err)        *)
(*   Transport : httpClient.Do failed (also when the context is done)      *)
(*   ReadErr   : reading the response body failed; the status is kept     *)
(*   HTTPErr   : a non-2xx response, an *HTTPError                         *)
(*   CtxErr    : ctx.Err() returned from the select of a sleep             *)
(***************************************************************************)
NoErr == "none"
BuildErr == "build"
Transport == "transport"
ReadErr == "read"
HTTPErr == "http"
CtxErr == "ctx"

AttemptErrKinds == {NoErr, BuildErr, Transport, ReadErr, HTTPErr}

\* An attempt's return value (statusCode, err), the body abstracted away.
Outcome(kind, status) == [kind |-> kind, status |-> status]

\* The error the retry loop returns when the context ends a sleep.
CancelledResult == Outcome(CtxErr, 0)

\* doRequest: the status range that is turned into an *HTTPError.
IsSuccessStatus(s) == s >= 200 /\ s < 300

(***************************************************************************)
(* The outcomes doRequest (client.go) can produce when the server answers  *)
(* with a status in Statuses, plus the transport failure (status 0).       *)
(***************************************************************************)
DoRequestOutcomes(statuses) ==
    {Outcome(Transport, 0)}
    \cup {Outcome(ReadErr, s) : s \in statuses}
    \cup {Outcome(IF IsSuccessStatus(s) THEN NoErr ELSE HTTPErr, s) : s \in statuses}

\* A plausible fault of defaultRetryClassifier: transport failures retried.
defaultRetryClassifierTransport(statusCode) ==
    statusCode \in {0, 429, 502, 503, 504}

\* defaultRetryClassifier: 429, 502, 503 and 504 are retryable, nothing else.
DefaultRetryableStatuses == {429, 502, 503, 504}
defaultRetryClassifier(statusCode) == statusCode \in DefaultRetryableStatuses

Categories == {"Unknown", "Network", "Auth", "NotFound", "BadRequest",
               "RateLimited", "ServerError"}

\* HTTPError.Category: the switch of errors.go, first matching case wins.
Category(statusCode) ==
    CASE statusCode \in {401, 403} -> "Auth"
      [] statusCode = 404          -> "NotFound"
      [] statusCode = 400          -> "BadRequest"
      [] statusCode = 429          -> "RateLimited"
      [] statusCode >= 500         -> "ServerError"
      [] OTHER                     -> "Unknown"

\* CategoryOf: nil is Unknown, an *HTTPError has its Category, anything else
\* (transport, read, build and context errors) is Network.
CategoryOf(o) ==
    IF o.kind = NoErr THEN "Unknown"
    ELSE IF o.kind = HTTPErr THEN Category(o.status)
    ELSE "Network"
=============================================================================
