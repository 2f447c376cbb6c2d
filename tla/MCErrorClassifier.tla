--------------------------- MODULE MCErrorClassifier ---------------------------
(***************************************************************************)
(* HTTPError.Category checked against the category table of the spec over *)
(* every status code net/http can hand back: a three-digit code, 100..999 *)
(* (ReadResponse only requires three digits).                              *)
(***************************************************************************)
EXTENDS ErrorClassifier

VARIABLE code

Init == code \in 100..999
Next == UNCHANGED code

\* The table of the spec: 401/403 Auth, 404 NotFound, 400 BadRequest,
\* 429 RateLimited, any 5xx ServerError, every other code Unknown.
SpecCategory(s) ==
    CASE s \in {401, 403}  -> "Auth"
      [] s = 404           -> "NotFound"
      [] s = 400           -> "BadRequest"
      [] s = 429           -> "RateLimited"
      [] s \in 500..599    -> "ServerError"
      [] OTHER             -> "Unknown"

(***************************************************************************)
(* CategoryMatchesSpec: CategoryOf of the *HTTPError doRequest builds for *)
(* a non-2xx response has the category the spec's table gives its status.*)
(***************************************************************************)
CategoryMatchesSpec ==
    ~IsSuccessStatus(code) =>
        CategoryOf(Outcome(HTTPErr, code)) = SpecCategory(code)
=============================================================================
