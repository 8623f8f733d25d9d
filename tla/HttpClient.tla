----------------------------- MODULE HttpClient -----------------------------
(***************************************************************************)
(* The retry policy of HttpClient.request_json (providers/http.py), as     *)
(* operators on one outcome of one attempt.  An outcome is what             *)
(* classify_transport_error, _classify_403 and _retry_after make of a      *)
(* response or of an exception; wording and redaction are left out.        *)
(***************************************************************************)
EXTENDS Integers

CONSTANT MaxAttempts

ASSUME AttemptsAssumption == MaxAttempts \in Nat \ {0}

\* PROXY_ERROR, DNS and the other network codes share one treatment; a 403 is
\* a rate limit when it carries a Retry-After or no remaining quota, and its
\* wait is short when it lies in (0, 30] seconds.
NetworkOutcomes == {"timeout", "refused", "reset", "dns", "proxy", "unknown"}
FatalOutcomes == {"tls", "too_large", "bad_json", "auth", "forbidden", "client_error"}
Outcomes == {"ok", "http_429", "http_5xx", "http_403_short_wait", "http_403_long_wait"}
                \cup NetworkOutcomes \cup FatalOutcomes

\* RETRYABLE_ERROR_CODES, with the Retry-After condition of a 403.
Transient == {"http_429", "http_5xx", "http_403_short_wait"} \cup NetworkOutcomes

\* retry_allowed: a POST is repeated only when the caller calls it idempotent.
RetryAllowed(method, idempotent) == method = "GET" \/ idempotent

\* Whether the client sleeps and sends again after so many sends.
Retries(method, idempotent, outcome, sent) ==
    /\ RetryAllowed(method, idempotent)
    /\ outcome \in Transient
    /\ sent < MaxAttempts

=============================================================================
