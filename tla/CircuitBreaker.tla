--------------------------- MODULE CircuitBreaker ---------------------------
(***************************************************************************)
(* The in-process breaker of providers/circuit_breaker.py, as operators on *)
(* one breaker value.  "cooled" says whether cooldown_seconds have passed  *)
(* since the breaker opened; time passes by CoolDown.                      *)
(***************************************************************************)
EXTENDS Integers

CONSTANT FailureThreshold

ASSUME ThresholdAssumption == FailureThreshold \in Nat \ {0}

CircuitStates == {"CLOSED", "OPEN", "HALF_OPEN"}

\* failures stops at the threshold: the code counts only while CLOSED.
Breakers == [state : CircuitStates, failures : 0 .. FailureThreshold, cooled : BOOLEAN]

NewBreaker == [state |-> "CLOSED", failures |-> 0, cooled |-> FALSE]

Allows(b) == b.state = "OPEN" => b.cooled

\* allow(), when it answers True: an OPEN breaker becomes HALF_OPEN, and stays
\* so until an outcome that counts is recorded.
Allowed(b) == IF b.state = "OPEN" THEN [b EXCEPT !.state = "HALF_OPEN"] ELSE b

Opened(b) == [b EXCEPT !.state = "OPEN", !.cooled = FALSE]

RecordSuccess(b) == NewBreaker

RecordFailure(b, retryable) ==
    IF ~retryable \/ b.state = "OPEN" THEN b
    ELSE IF b.state = "HALF_OPEN" THEN Opened(b)
    ELSE LET counted == [b EXCEPT !.failures = @ + 1]
         IN  IF counted.failures >= FailureThreshold THEN Opened(counted) ELSE counted

CooledDown(b) == [b EXCEPT !.cooled = TRUE]

\* The counter explains the state: only a breaker that has seen the threshold
\* is anything but CLOSED.
WellFormed(b) ==
    /\ b \in Breakers
    /\ b.state = "CLOSED" <=> b.failures < FailureThreshold

=============================================================================
