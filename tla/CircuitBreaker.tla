--------------------------- MODULE CircuitBreaker ---------------------------
(***************************************************************************)
(* The circuit breaker of the pybreaker library, as the connectors use it. *)
(* A breaker counts the exceptions in a row of the calls it guards, opens  *)
(* after FailMax of them, and lets one call try again ResetTimeout later.  *)
(* A call that is answered, whatever its HTTP status, is a success.        *)
(***************************************************************************)
EXTENDS Naturals

CONSTANTS
  FailMax,       \* failures in a row that open a breaker
  ResetTimeout   \* how long it stays open

\* A breaker that has seen nothing.
Closed == [fails |-> 0, opened |-> FALSE, since |-> 0]

\* A call reaches the service; otherwise CircuitBreakerError is raised.
MayCall(b, now) == b.opened => now >= b.since + ResetTimeout

\* An answer closes the breaker.
AfterSuccess(b) == Closed

\* An exception opens it at the limit, and at once when the call was a trial.
AfterFailure(b, now) ==
  IF b.opened \/ b.fails + 1 >= FailMax
  THEN [fails |-> FailMax, opened |-> TRUE, since |-> now]
  ELSE [b EXCEPT !.fails = @ + 1]
=============================================================================
