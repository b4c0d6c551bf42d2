------------------------------ MODULE Breaker ------------------------------
(***************************************************************************)
(* The circuit breaker of one (provider, key index) pair: class            *)
(* CircuitBreaker of circuit_breaker.py, as operators on a record.  The    *)
(* state machines CircuitBreaker and LLMProxy keep functions of these      *)
(* records.                                                                *)
(*                                                                         *)
(* Wall-clock times become ages: openFor is time.time() - _opened_at and   *)
(* quietFor is time.time() - _last_failure_time, both in ticks and both    *)
(* frozen at Recovery (recovery_timeout), past which the code cannot tell  *)
(* them apart.  The failure count is frozen at MaxFailures >= Threshold:   *)
(* the code only compares it with failure_threshold.                       *)
(***************************************************************************)
EXTENDS Naturals

CONSTANTS
  Threshold,     \* CB_FAILURE_THRESHOLD
  Recovery,      \* CB_RECOVERY_TIMEOUT_SECONDS, in ticks
  MaxFailures    \* where the model stops counting failures

ASSUME BreakerAssumption ==
  /\ Threshold \in Nat \ {0}
  /\ Recovery \in Nat \ {0}
  /\ MaxFailures \in Nat
  /\ MaxFailures >= Threshold

CBState == {"closed", "open", "half_open"}

CircuitBreakerRecord ==
  [state    : CBState,
   failures : 0 .. MaxFailures,
   openFor  : 0 .. Recovery,
   quietFor : 0 .. Recovery]

\* __init__; both stored times are 0.0, an epoch ago.
NewBreaker ==
  [state |-> "closed", failures |-> 0, openFor |-> Recovery, quietFor |-> Recovery]

\* A read that starts the wait over while it is not (mutant).
ReadStateRestartsWait(b) ==
  IF b.state # "open" THEN b
  ELSE IF b.openFor >= Recovery THEN [b EXCEPT !.state = "half_open"]
  ELSE [b EXCEPT !.openFor = 0]

\* The state property: whoever reads it turns an OPEN breaker whose wait is
\* over into a HALF_OPEN one.
ReadState(b) ==
  IF b.state = "open" /\ b.openFor >= Recovery
    THEN [b EXCEPT !.state = "half_open"]
    ELSE b

\* An is_available that lets every request through (mutant).
IsAvailableAlways(b) == b.state \in CBState

\* is_available: the state after the read that answering it performs.
IsAvailable(b) == ReadState(b).state # "open"

\* A record_success that forgets to clear the count (mutant).
RecordSuccessKeepsCount(b) ==
  IF b.state = "open" THEN b ELSE [b EXCEPT !.state = "closed"]

\* record_success looks at the stored state: a success that arrives while
\* the breaker is stored OPEN changes nothing, even when its wait is over.
RecordSuccess(b) ==
  IF b.state = "open" THEN b ELSE [b EXCEPT !.state = "closed", !.failures = 0]

\* A record_failure that restarts the wait only when it opens the breaker
\* (mutant).
RecordFailureKeepsWait(b) ==
  LET n == IF b.failures < MaxFailures THEN b.failures + 1 ELSE b.failures
  IN  [b EXCEPT
         !.failures = n,
         !.quietFor = 0,
         !.state    = IF b.state = "half_open" \/ n >= Threshold THEN "open" ELSE @,
         !.openFor  = IF b.state = "closed" /\ n >= Threshold THEN 0 ELSE @]

\* record_failure: one more failure; HALF_OPEN reopens, and so does any
\* breaker at the threshold, OPEN ones included, whose wait starts over.
RecordFailure(b) ==
  LET n     == IF b.failures < MaxFailures THEN b.failures + 1 ELSE b.failures
      opens == b.state = "half_open" \/ n >= Threshold
  IN  [state    |-> IF opens THEN "open" ELSE b.state,
       failures |-> n,
       openFor  |-> IF opens THEN 0 ELSE b.openFor,
       quietFor |-> 0]

\* reset: _last_failure_time stays, _opened_at returns to the epoch.
ResetBreaker(b) ==
  [b EXCEPT !.state = "closed", !.failures = 0, !.openFor = Recovery]

\* One tick of wall-clock time.
Older(b) ==
  [b EXCEPT
     !.openFor  = IF @ < Recovery THEN @ + 1 ELSE @,
     !.quietFor = IF @ < Recovery THEN @ + 1 ELSE @]
=============================================================================
