----------------------- MODULE CircuitBreaker_proofs -----------------------
(***************************************************************************)
(* What every breaker keeps, for every threshold, recovery time, set of    *)
(* pairs and set of concurrent requests.  The argument is local to one     *)
(* breaker record: every operator of Breaker preserves its soundness       *)
(* (Parts_proofs), and the state machine only ever applies those           *)
(* operators.                                                              *)
(***************************************************************************)
EXTENDS CircuitBreaker, Parts_proofs

Typed ==
  /\ breakers \in [Cells -> CircuitBreakerRecord]
  /\ flight \in [Requests -> Call \cup {Idle}]
  /\ streak \in [Cells -> 0 .. MaxFailures]

\* The inductive invariant: every breaker is sound, and a CLOSED breaker's
\* count is the current streak of failures.
IInv ==
  /\ Typed
  /\ \A c \in Cells : Sound(breakers[c])
  /\ \A c \in Cells : breakers[c].state = "closed" => streak[c] = breakers[c].failures

-----------------------------------------------------------------------------
(* The state machine starts in IInv.                                        *)
LEMMA InitIInv == Init => IInv
<1> SUFFICES ASSUME Init PROVE IInv
  OBVIOUS
<1>1. NewBreaker \in CircuitBreakerRecord
  BY NewBreakerSound DEF Sound
<1>2. Typed
  BY <1>1, BreakerAssumption DEF Init, Typed, Call
<1>3. QED
  BY <1>2, NewBreakerSound DEF Init, IInv, NewBreaker

(* Every step keeps IInv: a step replaces breakers by what one operator     *)
(* makes of them and moves the streak with the count.                       *)
LEMMA NextIInv == IInv /\ [Next]_vars => IInv'
<1> SUFFICES ASSUME IInv, [Next]_vars PROVE IInv'
  OBVIOUS
<1> USE DEF IInv
<1>1. ASSUME NEW r \in Requests, NEW c \in Cells, Ask(r, c) PROVE IInv'
  <2>1. Sound(ReadState(breakers[c]))
    BY ReadStateSound
  <2>2. breakers' = [breakers EXCEPT ![c] = ReadState(breakers[c])] /\ streak' = streak
    BY <1>1 DEF Ask
  <2>3. breakers' \in [Cells -> CircuitBreakerRecord]
    BY <2>1, <2>2 DEF Typed, Sound
  <2>4. \A d \in Cells : Sound(breakers'[d])
    BY <2>1, <2>2 DEF Typed
  <2>5. flight' \in [Requests -> Call \cup {Idle}]
    <3>1. CASE IsAvailable(breakers[c])
      BY <1>1, <3>1, AvailableState DEF Ask, Typed, Call
    <3>2. CASE ~ IsAvailable(breakers[c])
      BY <1>1, <3>2 DEF Ask, Typed
    <3>3. QED BY <3>1, <3>2
  <2>6. \A d \in Cells : breakers'[d].state = "closed" => streak'[d] = breakers'[d].failures
    BY <2>2, ReadStateSound DEF Typed
  <2>7. QED BY <2>2, <2>3, <2>4, <2>5, <2>6 DEF Typed
<1>2. ASSUME NEW r \in Requests, Succeed(r) PROVE IInv'
  <2> DEFINE c == flight[r].cell
  <2>1. c \in Cells
    BY <1>2 DEF Succeed, Typed, Call
  <2>2. /\ breakers' = [breakers EXCEPT ![c] = RecordSuccess(breakers[c])]
        /\ streak' = [streak EXCEPT ![c] = 0]
        /\ flight' = [flight EXCEPT ![r] = Idle]
    BY <1>2 DEF Succeed
  <2> HIDE DEF c
  <2>3. Sound(RecordSuccess(breakers[c]))
    BY <2>1, RecordSuccessSound
  <2>4. Typed'
    BY <2>1, <2>2, <2>3, BreakerAssumption DEF Typed, Sound
  <2>5. \A d \in Cells : Sound(breakers'[d])
    BY <2>1, <2>2, <2>3 DEF Typed
  <2>6. \A d \in Cells : breakers'[d].state = "closed" => streak'[d] = breakers'[d].failures
    BY <2>1, <2>2, RecordSuccessSound DEF Typed
  <2>7. QED BY <2>4, <2>5, <2>6
<1>3. ASSUME NEW r \in Requests, Fail(r) PROVE IInv'
  <2> DEFINE c == flight[r].cell
             n == IF breakers[c].failures < MaxFailures
                    THEN breakers[c].failures + 1 ELSE breakers[c].failures
             s == IF streak[c] < MaxFailures THEN streak[c] + 1 ELSE streak[c]
  <2>1. c \in Cells
    BY <1>3 DEF Fail, Typed, Call
  <2>2. /\ breakers' = [breakers EXCEPT ![c] = RecordFailure(breakers[c])]
        /\ streak' = [streak EXCEPT ![c] = s]
        /\ flight' = [flight EXCEPT ![r] = Idle]
    BY <1>3 DEF Fail
  <2>3. s \in 0 .. MaxFailures
    BY <2>1, BreakerAssumption DEF Typed
  <2>4. /\ Sound(RecordFailure(breakers[c]))
        /\ RecordFailure(breakers[c]).failures = n
        /\ RecordFailure(breakers[c]).state = "closed" => breakers[c].state = "closed"
    BY <2>1, RecordFailureSound
  <2>5. RecordFailure(breakers[c]).state = "closed" => s = RecordFailure(breakers[c]).failures
    BY <2>1, <2>4
  <2> HIDE DEF c, n, s
  <2>6. Typed'
    BY <2>1, <2>2, <2>3, <2>4, BreakerAssumption DEF Typed, Sound
  <2>7. \A d \in Cells : Sound(breakers'[d])
    BY <2>1, <2>2, <2>4 DEF Typed
  <2>8. \A d \in Cells : breakers'[d].state = "closed" => streak'[d] = breakers'[d].failures
    BY <2>1, <2>2, <2>5 DEF Typed
  <2>9. QED BY <2>6, <2>7, <2>8
<1>4. ASSUME NEW r \in Requests, Drop(r) PROVE IInv'
  BY <1>4 DEF Drop, Typed
<1>5. CASE Observe
  <2>1. \A d \in Cells : breakers'[d] = ReadState(breakers[d])
    BY <1>5 DEF Observe
  <2>2. \A d \in Cells : Sound(breakers'[d])
    BY <2>1, ReadStateSound
  <2>3. Typed'
    BY <1>5, <2>1, <2>2 DEF Observe, Typed, Sound
  <2>4. \A d \in Cells : breakers'[d].state = "closed" => streak'[d] = breakers'[d].failures
    BY <1>5, <2>1, ReadStateSound DEF Observe
  <2>5. QED BY <2>2, <2>3, <2>4
<1>6. ASSUME NEW p \in Providers, Reset(p) PROVE IInv'
  <2>1. \A d \in Cells :
          breakers'[d] = IF d[1] = p THEN ResetBreaker(breakers[d]) ELSE breakers[d]
    BY <1>6 DEF Reset
  <2>2. \A d \in Cells : Sound(breakers'[d])
    BY <2>1, ResetBreakerSound
  <2>3. Typed'
    BY <1>6, <2>1, <2>2, BreakerAssumption DEF Reset, Typed, Sound
  <2>4. \A d \in Cells : breakers'[d].state = "closed" => streak'[d] = breakers'[d].failures
    BY <1>6, <2>1, ResetBreakerSound DEF Reset
  <2>5. QED BY <2>2, <2>3, <2>4
<1>7. CASE Tick
  <2>1. \A d \in Cells : breakers'[d] = Older(breakers[d])
    BY <1>7 DEF Tick
  <2>2. \A d \in Cells : Sound(breakers'[d])
    BY <2>1, OlderSound
  <2>3. Typed'
    BY <1>7, <2>1, <2>2 DEF Tick, Typed, Sound
  <2>4. \A d \in Cells : breakers'[d].state = "closed" => streak'[d] = breakers'[d].failures
    BY <1>7, <2>1, OlderSound DEF Tick
  <2>5. QED BY <2>2, <2>3, <2>4
<1>8. CASE UNCHANGED vars
  BY <1>8 DEF vars, Typed
<1>9. QED
  BY <1>1, <1>2, <1>3, <1>4, <1>5, <1>6, <1>7, <1>8 DEF Next
-----------------------------------------------------------------------------
(* IInv is an invariant of the specification.                               *)
THEOREM Invariance == Spec => []IInv
  BY InitIInv, NextIInv, PTL DEF Spec

(* Breakers, calls in flight and streaks keep their types: in particular no *)
(* request is ever in flight that an OPEN breaker let through.  A breaker   *)
(* counts below the threshold exactly when it is CLOSED, for any number of  *)
(* concurrent requests (circuit_breaker.py:60-101).                         *)
THEOREM TypeCorrect == Spec => []TypeOK
<1>1. IInv => TypeOK  BY DEF IInv, Typed, Sound, TypeOK
<1>2. QED BY <1>1, Invariance, PTL

(* No breaker is HALF_OPEN within the recovery timeout of a failure         *)
(* (circuit_breaker.py:45-54, 71-87).                                       *)
THEOREM QuietBeforeProbeHolds == Spec => []QuietBeforeProbe
<1>1. IInv => QuietBeforeProbe  BY DEF IInv, Sound, QuietBeforeProbe
<1>2. QED BY <1>1, Invariance, PTL
-----------------------------------------------------------------------------
(* Which action can take a breaker to another state.                        *)
LEMMA StateChange ==
  ASSUME IInv, [Next]_vars, NEW c \in Cells, breakers'[c].state # breakers[c].state
  PROVE  \/ breakers'[c] = ReadState(breakers[c])
         \/ breakers'[c] = RecordSuccess(breakers[c])
         \/ /\ breakers'[c] = RecordFailure(breakers[c])
            /\ streak'[c] = IF streak[c] < MaxFailures THEN streak[c] + 1 ELSE streak[c]
         \/ \E p \in Providers : Reset(p) /\ breakers'[c] = ResetBreaker(breakers[c])
<1> USE DEF IInv, Typed
<1>1. ASSUME NEW r \in Requests, NEW d \in Cells, Ask(r, d)
      PROVE  breakers'[c] = ReadState(breakers[c])
  BY <1>1 DEF Ask
<1>2. ASSUME NEW r \in Requests, Succeed(r) PROVE breakers'[c] = RecordSuccess(breakers[c])
  BY <1>2 DEF Succeed, Call
<1>3. ASSUME NEW r \in Requests, Fail(r)
      PROVE  /\ breakers'[c] = RecordFailure(breakers[c])
             /\ streak'[c] = IF streak[c] < MaxFailures THEN streak[c] + 1 ELSE streak[c]
  <2> DEFINE d == flight[r].cell
  <2>1. d \in Cells
    BY <1>3 DEF Fail, Call
  <2>2. /\ breakers' = [breakers EXCEPT ![d] = RecordFailure(breakers[d])]
        /\ streak' = [streak EXCEPT ![d] =
                        IF streak[d] < MaxFailures THEN streak[d] + 1 ELSE streak[d]]
    BY <1>3 DEF Fail
  <2> HIDE DEF d
  <2>3. c = d
    BY <2>1, <2>2
  <2>4. QED BY <2>1, <2>2, <2>3
<1>4. ASSUME NEW r \in Requests, Drop(r) PROVE FALSE
  BY <1>4 DEF Drop
<1>5. CASE Observe
  BY <1>5 DEF Observe
<1>6. ASSUME NEW p \in Providers, Reset(p)
      PROVE  Reset(p) /\ breakers'[c] = ResetBreaker(breakers[c])
  BY <1>6 DEF Reset
<1>7. CASE Tick
  <2>1. breakers'[c] = Older(breakers[c])
    BY <1>7 DEF Tick
  <2>2. QED BY <2>1, OlderSound
<1>8. CASE UNCHANGED vars
  BY <1>8 DEF vars
<1>9. QED
  BY <1>1, <1>2, <1>3, <1>4, <1>5, <1>6, <1>7, <1>8 DEF Next

(* "Consecutive failures to trip the breaker" (admin-guide.md:651), for     *)
(* every interleaving of any number of requests; and no answer, read or     *)
(* lapse of time takes a breaker from OPEN to CLOSED at once                *)
(* (circuit_breaker.py:60-69).                                              *)
THEOREM ChangesAreEarnedHolds == Spec => ChangesAreEarned
<1>1. ASSUME IInv, [Next]_vars, NEW c \in Cells,
             breakers[c].state = "closed", breakers'[c].state = "open"
      PROVE  streak'[c] >= Threshold
  <2>1. Sound(breakers[c]) /\ streak[c] = breakers[c].failures
    BY <1>1 DEF IInv
  <2>2. /\ breakers'[c] = RecordFailure(breakers[c])
        /\ streak'[c] = IF streak[c] < MaxFailures THEN streak[c] + 1 ELSE streak[c]
    <3>1. /\ ReadState(breakers[c]).state # "open"
          /\ ResetBreaker(breakers[c]).state # "open"
          /\ RecordSuccess(breakers[c]).state # "open"
      BY <1>1, <2>1, ReadStateSound, ResetBreakerSound DEF RecordSuccess, Sound, CircuitBreakerRecord
    <3>2. QED BY <1>1, <3>1, StateChange
  <2>3. QED BY <1>1, <2>1, <2>2, RecordFailureSound
<1>2. ASSUME IInv, [Next]_vars, NEW c \in Cells,
             breakers[c].state = "open", breakers'[c].state = "closed"
      PROVE  \E p \in Providers : Reset(p)
  <2>1. Sound(breakers[c])
    BY <1>2 DEF IInv
  <2>2. /\ ReadState(breakers[c]).state # "closed"
        /\ RecordSuccess(breakers[c]).state # "closed"
        /\ RecordFailure(breakers[c]).state # "closed"
    BY <1>2, <2>1, ReadStateSound, RecordSuccessSound, RecordFailureSound
  <2>3. QED BY <1>2, <2>2, StateChange
<1>3. IInv /\ [Next]_vars
        => [\A c \in Cells :
              /\ breakers[c].state = "closed" /\ breakers'[c].state = "open"
                   => streak'[c] >= Threshold
              /\ breakers[c].state = "open" /\ breakers'[c].state = "closed"
                   => \E p \in Providers : Reset(p)]_vars
  BY <1>1, <1>2
<1>4. QED BY <1>3, Invariance, PTL DEF Spec, ChangesAreEarned
=============================================================================
