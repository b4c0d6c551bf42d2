--------------------------- MODULE CircuitBreaker ---------------------------
(***************************************************************************)
(* CircuitBreakerManager of circuit_breaker.py under concurrent requests.  *)
(*                                                                         *)
(* A request asks is_available, awaits the provider's answer and reports   *)
(* it (llm_proxy.py, _chat_with_retry): between the two, other requests,   *)
(* the admin's calls and time go on, so answers reach a breaker in a state *)
(* other than the one that let their request through.                      *)
(***************************************************************************)
EXTENDS Breaker, FiniteSets

CONSTANTS
  Providers,
  Indexes,     \* key indexes in a provider's pool
  Requests,
  Idle         \* a request with no upstream call under way

ASSUME CircuitBreakerAssumption == Idle \notin Providers \X Indexes

VARIABLES
  breakers,    \* _breakers; a pair never asked for is as get_breaker makes it
  flight,      \* the pair each request awaits an answer from, and the state
               \* in which its breaker let it through
  streak       \* history: failures recorded since the last recorded success
               \* or reset of the pair

vars == <<breakers, flight, streak>>

Cells == Providers \X Indexes

Call == [cell : Cells, admitted : {"closed", "half_open"}]

(* Every variable has its type, and a breaker counts failures below the     *)
(* threshold exactly when it is CLOSED, whatever order late answers,        *)
(* probes, resets and reads come in: the two fields are written in          *)
(* different branches (circuit_breaker.py:60-101).                          *)
TypeOK ==
  /\ breakers \in [Cells -> CircuitBreakerRecord]
  /\ flight \in [Requests -> Call \cup {Idle}]
  /\ streak \in [Cells -> 0 .. MaxFailures]
  /\ \A c \in Cells : breakers[c].state = "closed" <=> breakers[c].failures < Threshold

Init ==
  /\ breakers = [c \in Cells |-> NewBreaker]
  /\ flight = [r \in Requests |-> Idle]
  /\ streak = [c \in Cells |-> 0]

\* The breaker's answer to r about c; a request let through goes upstream.
Ask(r, c) ==
  /\ flight[r] = Idle
  /\ breakers' = [breakers EXCEPT ![c] = ReadState(@)]
  /\ flight' = IF IsAvailable(breakers[c])
                 THEN [flight EXCEPT ![r] =
                         [cell |-> c, admitted |-> ReadState(breakers[c]).state]]
                 ELSE flight
  /\ UNCHANGED streak

Succeed(r) ==
  /\ flight[r] # Idle
  /\ LET c == flight[r].cell IN
       /\ breakers' = [breakers EXCEPT ![c] = RecordSuccess(@)]
       /\ streak' = [streak EXCEPT ![c] = 0]
  /\ flight' = [flight EXCEPT ![r] = Idle]

Fail(r) ==
  /\ flight[r] # Idle
  /\ LET c == flight[r].cell IN
       /\ breakers' = [breakers EXCEPT ![c] = RecordFailure(@)]
       /\ streak' = [streak EXCEPT ![c] = IF @ < MaxFailures THEN @ + 1 ELSE @]
  /\ flight' = [flight EXCEPT ![r] = Idle]

\* A 429, or a stream its client left: the breaker hears nothing of it.
Drop(r) ==
  /\ flight[r] # Idle
  /\ flight' = [flight EXCEPT ![r] = Idle]
  /\ UNCHANGED <<breakers, streak>>

\* The admin page's get_all_states reads the state of every breaker.
Observe ==
  /\ breakers' = [c \in Cells |-> ReadState(breakers[c])]
  /\ UNCHANGED <<flight, streak>>

\* The admin's reset of all the breakers of a provider.
Reset(p) ==
  /\ breakers' = [c \in Cells |->
                    IF c[1] = p THEN ResetBreaker(breakers[c]) ELSE breakers[c]]
  /\ streak' = [c \in Cells |-> IF c[1] = p THEN 0 ELSE streak[c]]
  /\ UNCHANGED flight

Tick ==
  /\ breakers' = [c \in Cells |-> Older(breakers[c])]
  /\ UNCHANGED <<flight, streak>>

Next ==
  \/ \E r \in Requests, c \in Cells : Ask(r, c)
  \/ \E r \in Requests : Succeed(r) \/ Fail(r) \/ Drop(r)
  \/ Observe
  \/ \E p \in Providers : Reset(p)
  \/ Tick

\* Time passes, and every breaker is looked at again and again (the admin
\* page polls it, and requests go on arriving).  Upstream answers need not
\* come and nobody has to press reset.
Spec == Init /\ [][Next]_vars /\ WF_vars(Tick) /\ WF_vars(Observe)

-----------------------------------------------------------------------------
(* A HALF_OPEN breaker has seen no failure for the whole recovery timeout:  *)
(* failures of requests let through earlier, which arrive while it is OPEN, *)
(* start the wait over (circuit_breaker.py:76-87), so no probe goes out     *)
(* sooner than that after the last bad answer.                              *)
QuietBeforeProbe ==
  \A c \in Cells : breakers[c].state = "half_open" => breakers[c].quietFor = Recovery

(* "Consecutive failures to trip the breaker" (admin-guide.md:651): however *)
(* the answers of concurrent requests interleave, a CLOSED breaker opens    *)
(* only on at least Threshold failures with no success and no reset between *)
(* them.  And no answer closes an OPEN one: a success of a request let      *)
(* through before the outage is ignored (circuit_breaker.py:62), and only   *)
(* the admin's reset goes from OPEN to CLOSED at once.                      *)
ChangesAreEarned ==
  [][\A c \in Cells :
       /\ breakers[c].state = "closed" /\ breakers'[c].state = "open"
            => streak'[c] >= Threshold
       /\ breakers[c].state = "open" /\ breakers'[c].state = "closed"
            => \E p \in Providers : Reset(p)]_vars

(* An open breaker does not stay so for ever, although late failures may    *)
(* extend the wait and every read of its state goes through the same lazy   *)
(* transition (circuit_breaker.py:45-54).                                   *)
OutageIsProbed ==
  \A c \in Cells : breakers[c].state = "open" ~> breakers[c].state # "open"
=============================================================================
