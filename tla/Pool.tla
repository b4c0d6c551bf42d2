-------------------------------- MODULE Pool --------------------------------
(***************************************************************************)
(* The API keys of one provider: class ApiKeyPool of key_pool.py, as       *)
(* operators on a record.  The state machines KeyPool and LLMProxy keep    *)
(* such records.  Each operator is one method, run under the pool's lock.  *)
(*                                                                         *)
(* Positions count from 1 where the code's indexes count from 0.  A        *)
(* backoff is the time left of it, 0 for none: an entry of _backoff that   *)
(* has expired and one that is not there are the same to every reader.     *)
(* error_count is frozen at ErrorThreshold, the only number it is compared *)
(* with; _counter is kept modulo CounterPeriod, a multiple of every pool   *)
(* size; usage_count is frozen at MaxUsage, and keys used that often are   *)
(* taken to be in any order.                                               *)
(***************************************************************************)
EXTENDS Naturals, FiniteSets, SequencesExt

CONSTANTS
  KeyIds,          \* the entries of the pool, one dict of _keys each
  MaxKeys,         \* the largest pool
  ErrorThreshold,  \* errors that make a key unhealthy (10)
  BackoffTicks,    \* how long a 429 backs a key off (60 s)
  CounterPeriod,
  MaxUsage

ASSUME PoolAssumption ==
  /\ MaxKeys \in Nat \ {0}
  /\ ErrorThreshold \in Nat \ {0}
  /\ BackoffTicks \in Nat \ {0}
  /\ CounterPeriod \in Nat \ {0}
  /\ \A n \in 1 .. MaxKeys : CounterPeriod % n = 0
  /\ MaxUsage \in Nat

Strategies == {"round_robin", "least_used", "random"}

Positions == 1 .. MaxKeys

Entry ==
  [id      : KeyIds,
   usage   : 0 .. MaxUsage,
   errors  : 0 .. ErrorThreshold,
   healthy : BOOLEAN]

PoolRecord ==
  [keys    : Seq(Entry),
   counter : 0 .. CounterPeriod - 1,
   backoff : [Positions -> 0 .. BackoffTicks]]

NewEntry(k) == [id |-> k, usage |-> 0, errors |-> 0, healthy |-> TRUE]

EmptyPool ==
  [keys |-> << >>, counter |-> 0, backoff |-> [i \in Positions |-> 0]]

\* Healthy keys get_next_key would skip if it read no backoff (mutant).
EligibleBackoffIgnored(p) == {i \in DOMAIN p.keys : p.keys[i].healthy}

\* The list `healthy` of get_next_key, as the set of its positions.
Eligible(p) == {i \in DOMAIN p.keys : p.keys[i].healthy /\ p.backoff[i] = 0}

\* A round robin over all the keys, which falls to the first eligible one
\* when its turn is a key that is not (mutant).
RoundRobinOverAll(p) ==
  LET turn == (p.counter % Len(p.keys)) + 1
  IN  {i \in Eligible(p) :
         IF turn \in Eligible(p) THEN i = turn ELSE \A j \in Eligible(p) : i <= j}

\* healthy[_counter % len(healthy)]
RoundRobin(p) ==
  {i \in Eligible(p) :
     Cardinality({j \in Eligible(p) : j < i}) = p.counter % Cardinality(Eligible(p))}

\* min(healthy, key=usage_count): the first of the least used keys.
LeastUsed(p) ==
  {i \in Eligible(p) :
     \A j \in Eligible(p) :
       \/ p.keys[i].usage < p.keys[j].usage
       \/ p.keys[i].usage = p.keys[j].usage /\ (i <= j \/ p.keys[i].usage = MaxUsage)}

\* The positions get_next_key may return; none is its None.
NextKeys(p, strategy) ==
  CASE strategy = "round_robin" -> RoundRobin(p)
    [] strategy = "least_used"  -> LeastUsed(p)
    [] strategy = "random"      -> Eligible(p)

\* The pool after get_next_key has returned a key.
Picked(p, strategy) ==
  IF strategy = "round_robin"
    THEN [p EXCEPT !.counter = (@ + 1) % CounterPeriod]
    ELSE p

MarkError(p, i) ==
  IF i \notin DOMAIN p.keys THEN p
  ELSE LET e == p.keys[i]
           n == IF e.errors < ErrorThreshold THEN e.errors + 1 ELSE e.errors
       IN  [p EXCEPT !.keys[i] =
              [e EXCEPT !.errors = n, !.healthy = @ /\ n < ErrorThreshold]]

\* A mark_success that takes a position for an index, and so credits the
\* next key of the list (mutant).
MarkSuccessNextKey(p, i) ==
  IF i + 1 \notin DOMAIN p.keys THEN p
  ELSE [p EXCEPT !.keys[i + 1].healthy = TRUE]

\* It revives the key and leaves its error_count alone.
MarkSuccess(p, i) ==
  IF i \notin DOMAIN p.keys THEN p
  ELSE LET e == p.keys[i]
       IN  [p EXCEPT !.keys[i] =
              [e EXCEPT !.usage = IF @ < MaxUsage THEN @ + 1 ELSE @, !.healthy = TRUE]]

\* It sets the backoff of the index whether or not a key is there.
MarkRateLimited(p, i) == [p EXCEPT !.backoff[i] = BackoffTicks]

\* An add_key that puts the new key first (mutant).
AddKeyFirst(p, k) == [p EXCEPT !.keys = <<NewEntry(k)>> \o @]

AddKey(p, k) == [p EXCEPT !.keys = Append(@, NewEntry(k))]

\* A removal that deletes the slot of _backoff as if it were a list (mutant).
RemoveKeyAndSlot(p, i) ==
  [p EXCEPT !.keys = RemoveAt(@, i), !.backoff = RemoveAt(@, i)]

\* The keys behind position i move up; of _backoff only index i is dropped.
RemoveKey(p, i) ==
  [p EXCEPT !.keys = RemoveAt(@, i), !.backoff[i] = 0]

\* One tick of wall-clock time.
Rested(p) ==
  [p EXCEPT !.backoff = [i \in Positions |-> IF @[i] > 0 THEN @[i] - 1 ELSE 0]]

IdsAt(p, positions) == {p.keys[i].id : i \in positions}
=============================================================================
