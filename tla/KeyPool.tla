------------------------------ MODULE KeyPool ------------------------------
(***************************************************************************)
(* One provider's key pool (ApiKeyPool of key_pool.py) under concurrent    *)
(* requests and an admin who adds and removes keys.                        *)
(*                                                                         *)
(* A request takes a key, awaits the provider with it and then reports to  *)
(* the pool by the key's index (llm_proxy.py, _chat_with_retry), an index  *)
(* into a list that the admin may have changed in between.                 *)
(*                                                                         *)
(* A member of KeyIds is an entry of that list, one dict of _keys.  When   *)
(* the server starts it loads the stored keys twice (main.py:113-114), so  *)
(* each of them has two entries, which share neither health nor backoff.   *)
(***************************************************************************)
EXTENDS Pool

CONSTANTS
  Requests,
  FirstLoad,     \* the entries that the two loads at startup make of the
  SecondLoad,    \* stored keys, in the order of the rows
  MaxRemovals,   \* bound: how often the admin removes a key
  Idle           \* a request that holds no key

InitialKeys == FirstLoad \o SecondLoad

ASSUME KeyPoolAssumption ==
  /\ FirstLoad \in Seq(KeyIds)
  /\ SecondLoad \in Seq(KeyIds)
  /\ Len(SecondLoad) = Len(FirstLoad)
  /\ Len(InitialKeys) <= MaxKeys
  /\ MaxRemovals \in Nat
  /\ \A i, j \in DOMAIN InitialKeys : InitialKeys[i] = InitialKeys[j] => i = j
  /\ Idle \notin [pos : Positions, id : KeyIds]

VARIABLES
  strategy,   \* KEY_ROTATION_STRATEGY, fixed for the life of the process
  pool,
  flight,     \* the position each request holds, and the key it was
  removals,   \* history: how many keys have been removed
  rest,       \* history: what is left of each entry's last 429, by the entry
  astray,     \* history: how long backoffs may yet be at another's index
  lap         \* history: keys handed out in the current lap of the keys
              \* eligible since the lap began

vars == <<strategy, pool, flight, removals, rest, astray, lap>>

Holding == [pos : Positions, id : KeyIds]

TypeOK ==
  /\ strategy \in Strategies
  /\ pool \in PoolRecord
  /\ Len(pool.keys) <= MaxKeys
  /\ flight \in [Requests -> Holding \cup {Idle}]
  /\ removals \in 0 .. MaxRemovals
  /\ rest \in [KeyIds -> 0 .. BackoffTicks]
  /\ astray \in 0 .. BackoffTicks
  /\ lap \subseteq KeyIds

Init ==
  /\ strategy \in Strategies
  /\ pool = [EmptyPool EXCEPT !.keys = [i \in DOMAIN InitialKeys |-> NewEntry(InitialKeys[i])]]
  /\ flight = [r \in Requests |-> Idle]
  /\ removals = 0
  /\ rest = [k \in KeyIds |-> 0]
  /\ astray = 0
  /\ lap = {}

EligibleIds(p) == IdsAt(p, Eligible(p))

\* The lap after a step to pool p that hands out the keys `out`: it starts
\* over when the eligible keys change and when all of them have had a turn.
Lap(p, out) ==
  IF \/ strategy # "round_robin"
     \/ EligibleIds(p) # EligibleIds(pool)
     \/ lap \cup out = EligibleIds(p)
  THEN {} ELSE lap \cup out

\* get_next_key returns the key at position i to request r.
Take(r, i) ==
  /\ flight[r] = Idle
  /\ i \in NextKeys(pool, strategy)
  /\ pool' = Picked(pool, strategy)
  /\ flight' = [flight EXCEPT ![r] = [pos |-> i, id |-> pool.keys[i].id]]
  /\ lap' = Lap(pool', {pool.keys[i].id})
  /\ UNCHANGED <<strategy, removals, rest, astray>>

Succeed(r) ==
  /\ flight[r] # Idle
  /\ pool' = MarkSuccess(pool, flight[r].pos)
  /\ flight' = [flight EXCEPT ![r] = Idle]
  /\ lap' = Lap(pool', {})
  /\ UNCHANGED <<strategy, removals, rest, astray>>

Fail(r) ==
  /\ flight[r] # Idle
  /\ pool' = MarkError(pool, flight[r].pos)
  /\ flight' = [flight EXCEPT ![r] = Idle]
  /\ lap' = Lap(pool', {})
  /\ UNCHANGED <<strategy, removals, rest, astray>>

\* The index a request holds leads to the entry it took.
LeadsHome(h) == h.pos \in DOMAIN pool.keys /\ pool.keys[h.pos].id = h.id

\* The provider answers 429 to request r.
HitLimit(r) ==
  /\ flight[r] # Idle
  /\ pool' = MarkRateLimited(pool, flight[r].pos)
  /\ flight' = [flight EXCEPT ![r] = Idle]
  /\ rest' = [rest EXCEPT ![flight[r].id] = BackoffTicks]
  /\ astray' = IF LeadsHome(flight[r]) THEN astray ELSE BackoffTicks
  /\ lap' = Lap(pool', {})
  /\ UNCHANGED <<strategy, removals>>

\* The admin adds a key, as an entry the pool does not have.
AdminAdds(k) ==
  /\ Len(pool.keys) < MaxKeys
  /\ \A i \in DOMAIN pool.keys : pool.keys[i].id # k
  /\ pool' = AddKey(pool, k)
  /\ lap' = Lap(pool', {})
  /\ UNCHANGED <<strategy, flight, removals, rest, astray>>

\* The admin removes the key at position i.
AdminRemoves(i) ==
  /\ removals < MaxRemovals
  /\ i \in DOMAIN pool.keys
  /\ pool' = RemoveKey(pool, i)
  /\ removals' = removals + 1
  /\ astray' = BackoffTicks
  /\ lap' = Lap(pool', {})
  /\ UNCHANGED <<strategy, flight, rest>>

Tick ==
  /\ pool' = Rested(pool)
  /\ rest' = [k \in KeyIds |-> IF rest[k] > 0 THEN rest[k] - 1 ELSE 0]
  /\ astray' = IF astray > 0 THEN astray - 1 ELSE 0
  /\ lap' = Lap(pool', {})
  /\ UNCHANGED <<strategy, flight, removals>>

Next ==
  \/ \E r \in Requests :
       \/ \E i \in Positions : Take(r, i)
       \/ Succeed(r)
       \/ Fail(r)
       \/ HitLimit(r)
  \/ \E k \in KeyIds : AdminAdds(k)
  \/ \E i \in Positions : AdminRemoves(i)
  \/ Tick

Spec == Init /\ [][Next]_vars

-----------------------------------------------------------------------------
(* A request holds an index, not a key (key_pool.py:54-82).  As long as no  *)
(* key has been removed, the index still leads to the key the request used, *)
(* so what is reported of the call is recorded of that key.                 *)
ReportsReachTheirKey ==
  removals = 0 =>
    \A r \in Requests : flight[r] # Idle => LeadsHome(flight[r])

(* What comes of "When a key receives a 429 (rate limited) from the         *)
(* provider, it is temporarily backed off" (admin-guide.md:334).  Not the   *)
(* key but the entry that was used is backed off: the key's other entry is  *)
(* handed out meanwhile.  An entry is not handed out for a whole backoff    *)
(* after its last 429, whatever requests, additions and time do.  A removal *)
(* leaves backoffs, and the indexes that requests hold, where they were     *)
(* while the entries move up (key_pool.py:156-167); the entries rest again  *)
(* once a backoff has passed since the last removal and since the last      *)
(* report that went to another entry.                                       *)
BackedOffEntryRests ==
  astray = 0 => \A i \in Eligible(pool) : rest[pool.keys[i].id] = 0

(* An unhealthy key nobody holds has been retired for good: nothing but a   *)
(* late success revives a key (key_pool.py:97-103), there is no recovery   *)
(* timer as the circuit breaker has, and no admin operation to revive it.   *)
Retired(p, fl) ==
  {p.keys[i].id : i \in {j \in DOMAIN p.keys :
     ~ p.keys[j].healthy /\ \A r \in Requests : fl[r] # Idle => fl[r].pos # j}}

RetiredStaysRetired ==
  [][removals' = 0 => Retired(pool, flight) \subseteq Retired(pool', flight')]_vars

(* Round robin is a rotation under any interleaving of requests: a key is   *)
(* not handed out again before every other eligible key has had its turn,   *)
(* as long as the same keys stay eligible (key_pool.py:74-77).              *)
RoundRobinTakesTurns ==
  [][strategy = "round_robin" =>
       \A r \in Requests :
         flight[r] = Idle /\ flight'[r] # Idle => flight'[r].id \notin lap]_vars
=============================================================================
