------------------------------ MODULE LLMProxy ------------------------------
(***************************************************************************)
(* The retry and fallback logic of llm_proxy.py over the key pools         *)
(* (key_pool.py) and circuit breakers (circuit_breaker.py) it shares       *)
(* between all requests.                                                   *)
(*                                                                         *)
(* The gateway is asyncio code: a request runs alone until its next await, *)
(* and only there do others run.  turn names the request that is running;  *)
(* it walks through its loop in steps of one iteration, and the awaits     *)
(* (a provider's answer, a retry sleep, a chunk handed to the client) are  *)
(* the states in which turn is Nobody.  Then the admin may add and remove  *)
(* keys, too, while requests hold indexes into the pools.  Breakers are    *)
(* kept by index and do not follow a key that moves up.                    *)
(***************************************************************************)
EXTENDS Breaker, Pool

CONSTANTS
  Providers,
  KeysOf,        \* the entries of each provider's pool, in order
  FallbackChain, \* settings.fallback_chain_list
  PoolOrder,     \* key_pool.providers, the order the pools were created in
  MaxRetries,    \* settings.MAX_RETRIES
  KeyRotation,   \* settings.KEY_ROTATION_STRATEGY
  Kinds,         \* kinds of request to check, of AllKinds
  MaxEdits,      \* bound on the keys the admin adds and removes
  Requests,
  Nobody

AllKinds == {"chat", "stream", "embed", "models"}

ASSUME LLMProxyAssumption ==
  /\ KeysOf \in [Providers -> Seq(KeyIds)]
  /\ \A p \in Providers : Len(KeysOf[p]) <= MaxKeys
  /\ FallbackChain \in Seq(Providers)
  /\ PoolOrder \in Seq(Providers)
  /\ \A i, j \in DOMAIN PoolOrder : PoolOrder[i] = PoolOrder[j] => i = j
  /\ MaxRetries \in Nat
  /\ KeyRotation \in Strategies
  /\ Kinds \subseteq AllKinds
  /\ MaxEdits \in Nat
  /\ Nobody \notin Requests
  /\ IsFiniteSet(Providers)

\* The two frozen counts can be compared: failures freeze first.
ASSUME LLMProxyBounds == MaxFailures <= ErrorThreshold

VARIABLES
  pools,
  breakers,
  turn,
  req,
  edits,      \* keys added and removed so far, at most MaxEdits
  inherited   \* history: cells whose breaker counts failures from before the
              \* entry there came to its index

vars == <<pools, breakers, turn, req, edits, inherited>>

Cells == Providers \X Positions

Outcomes == {"none", "ok", "rejected", "unavailable", "left"}

MostTries == IF MaxRetries > 1 THEN MaxRetries ELSE 1

\* One request: where it is in its code, its route of providers, the place
\* on it, attempts used there and the key of its last call there; and for
\* the properties the calls made there and the providers whose chunks its
\* client has seen.
ReqRecord ==
  [pc      : {"new", "loop", "calling", "sleeping", "done"},
   kind    : AllKinds,
   route   : Seq(Providers),
   at      : Nat,
   attempt : 0 .. MostTries,
   key     : Positions \cup {0},
   outcome : Outcomes,
   calls   : 0 .. MostTries,
   got     : SUBSET Providers]

NewReq ==
  [pc |-> "new", kind |-> "chat", route |-> << >>, at |-> 0, attempt |-> 0, key |-> 0,
   outcome |-> "none", calls |-> 0, got |-> {}]

TypeOK ==
  /\ pools \in [Providers -> PoolRecord]
  /\ breakers \in [Cells -> CircuitBreakerRecord]
  /\ turn \in Requests \cup {Nobody}
  /\ req \in [Requests -> ReqRecord]
  /\ edits \in 0 .. MaxEdits
  /\ inherited \subseteq Cells

\* providers_to_try: the provider asked for, then what the chain has in addition
\* to those before, one place of the chain after another.
Extended(s, fb) == IF Contains(s, fb) THEN s ELSE Append(s, fb)

providers_to_try[n \in 0 .. Len(FallbackChain)] ==
  [p \in Providers |->
     IF n = 0 THEN <<p>> ELSE Extended(providers_to_try[n - 1][p], FallbackChain[n])]

FallbackRoute(p) == providers_to_try[Len(FallbackChain)][p]

Route(kind, p) ==
  CASE kind \in {"chat", "stream"} -> FallbackRoute(p)
    [] kind = "embed"              -> <<p>>
    [] kind = "models"             -> PoolOrder

\* A retry loop of one attempt too many (mutant).
TriesOnceMore(kind) == IF kind = "chat" THEN MaxRetries + 1 ELSE 1

\* Attempts at one provider.
Tries(kind) == IF kind = "chat" THEN MaxRetries ELSE 1

\* create_embeddings and list_all_models do not ask the breaker.
HeedsBreaker(kind) == kind \in {"chat", "stream"}

Init ==
  /\ pools = [p \in Providers |->
                [EmptyPool EXCEPT
                   !.keys = [i \in DOMAIN KeysOf[p] |-> NewEntry(KeysOf[p][i])]]]
  /\ breakers = [c \in Cells |-> NewBreaker]
  /\ turn = Nobody
  /\ req = [r \in Requests |-> NewReq]
  /\ edits = 0
  /\ inherited = {}

-----------------------------------------------------------------------------
Here(r) == req[r].route[req[r].at]

Held(r) == <<Here(r), req[r].key>>

\* The coroutine returns or raises, and its locals are gone.
Finish(r, outcome) ==
  /\ req' = [req EXCEPT ![r] = [NewReq EXCEPT !.pc = "done", !.outcome = outcome]]
  /\ turn' = Nobody

Running(r) == turn = r /\ req[r].pc = "loop"

Under(r) == req[r].at <= Len(req[r].route)

\* A request arrives for provider p and runs to its first loop iteration.
Start(r, kind, p) ==
  /\ turn = Nobody
  /\ req[r].pc = "new"
  /\ turn' = r
  /\ req' = [req EXCEPT ![r] = [req[r] EXCEPT !.pc = "loop", !.kind = kind,
                                              !.route = Route(kind, p), !.at = 1]]
  /\ UNCHANGED <<pools, breakers, edits, inherited>>

\* No provider is left: 503 for a chat or stream, an error for embeddings,
\* and for the model list the end of the job.
GiveUp(r) ==
  /\ Running(r)
  /\ ~ Under(r)
  /\ Finish(r, IF req[r].kind = "models" THEN "ok" ELSE "unavailable")
  /\ UNCHANGED <<pools, breakers>>

\* Attempts used up, or no healthy key: on to the next provider.
MoveOn(r) ==
  /\ Running(r)
  /\ Under(r)
  /\ \/ req[r].attempt >= Tries(req[r].kind)
     \/ NextKeys(pools[Here(r)], KeyRotation) = {}
  /\ req' = [req EXCEPT ![r] = [req[r] EXCEPT !.at = @ + 1, !.attempt = 0, !.key = 0,
                                              !.calls = 0]]
  /\ UNCHANGED <<pools, breakers, turn>>

\* A loop that asks for another key without spending the attempt (mutant).
SkipForFree(r) ==
  /\ Running(r)
  /\ Under(r)
  /\ req[r].attempt < Tries(req[r].kind)
  /\ HeedsBreaker(req[r].kind)
  /\ \E i \in NextKeys(pools[Here(r)], KeyRotation) :
       /\ ~ IsAvailable(breakers[<<Here(r), i>>])
       /\ pools' = [pools EXCEPT ![Here(r)] = Picked(@, KeyRotation)]
  /\ UNCHANGED <<breakers, turn, req>>

\* The pool hands out a key whose breaker is OPEN; the attempt is spent.
Skip(r) ==
  /\ Running(r)
  /\ Under(r)
  /\ req[r].attempt < Tries(req[r].kind)
  /\ HeedsBreaker(req[r].kind)
  /\ \E i \in NextKeys(pools[Here(r)], KeyRotation) :
       /\ ~ IsAvailable(breakers[<<Here(r), i>>])
       /\ pools' = [pools EXCEPT ![Here(r)] = Picked(@, KeyRotation)]
       /\ req' = [req EXCEPT ![r].attempt = @ + 1]
  /\ UNCHANGED <<breakers, turn>>

\* The call goes upstream, and the request yields to the others.
Dial(r) ==
  /\ Running(r)
  /\ Under(r)
  /\ req[r].attempt < Tries(req[r].kind)
  /\ \E i \in NextKeys(pools[Here(r)], KeyRotation) :
       LET c == <<Here(r), i>> IN
       /\ pools' = [pools EXCEPT ![Here(r)] = Picked(@, KeyRotation)]
       /\ IF HeedsBreaker(req[r].kind)
            THEN /\ IsAvailable(breakers[c])
                 /\ breakers' = [breakers EXCEPT ![c] = ReadState(@)]
            ELSE UNCHANGED breakers
       /\ req' = [req EXCEPT ![r] = [req[r] EXCEPT !.pc = "calling", !.key = i,
                                                   !.calls = @ + 1]]
  /\ turn' = Nobody

-----------------------------------------------------------------------------
Awaiting(r, kinds) ==
  /\ turn = Nobody
  /\ req[r].pc = "calling"
  /\ req[r].kind \in kinds

\* Back to the loop with the attempt spent, without another await.
TryAgain(r) ==
  /\ req' = [req EXCEPT ![r] = [req[r] EXCEPT !.pc = "loop", !.attempt = @ + 1]]
  /\ turn' = r

\* mark_error and record_failure for the call that has failed.
Blame(r) ==
  /\ pools' = [pools EXCEPT ![Here(r)] = MarkError(@, req[r].key)]
  /\ breakers' = [breakers EXCEPT ![Held(r)] = RecordFailure(@)]

\* A chat's answer, or the regular end of a stream.
Answered(r) ==
  /\ Awaiting(r, {"chat", "stream"})
  /\ pools' = [pools EXCEPT ![Here(r)] = MarkSuccess(@, req[r].key)]
  /\ breakers' = [breakers EXCEPT ![Held(r)] = RecordSuccess(@)]
  /\ Finish(r, "ok")

\* A 429 that leaves the attempt unspent (mutant).
RateLimitedForFree(r) ==
  /\ Awaiting(r, {"chat"})
  /\ pools' = [pools EXCEPT ![Here(r)] = MarkRateLimited(@, req[r].key)]
  /\ req' = [req EXCEPT ![r].pc = "loop"]
  /\ turn' = r
  /\ UNCHANGED breakers

\* A 429 that the breaker hears of (mutant).
RateLimitedTripsBreaker(r) ==
  /\ Awaiting(r, {"chat"})
  /\ pools' = [pools EXCEPT ![Here(r)] = MarkRateLimited(@, req[r].key)]
  /\ breakers' = [breakers EXCEPT ![Held(r)] = RecordFailure(@)]
  /\ TryAgain(r)

\* 429 to a chat: the key backs off, the breaker hears nothing.
RateLimited(r) ==
  /\ Awaiting(r, {"chat"})
  /\ pools' = [pools EXCEPT ![Here(r)] = MarkRateLimited(@, req[r].key)]
  /\ TryAgain(r)
  /\ UNCHANGED breakers

\* Another 4xx to a chat: no retry.
Rejected(r) ==
  /\ Awaiting(r, {"chat"})
  /\ Blame(r)
  /\ Finish(r, "rejected")

\* Any other error of a chat: sleep before the next attempt if there is one.
ServerError(r) ==
  /\ Awaiting(r, {"chat"})
  /\ Blame(r)
  /\ IF req[r].attempt < MaxRetries - 1
       THEN /\ req' = [req EXCEPT ![r] = [req[r] EXCEPT !.pc = "sleeping"]]
            /\ turn' = Nobody
       ELSE TryAgain(r)

\* asyncio.sleep returns.
Wake(r) ==
  /\ turn = Nobody
  /\ req[r].pc = "sleeping"
  /\ TryAgain(r)
  /\ UNCHANGED <<pools, breakers>>

\* A chunk of a stream reaches the client.
Chunk(r) ==
  /\ Awaiting(r, {"stream"})
  /\ req' = [req EXCEPT ![r].got = @ \cup {Here(r)}]
  /\ UNCHANGED <<pools, breakers, turn>>

\* Any error of a stream, a 429 and one after chunks were sent included.
StreamError(r) ==
  /\ Awaiting(r, {"stream"})
  /\ Blame(r)
  /\ TryAgain(r)

\* The client of a stream has gone; neither pool nor breaker hears of it.
Leave(r) ==
  /\ Awaiting(r, {"stream"})
  /\ Finish(r, "left")
  /\ UNCHANGED <<pools, breakers>>

\* create_embeddings reports to the pool only, and never retries.
EmbedAnswered(r) ==
  /\ Awaiting(r, {"embed"})
  /\ pools' = [pools EXCEPT ![Here(r)] = MarkSuccess(@, req[r].key)]
  /\ Finish(r, "ok")
  /\ UNCHANGED breakers

EmbedFailed(r) ==
  /\ Awaiting(r, {"embed"})
  /\ pools' = [pools EXCEPT ![Here(r)] = MarkError(@, req[r].key)]
  /\ Finish(r, "rejected")
  /\ UNCHANGED breakers

\* list_models of one provider has returned, or failed: on with the next.
Listed(r) ==
  /\ Awaiting(r, {"models"})
  /\ TryAgain(r)
  /\ UNCHANGED <<pools, breakers>>

-----------------------------------------------------------------------------
\* The admin resets a provider's breakers, or looks at all of them.
Reset(p) ==
  /\ turn = Nobody
  /\ breakers' = [c \in Cells |->
                    IF c[1] = p THEN ResetBreaker(breakers[c]) ELSE breakers[c]]
  /\ UNCHANGED <<pools, turn, req>>

Observe ==
  /\ turn = Nobody
  /\ breakers' = [c \in Cells |-> ReadState(breakers[c])]
  /\ UNCHANGED <<pools, turn, req>>

\* Time passes while no request runs: between two awaits next to none does.
Tick ==
  /\ turn = Nobody
  /\ pools' = [p \in Providers |-> Rested(pools[p])]
  /\ breakers' = [c \in Cells |-> Older(breakers[c])]
  /\ UNCHANGED <<turn, req>>

\* The admin changes p's pool, but not the breakers beside it.
Edit(p, pool) ==
  /\ turn = Nobody
  /\ edits < MaxEdits
  /\ edits' = edits + 1
  /\ pools' = [pools EXCEPT ![p] = pool]
  /\ UNCHANGED <<breakers, turn, req>>

\* The admin adds a key, whose row is committed, to provider p's pool.
AdminAdds(p, k) ==
  LET c == <<p, Len(pools[p].keys) + 1>> IN
  /\ c \in Cells
  /\ Edit(p, AddKey(pools[p], k))
  /\ inherited' = inherited \cup {d \in {c} : breakers[d].failures # 0}

\* The admin removes the entry at position i of provider p's pool.
AdminRemoves(p, i) ==
  /\ i \in DOMAIN pools[p].keys
  /\ Edit(p, RemoveKey(pools[p], i))
  /\ inherited' = inherited \cup
       {c \in Cells : c[1] = p /\ c[2] >= i /\ breakers[c].failures # 0}

\* A breaker that has forgotten its failures has none from before.
Forgets ==
  /\ inherited' = {c \in inherited : breakers'[c].failures # 0}
  /\ UNCHANGED edits

Proceed(r) ==
  /\ \/ GiveUp(r) \/ MoveOn(r) \/ Skip(r) \/ Dial(r)
     \/ Answered(r) \/ RateLimited(r) \/ Rejected(r) \/ ServerError(r) \/ Wake(r)
     \/ Chunk(r) \/ StreamError(r) \/ Leave(r)
     \/ EmbedAnswered(r) \/ EmbedFailed(r) \/ Listed(r)
  /\ Forgets

Outside ==
  /\ (\E p \in Providers : Reset(p)) \/ Observe \/ Tick
  /\ Forgets

Next ==
  \/ \E r \in Requests, kind \in Kinds, p \in Providers : Start(r, kind, p)
  \/ \E r \in Requests : Proceed(r)
  \/ Outside
  \/ \E p \in Providers, k \in KeyIds : AdminAdds(p, k)
  \/ \E p \in Providers, i \in Positions : AdminRemoves(p, i)

\* A request that has started goes on: the event loop runs it, sleeps end,
\* and every provider call ends by an answer or by the adapter's timeout.
Spec == Init /\ [][Next]_vars /\ \A r \in Requests : WF_vars(Proceed(r))

-----------------------------------------------------------------------------
(* The request as its caller sees it: the abstract state of Failover.       *)
View(q) ==
  [at      |-> q.at,
   last    |-> Len(q.route),
   most    |-> IF q.pc \in {"new", "done"} THEN 0 ELSE Tries(q.kind),
   tries   |-> q.calls,
   waiting |-> q.pc = "calling",
   outcome |-> q.outcome]

Contract ==
  INSTANCE Failover WITH
    view     <- [r \in Requests |-> View(req[r])],
    MaxRoute <- Cardinality(Providers),
    MaxTries <- MostTries

(* Retries, skipped keys, 429s and fallback never make a request call a     *)
(* provider more often than its kind allows, return to a provider it has    *)
(* left, visit one twice, call anyone once it is settled, or report 503     *)
(* with providers left to visit (llm_proxy.py:477-623).                     *)
KeepsContract == Contract!Spec

(* The pool and the breaker judge a key by the same calls: a breaker never  *)
(* holds a failure that its key's error_count lacks, although the two are   *)
(* updated by separate calls on eight code paths of llm_proxy.py, the       *)
(* breaker forgets on success and reset, and the pool never does.  A        *)
(* removal moves keys to the breakers of others (key_pool.py:160), and a    *)
(* late report may reach a breaker with no key (llm_proxy.py:541): what a   *)
(* breaker had counted before its key came, it counts against the key until *)
(* its next success or reset, and no longer.                                *)
BreakerCountsKeyErrors ==
  \A p \in Providers : \A i \in DOMAIN pools[p].keys :
    <<p, i>> \notin inherited =>
      breakers[<<p, i>>].failures <= pools[p].keys[i].errors

(* While a breaker stays OPEN no further chat or stream is waiting on a key *)
(* at its index, whoever else runs in between (llm_proxy.py:509, 593).      *)
WaitingOn(c, rq) ==
  {r \in Requests : rq[r].pc = "calling" /\ HeedsBreaker(rq[r].kind)
                      /\ <<rq[r].route[rq[r].at], rq[r].key>> = c}

OpenBreakerSheds ==
  [][\A c \in Cells :
       breakers[c].state = "open" /\ breakers'[c].state = "open"
         => WaitingOn(c, req') \subseteq WaitingOn(c, req)]_vars

(* No request waits for ever, and the event loop is never held: whatever    *)
(* 429s, sleeps, open breakers and retired keys it meets, it is settled.    *)
EveryRequestSettles ==
  \A r \in Requests : req[r].pc # "new" ~> req[r].pc = "done"

(* "Streaming with retry on first chunk failure" (llm_proxy.py:576): a      *)
(* client that has been sent chunks of one provider is not sent another's.  *)
(* The fallback is taken after any failure, so this fails.                  *)
StreamHasOneSource ==
  \A r \in Requests : Cardinality(req[r].got) <= 1
=============================================================================
