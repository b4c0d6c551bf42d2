# A TLA+ model of onPrem LLM Sentinel

onPrem LLM Sentinel is a gateway between the users of an organisation and the
providers of language models. It is one FastAPI application: asyncio, a single
thread in each worker, Redis or an in-memory store for what workers share, and
an SQL database. This directory holds TLA+ specifications of its core, the TLC
configurations that check them on small instances, and proofs checked by TLAPS.

Paths are relative to `src/`.

## The system

| part | state | operations | what is hard | what makes it correct |
|---|---|---|---|---|
| circuit breaker, `circuit_breaker.py` | per (provider, key index): state, failure count, two times | `is_available`, `record_success`, `record_failure`, `reset`, reads by the admin page | OPEN becomes HALF_OPEN when somebody looks; answers arrive in a state other than the one that let the request through | count and state agree; opens on a streak; probes only after quiet; an outage is always probed |
| key pool, `key_pool.py` | per provider: a list of keys with counters and health, a rotation counter, backoffs by index | `get_next_key`, `mark_*`, `add_key`, `remove_key` | callers hold an index over an await while the list changes | reports reach the key they are about; what was used rests after a 429; rotation is fair |
| stored keys, `key_pool.py`, `main.py` | a table, its encryption, and a copy of it in every worker | seeding, two loads at startup, adding, removing, re-encryption | several workers start, crash and rotate at once; memory and database are changed in two steps | every key can be read; a removed row stays away; no row is left under an old secret |
| LLM proxy, `llm_proxy.py` | none of its own: loops over the pools and breakers of all requests | chat and stream with retry and fallback, embeddings, list of models; `resolve_model`, `truncate_messages` | eight ways out of a call, each reporting to pool and breaker; retries and sleeps interleaved with other requests | bounded calls, no provider twice, no call after the end, pool and breaker agree, no request hangs |
| chat handler, `main.py` | statistics | rate checks, quota, sanitising, guardrails, truncation, cache, slot, session, proxy, accounting | a request is released, finished or cancelled at any await; streams outlive their handler | slots and sessions are given back; usage stays within the quota up to what is in flight |
| rate limiter, `rate_limiter.py` | sorted sets in the store, a semaphore, counters | sliding windows, slots, active requests | remove, count and insert are separate awaits | a window holds its limit, up to what is in flight; slots are conserved |
| live sessions, `session_manager.py` | sessions, subscribers, copies in the store | register, update, close, delayed removal, cleanup, broadcast | four writers of one entry; broadcasts and snapshots overtake each other | the list tells the truth about what is running, the pages show the list |
| store, `redis_client.py` | keys with expiry, sets, sorted sets | the calls of the other parts | expiry between two calls | as Redis |
| tokens, `auth.py` | revoked tokens, sessions of a user, refresh tokens | login, refresh, logout, password change, revocation | every one of them is a row of awaits | a refused token stays refused; a password change ends the old sessions |
| lockout and bans, `auth.py`, `security.py` | counters and marks with expiry | three login paths, middlewares, unban | check before the await, count after it | a full count locks; a lock and a ban end |
| cache, `caching.py` | cached answers | lookup, store, invalidate | a store after an invalidation | (see below) |
| clients and costs, `clients.py`, `cost_tracker.py` | clients, usage, rates | CRUD, quota, usage record | check before the call, record after it | usage within quota, up to what is in flight |
| guardrails, filter, aliases, `guardrails.py`, `data_filter.py`, `filter_db.py`, `model_alias.py` | three tables and one list of patterns in memory | evaluate, mask, resolve, CRUD, reload, import | pipeline order, edits while a request waits for the guard | what is sent satisfies the policies that were read, and masking survives |
| providers, `providers/` | - | conversion of messages, HTTP | one system prompt or several | the prompts of the policies reach the provider |
| configuration, storage, alerts, audit, logs, metrics, backup, startup, admin page | mostly none | input and output | - | see "Not modelled" |

How they interact: the chat handler calls the rate limiter, filter,
guardrails, quota, cache and session manager in turn and then the proxy. The proxy
asks a provider's pool for a key and the breaker of (provider, index) for
permission, awaits the provider, and reports the outcome to both. The admin
endpoints change pools, breakers and tables while requests are in flight.
Everything in a worker shares one event loop, so what lies between two awaits is
atomic, and every await lets any other request run. Workers share the store and
the database.

## What is modelled

| module | models | code |
|---|---|---|
| `Breaker` | class `CircuitBreaker`: its methods as operators on a record | `circuit_breaker.py` |
| `CircuitBreaker` | the manager's breakers under concurrent requests, admin and time | `circuit_breaker.py`, its callers |
| `Pool` | class `ApiKeyPool`: its methods as operators on a record | `key_pool.py` |
| `KeyPool` | one pool under concurrent requests, admin and time | `key_pool.py`, its callers |
| `KeyStore` | one provider's rows and every worker's copies of them, with crashes and rotation of the secret | `key_pool.py`, `main.py` lifespan, `config.py` |
| `Failover` | abstract: what a request may do to the providers | - |
| `LLMProxy` | the four loops over all pools and breakers; refines `Failover` | `llm_proxy.py` |
| `Store` | the calls of the key-value store, as operators on one key | `redis_client.py` |
| `AuthSessions` | token pairs, session limit, refresh, logout, revocation, password change | `auth.py` |
| `Admission` | bans, lockout, sliding windows | `security.py`, `auth.py`, `rate_limiter.py` |
| `Policies` | masking, aliases, policies, truncation, output policies, admin's edits, reload, import | `main.py`, `guardrails.py`, `data_filter.py`, `filter_db.py`, `model_alias.py`, `llm_proxy.py`, `config_export.py` |
| `Adapters` | which messages each adapter sends | `providers/*.py` |
| `Gateway` | quota, cache, live sessions, slot, call, accounting, streams, cleanup | `main.py`, `rate_limiter.py`, `session_manager.py`, `caching.py`, `clients.py`, `cost_tracker.py` |
| `Dashboard` | live sessions call by call: copies in the store, broadcasts, subscriptions, what the pages show | `session_manager.py`, `main.py` ws_sessions, `static/admin.html` |
| `Parts_proofs` | lemmas about the operators of `Breaker` and `Pool`, and on recursive definitions | - |
| other `*_proofs` | theorems about `CircuitBreaker`, `KeyPool`, `LLMProxy`, `KeyStore`, `AuthSessions`, `Admission`, `Policies`, `Gateway` and `Dashboard` (in `Gateway_proofs`) | - |
| `MC*` | instances for TLC | - |

`Breaker`, `Pool`, `Store` and `Adapters` are one operator per method, so the
state machines that use them cannot differ about what a method does.

A chat passes through four modules: `Admission` (its windows), `Policies`
(what becomes of its messages), `Gateway` (its resources) and `LLMProxy` (the
call). They share no variable, since in the code these stretches share no state
but the request's own; each is checked with everything else that works on the
same state. `Policies` needs one request only, as requests share nothing there;
in the others two or three meet.

**Time.** Nothing in the code compares two absolute times other than by their
difference to now. `Breaker` keeps the age of `_opened_at` and of
`_last_failure_time`, frozen at `Recovery`; `Pool` keeps what is left of a
backoff; `Store` keeps what is left of a key's time to live, with `Gone` for no
entry and `Forever` for one without expiry. `Tick` moves all of them. A request
at an await may see any number of ticks.

**Breaker.** `state` is a property: reading it turns an OPEN breaker whose wait
is over into a HALF_OPEN one, so `Ask` (is_available), `Observe` (the admin
page's list) and nothing else make that step; `RecordSuccess` and
`RecordFailure` look at the stored state. A breaker nobody has asked for is in
the state `get_breaker` would create it in. In `CircuitBreaker`, `Ask` lets a request go
upstream or refuses it, and `Succeed`, `Fail` and `Drop` (a 429, or a stream
that its client left) are its end, at any later time.

**Pool.** The list, the backoffs by index and the rotation counter are as in
the code. `get_next_key` is `NextKeys` (the positions it may return; a set, for
the random strategy) and `Picked` (the counter). A key of the model is an
entry of `_keys`. `error_count` is frozen at the only number it is compared
with; the counter is kept modulo a multiple of every possible pool size;
`usage_count` is frozen at `MaxUsage`, above which any of the least used keys
may come first. The startup loads the table twice (`main.py:113`, `114`), so a pool begins as
`FirstLoad \o SecondLoad`, with two entries for each stored key. Entries are what rests and what
is retired, in the code and in the model; that the *key* does not rest is among the divergences below.

**Stored keys.** A step of `KeyStore` is what one transaction reads or commits.
A ciphertext is the number of the secret that made it; `Opens` is `_decrypt_key`
with its two secrets and its fall-back to the text itself. A worker walks
through its lifespan (count, seed, load twice, re-encrypt), serves, and may crash
between any two steps. `Rotate` is the operator, who changes the secret with the
server stopped, after it has been up under the last one, as
`docs/admin-guide.md` tells.

**Proxy.** `turn` names the request whose code is running. `Start` runs a
request to its loop; `MoveOn`, `Skip`, `Dial` and `GiveUp` are one iteration
each and keep the turn until the request awaits something or ends. The
provider's answers (`Answered`, `RateLimited`, `Rejected`, `ServerError`,
`Chunk`, `StreamError`, `EmbedAnswered`, `EmbedFailed`, `Listed`), the end of a
sleep (`Wake`) and the client's departure (`Leave`) are possible when nobody
runs. The four kinds of request differ as in the code: only chats and streams
heed breakers; only chats retry at a provider; only chats treat a 429 apart;
`list_all_models` reports nothing to anyone. An adapter that cannot be built
(an unknown provider) and the cancellation of anything but a stream are left out.
`AdminAdds` and `AdminRemoves` change a pool whenever nobody runs, with requests in flight on
its indexes; the breakers stay where they were. `inherited` is a history
variable: the indexes whose breaker had counted failures when a removal or addition gave
them another key, until the breaker next forgets. `PoolOrder`, the order in which pools were
first used, is fixed.

**Contract.** `Failover` knows neither keys nor breakers: a request visits the
providers of its route in order, makes a bounded number of calls to each, one
at a time, never goes back, and settles once, unsuccessfully only when the
route is used up. `LLMProxy!KeepsContract` states that the proxy implements it,
under the mapping `View`.

**Sessions.** A pair is an access token (its jti) with its refresh token. `req`
holds what a request has read and not yet used: the count, the queue of sessions
to evict, the set to revoke. `create_token_pair` is `CountSessions`,
`RankSessions`, `MarkOldest`/`UnlistOldest` for each, `Mint` (the entry in the set),
`KeepSessions` (the set's expiry), `DatePair` and `KeepDates` (the same for the list by age)
and `ReturnPair`; each is one await, and other requests and time come in between. A set that has
run out is gone with its expiry, so a first entry makes one without expiry, as in Redis.
`orphans` is a history variable: the sessions that the user's list lost although nobody took
them out. There are two ways. A password change drops the whole list with those it has never
read (`auth.py:904`); and a list may run out between the entry of a new session (`auth.py:163`)
and the renewal of its expiry (`auth.py:164`), taking the entry along. Both need a login under way.

**Admission.** A request enters past the ban of its address, and then logs in by
name (lockout, password, count, expiry, lock: five awaits), logs in through the
directory, or goes through the chain of windows (trim, count, entry: three awaits
each). The failures of an address and the entries of a window are lists of times in the
code; the model keeps how many there are of each age, which is all that is asked of
them (`CountIn`). A request remembers when it read the clock, since entries carry
that reading and not the time they are made at.

**Policies.** A text is the set of words that a filter or policy looks for. A
message has a role, an author (the client, or the policy that put it there) and
is a string or a list of parts. `Judge` is one policy of `evaluate_request`,
`GuardAnswers` the end of a call to the AI guard, during which admins edit the
tables. `Send` is `LLMProxy.chat` up to the adapter, with the second
`resolve_model` that only the native format makes. The answer goes through
`evaluate_response`, whose result the handler drops, as `FilterAnswer` does.
Texts of the same words are equal: an inject policy takes out every system message that says
what it says (`Says`), the client's and other policies' too. A policy of the model is a version of a row, with
its name, place, clients and configuration. The table holds at most one version of a name
(`Named`, `db.py:429`), and `UpdatePolicy` puts one in the place of another of the same type.

**Gateway.** A request holds `active`, a live session and (in `InSlot`) the slot.
`Fail` is an exception at any await in the slot, `Abandon` a client that leaves
before the first chunk, when no `finally` runs. The removals of
`session_manager.py` are actors of their own: `DelayedRemove` and the cleanup,
which first lists what is stale and then pops it without looking again. A request
identifier is used again only when nothing refers to it any more. `ended` is a history
variable: how the identifier's last request came to its end. With it `LedgersTellTruth` says of a request
that is over what the lists may still show: "done" only if it was answered, "error" only if it failed,
"streaming" only if its stream was abandoned before the first chunk.

**Dashboard.** `Gateway` takes a call on the session manager as one step; `Dashboard` is the
same manager between its awaits. A call (`StartSession`, `UpdateSession`, `CloseSession`)
changes the object, saves a copy (`SaveSession`, which may fail unnoticed; a close saves
none) and sends to the sockets there were (`SendUpdate`), of which the lost are
discarded at its end (`EndBroadcast`); with the store behind a network each of these awaits may suspend. The
calls of one chat come one after another, those of different chats interleave. `CutOff`
is the cancellation of a stream inside a call, and only there, since the handler itself runs
to its end. `Subscribe`, `ListCopies`, `ReadCopy` and `SendSnapshot` are the stretches of
`subscribe`: the live list is read before the first await, the statuses of its objects after
the last, and the copies in between. `picture` is a page's `_liveSessions`, once it has read what was
sent; a page keeps it over a reconnection. The deletion of a copy and its expiry are one
action, `DropCopy`, possible at any time. There is one worker: another worker's sessions
would be in the snapshot and hear no update.

## What the runs check

| run | instance | states | shows |
|---|---|---|---|
| `breaker` | 2 providers, 1 index, 3 requests, threshold 2, recovery 2 ticks | 63,834 | `QuietBeforeProbe`, `ChangesAreEarned`, and under fairness `OutageIsProbed` |
| `pool` | the 2 entries of a stored key and a third one, 2 requests, one removal, backoffs of 2 ticks, all three strategies | 3,907,291 | `ReportsReachTheirKey`, `BackedOffEntryRests`, `RetiredStaysRetired`, `RoundRobinTakesTurns` |
| `keystore` | 2 workers, 2 keys, one of them in the environment, 3 row ids, 3 secrets | 309,127 | `KeysReadable`, `RotatedBeforeServing`, `RemovedStaysRemoved`, `SeedsAreFew` |
| `proxy` | a provider with the 2 entries of a key and one with none, 2 requests of any kind, one addition or removal, 2 tries, breaker threshold 2, key threshold 2 | 687,675 | `KeepsContract` (the refinement), `BreakerCountsKeyErrors`, `OpenBreakerSheds`, and under fairness `EveryRequestSettles` |
| `auth` | 1 user, limit of 1 session, 2 requests, 2 pairs, tokens of 2 ticks | 692,982 | `LiveIsListed`, `RejectedStaysRejected`, `OldestFirst`, `ChangeEndsOldSessions` |
| `admission` | 1 address, 1 name, 2 requests, lock and ban at 2 failures for 2 ticks, windows of limit 1 and 2 | 1,488,892 | `FullCountLocks`, `OvershootIsInFlight`, `BanMatchesFailures`, and under fairness `LockEnds` |
| `gateway` | 2 requests, quota 1, 1 slot | 247,596 | `QuotaOvershootIsInFlight`, `LedgersTellTruth`, and under fairness `QueuedIsServed` |
| `policies` | 9 policies, two of them versions of one row, 18 inputs, 1 edit, 1 reloading admin | 3,176,464 | `FilteredBeforeUse`, `OneVersionJudges`, `PromptsReachProvider` |
| `dashboard` | 1 session, 2 pages | 3,199,268 | `PictureIsCurrent`, `PicturesGoForward` |
| `stream_one_source` | streams only | violated | a broken stream goes on with another provider's answer |
| `session_limit` | as `auth` | violated | logins leave more live sessions than the limit |
| `injected_prompt` | as `policies` | violated | a client's system message displaces the injected one at adapters with one system prompt |

Each passing run also checks its module's `TypeOK` (`KeyStore`'s is `TableTypeOK`, `Dashboard`'s
`BoardTypeOK`). The last three state a sentence of the documentation or of a
docstring, quoted in `PROJECT.json`, that the code does not keep.

What the properties say beyond their names stands above each in its module.
Several have exceptions. These are what the code does, and a property with an exception shows
that nothing else goes wrong; it does not catch what it excepts:

- `ReportsReachTheirKey` and `RetiredStaysRetired` hold until the first removal of a key;
  `BackedOffEntryRests` again when a backoff has passed since the last removal and the last
  report that went to another entry (`astray`).
- `BreakerCountsKeyErrors` except breakers that count failures from before the present key came to
  their index (`inherited`).
- `LiveIsListed` and `ChangeEndsOldSessions` except tokens their list had lost in one of the two
  ways above (`orphans`).
- `LedgersTellTruth` except streams abandoned before the first chunk, which stay in the live
  list and among the active requests for ever (`main.py:449`), answered requests, which stay active
  (`main.py:434`), and requests that waited beyond the cleanup's age, which are missing from the list.
- `FilteredBeforeUse` judges by the patterns loaded when the request arrived, current or not,
  and speaks of messages, not of the native format's system prompt.
- `OneVersionJudges` except parts, emptied messages and models that are aliases; `PromptsReachProvider`
  except emptied messages, prompts that a later policy replaces or puts there again in its own
  name, and, where an adapter has one system prompt, those that only go in front.
- `PictureIsCurrent` and `PicturesGoForward` except sessions registered while a
  snapshot was read (`overtaken`), and the first also cancelled streams (`cut`).

The two "in flight" properties are the limits the code really
gives: checks and records are awaits apart, and what overtakes is at most one
step per concurrent request.

**Bounds, and why they are enough.** Two requests give every order of two
calls' steps; the breaker run has three, so that two late answers can
meet a probe. A threshold of 2 (`Threshold`, `ErrorThreshold` of `proxy`,
`LockAt`, `BanAt`) is the least with a count between empty and full, a time of 2
ticks (`Recovery`, `Life`, `LockTime`, `BanTime`, `Window`, `StaleAge`) the least
with a moment inside it. Three pool positions are needed for a removal in the
middle and an addition; one removal (`MaxRemovals`) suffices for an index to go
stale. The pool starts with the two entries of one stored key, and a second key can be added. In `proxy` too
one provider starts with both entries of a key, on two breakers, and the other without a key until the admin
adds one; one edit (`MaxEdits`) is an addition or a removal at any moment, under requests that hold an
index. There the fallback chain contains a provider twice, which for some requests is the
one asked for, so that a request reaches the same provider first or by fallback;
two tries separate a retry from the last attempt, which does not sleep;
its random strategy includes the choices of the other two. Each
request of `proxy` makes one call and is over; the state its predecessors may
leave in pools and breakers is what the other request leaves. `auth` has as
many pairs as one login more than the limit needs (`MaxSessions` 1); `Slack` 0 is the
hardest case for a list that must outlive its tokens. `MaxStall` bounds the
ticks between a window's clock reading and its entry: 1 lets a reading be older
than a later one. `Quota`, `Slots`, `CacheTtl`, `RemoveDelay` of 1 are exhausted at
once. `LastSecret` 3 allows two rotations, after which a row under the first
secret would open no more; three row ids are both workers' seeds and an
addition. `MaxMessages` 2 is exceeded by the inputs with three messages and by
two with a prompt in front; one edit (`MaxEdits`) suffices as an edit matters by where it
falls between two reads, and the table starts in any state a startup leaves. In
`dashboard` one session suffices, as no action or property relates two; the two pages
let a broadcast stop between its sends while the other page is lost, returns or reads its snapshot.

Requests, pairs, keys, workers or row ids that are interchangeable are reduced by symmetry in
`pool`, `keystore`, `auth` and `dashboard`; runs with fairness use none.

**Fairness.** `CircuitBreaker` assumes that time passes and that somebody keeps
reading the breakers: the admin page polls them, and each request reads the one
it is offered. No answer and no reset is assumed. `LLMProxy`, `Admission` and
`Gateway` assume that a request that has begun goes on (`Continue`, `Handle`):
the event loop runs what is ready, sleeps end, the store and the database answer
or raise, and each adapter is built with a timeout (`llm_proxy.py:512`), so every
call ends. A stream of `LLMProxy` is assumed to end, fail or be left, which follows as
chunks do not change the state for ever in the model; that a provider sends
chunks without end is excluded by its token limit. `Gateway` asks nothing of
streams, which run outside the slot. `Admission` also assumes that time
passes. Nothing is assumed of the admin, of the arrival of requests, or of the
removals.

## What is proved

Each state machine's `*_proofs` module has an `Invariance` theorem, for an inductive invariant
`IInv` that implies the module's invariants, and the properties as its
consequences. All constants are arbitrary under the module's named assumption.

`CircuitBreaker_proofs` (`BreakerAssumption`: threshold and wait are positive;
`CircuitBreakerAssumption`: `Idle` is not a cell):

- `TypeCorrect`, `QuietBeforeProbeHolds`, `ChangesAreEarnedHolds`.

The invariant is local to one breaker: `Sound(b)` is the type, the agreement of
count and state, and two facts that make it inductive. `QuietBeforeProbe` by
itself is not: the step into HALF_OPEN looks at the age of the opening, not of
the last failure, so one needs that in OPEN the two are equal, which holds
because a failure in OPEN, being past the threshold, starts the wait over. And
the count alone does not tell how it was reached, so `IInv` adds that a CLOSED
breaker's count is its streak; `ChangesAreEarned` follows. A lemma for each
operator of `Breaker` (`Parts_proofs`) shows that it preserves `Sound`; the state machine only
applies these operators, which is `NextIInv`. `StateChange` lists what can
change a breaker's state, from which the action properties follow.

`Keys_proofs`, first part (`PoolAssumption`: the numbers are positive and the counter's
period is a multiple of every pool size; `KeyPoolAssumption`: the two loads give
entries of their own, that fit):

- `TypeCorrect`, `ReportsReachTheirKeyHolds`, `BackedOffEntryRestsHolds`,
  `RetiredStaysRetiredHolds`, `RoundRobinTakesTurnsHolds`.

`ReportsReachTheirKey` and `RetiredStaysRetired` end with the first removal, and their invariant with
them. `BackedOffEntryRests` compares the rest of an entry with the backoff of an index, and
goes on: `Covered` says that each entry's rest is at most its index's backoff or at most `astray`,
what is left of the time in which a removal may still show. A 429 keeps
that if the report goes to the right index (`Aimed`) and no other index holds the same entry (`Distinct`), and
otherwise sets `astray` to a whole backoff, as a removal does, which covers every rest there can be; a tick
takes from all three alike. An added entry keeps it only if it does not rest already (`RestingInPool`). One
lemma for each operator of `Pool` (`Parts_proofs`) says which keys, places and
backoffs it leaves alone. `RetiredStaysRetired` follows position by position
(`RetiredStep`): only `mark_success` sets a key healthy, and nobody holds the
index of a retired one.

`RoundRobinTakesTurns` holds after removals too, and has an invariant of its own
(`Rotates`): the lap is the keys whose turns were the last k, for a k below their number.
How long ago a turn was is read off the counter's remainder by the number m of
eligible keys and the key's rank among them (`Ago`); the key whose turn it is had its last m
turns ago, so it is not in the lap. `Ranks` shows that ranks are different and below m,
`PickedTurn` that the remainder goes round, over the wrap of the model's counter too,
`RankSame` that ranks stay while the same keys are eligible: no operation changes the
order of the keys it leaves (`OrderOfSameKeys`, `OrderOfMoreKeys`, `OrderOfFewerKeys`).

`Keys_proofs`, second part (`KeyStoreAssumption`: the environment's keys are keys, there is
a secret to move to, the workers are finite in number):

- `TableTypeCorrect`, `KeysReadableHolds`, `RotatedBeforeServingHolds`,
  `RemovedStaysRemovedHolds`, `SeedsAreFewHolds`.

Both parts are about `key_pool.py`; so that one module can extend both state machines,
what would have the same name in `KeyStore` as in `KeyPool` has `Table` in front
(`TableInit`, `TableNext`, `TableSpec`, `TableTypeOK`).

That every key can be read depends on what the operator may assume. `TableSound` says:
rows are written only under the present secret, so that after a change of secret
all rows are under the last one or none (`RowsSound`); and a worker that is about
to commit a re-encryption knows every stale row, so that a worker that serves has
left none (`WorkerSound`). For `SeedsAreFew` the rows of an environment key and the
workers about to insert it are together never more than the workers
(`SeedsBounded`): a worker is among these only if it found the table empty.

`LLMProxy_proofs` (`LLMProxyAssumption`: routes and pools are of providers and keys,
the providers are finite in number, the order of the pools, keys of a dict, has no
repeats; `LLMProxyBounds`: the breaker's count is frozen no later than the key's,
without which the two frozen numbers could not be compared):

- `TypeCorrect`, `BreakerCountsKeyErrorsHolds`, `OpenBreakerShedsHolds`,
  `KeepsContractHolds`.

The code builds a route by a loop that leaves repeats out. The model writes the loop
as a recursive function on the number of passes (`providers_to_try`), and that its
routes have no repeats (`RouteOnce`), and so are no longer than there are providers
(`RouteBounded`), is proved by induction over the passes, from two lemmas of
`Parts_proofs`: a set of numbers with 0 and every successor has them all
(`Induction`), and a recursive definition over 0..n defines what it says
(`Recursion`). Without that bound the contract's count of calls would have no limit.
`IInv` separates what requests share (`SharedSound`: sound breakers,
well-formed pools, `BreakerCountsKeyErrors`) from each request (`ReqSound`): one
that is under way has called its provider no more often than it has spent attempts
there, and one more while the call lasts, which is why a skipped key or a sleep never
allows an extra call. One lemma for each transition of a request's record shows
that it stays sound and what `Failover` sees of it; one for each call on pool and
breaker shows that the shared state stays sound, since only `RecordFailure` counts
and is always accompanied by `MarkError` on the same index, or finds no key there. `AgreementKept` is what these
keep of `BreakerCountsKeyErrors`; `AdditionShared` and `RemovalShared` show that the admin breaks it only at
indexes that are then `inherited`. `Goes(r, n)` puts
these together for each action: the request's step is a step of the contract
(`StepsTo`), and a call that begins to wait finds its breaker not OPEN
(`LetThrough`). The refinement and `OpenBreakerSheds` follow from it.

`AuthSessions_proofs` (`AuthAssumption`: at least one session is allowed, tokens
live, `Nobody` and `NoPair` are neither users nor pairs):

- `TypeCorrect`, `LiveIsListedHolds`, `RejectedStaysRejectedHolds`,
  `ChangeEndsOldSessionsHolds`, `OldestFirstHolds`.

`LiveIsListed` speaks of tokens somebody holds; it is inductive only from the
moment a pair is minted (`Listed`), and only if the set of sessions outlives the
tokens in it (`StoreSound`, `Outlives`): `Expire` gives it the lifetime of the newest. Between an entry and that
`Expire` there are two exceptions, which are all that may be in the way of it: the entry's own pair, which
nobody holds yet (`Unkept`), may outlive the set, and is an orphan if the set runs out; and a set that
has just begun has no expiry, while some login is about to give it one (`Expiring`). What
makes the interleavings harmless is `Monotone`, proved of every step: a minted
pair keeps its owner and, once refused, stays refused, because a mark is set for
the whole life of a token and only on minted pairs; and the list of sessions by
age only grows at its end or is emptied. So what a request has read stays good
for it while others go on (`ReqSound`, `OthersKeep`): the queue of an eviction
stays a queue of the oldest (`InOrder`), and a pair that a password change must
still end stays in its list. `PairsApart` keeps two logins from handing out the
same pair. `ChangeEndsOldSessions` and `OldestFirst` are what `ReqSound` says at
the last step of a change and at an eviction.

`Gateway_proofs` (`GatewayAssumption`: quota, slots and times are positive, the requests
are finite in number):

- `TypeCorrect`, `QuotaOvershootIsInFlightHolds`, `LedgersTellTruthHolds`.

A step moves one request in its code or none, and slot and quota are a matter of
counting requests by where they are (`Counted`, from the library's facts about
cardinality). `QuotaOvershootIsInFlight` is not inductive: `QuotaSound` adds to the usage
the requests that are past the check and have not recorded theirs, and that sum
grows only at the check, where usage is below the quota. `TypeCorrect` holds the
conservation of the slot (`SlotsSound`), and that a waiter waits once
(`QueueSound`), without which taking the head of the queue could leave the same
request in it. `LedgersTellTruth` needs, for each identifier (`LedgerSound`), that
a removal is scheduled only when its request is over, that what the cleanup has
found is old, that an identifier in use was clean when it was taken, and that `ended` is set by
the steps that end a request and by no other.

Its last part is about `Dashboard`, with no assumption on sessions or pages; the names differ
(`BoardInit`, `BoardNext`, `BoardSpec`) so that one module can extend both:

- `BoardTypeCorrect`, `PictureIsCurrentHolds`, `PicturesGoForwardHolds`, from `BoardInvariance`.

`PictureIsCurrent` follows from its own conjunct of `BoardInv` (`TruePicture`), which needs three more. A call has
as its message what the object says when it sends, and discards only what is not
connected (`ChatSound`). What a socket has not read of the live list was registered after it had
(`ReadSound`): subscribing before reading is what makes this true, as a session is either
in what was read or sent to the socket. And nothing a page shows, has read, or could read from
a copy is ahead of the session (`PageSound`), from which `PicturesGoForward` follows: a step
leaves a row, brings it up to the object, or lets it fade. `CallKept` is the beginning of
every call, `CallEnds` its regular or early end, and `SocketKept` says that a step of one socket has to
be shown sound for that socket only.

`Admission_proofs` (`AdmissionAssumption`: thresholds, times and limits are positive,
the chain of windows is not empty, the requests are finite in number):

- `TypeCorrect`, `FullCountLocksHolds`, `OvershootIsInFlightHolds`,
  `BanMatchesFailuresHolds`.

The limits are what they promise plus the requests in flight, so the argument counts
both: entries by their age (`CountOneMore`, `CountOlder`, `CountYoung`: what one
entry more, a tick, and forgetting make of the number of entries up to an age) and
requests by what they may still add. `TriesSound`: the tries of a name over the
number that locks are no more than the requests on their way to lock it (`Locking`).
`FailuresSound`: the failures of an address and the requests under way from it
(`Busy`) are together below the threshold plus the number of requests; the sum grows only where
a request is let in, that is without a ban, and then `BanSound` says that the
failures are below the threshold. `WindowSound` does the same for the entries of a window and the
requests that have counted, or will count, few enough (`Passing`). None of these is
inductive at the age the property speaks of, as a tick moves entries from one age to the next:
they are stated for every age below it. An action then has to show only one
of a few effects on each name, address and window (`TriesEffect`, `BanEffect`,
`WindowEffect`), and `Together` draws the conclusion.

`Policies_proofs` (`PoliciesAssumption`: patterns, seeded rows and configuration file are of
the model's words and aliases, the mark
of the client's messages is no policy's name, `None` is no model):

- `TypeCorrect`, `FilteredBeforeUseHolds`, `OneVersionJudgesHolds`,
  `PromptsReachProviderHolds`.

TLC checks nine policies and three messages; the theorems are about any list of
policies over any messages. What the code takes out of a list, one element after another,
is `Kept`, a recursive function. By induction over its passes, an element of the result is an
element of the list (`KeptSelects`), the order stays (`KeptOrder`), and `KeptCount` counts
what is taken, which is why the system messages and the budget of `Truncate` never ask for more than there is.

Three relations between two lists of messages carry everything. `Derives`: the client's
messages of the new list are some of the old ones, with the same role and form and with
fewer words; masking (`Masked`) survives it, and so does what a policy has found, as no
detection begins to find when words go (`DerivedText`, `FitsLess`). `Obeys` is what one policy owes:
its own condition, its prompt, and the prompts of the others unless it replaces or repeats them;
`Conveys` is what truncation and the native field owe. `ApplyObeys`,
`TruncateConveys`, `FieldConveys` and `AdaptedSends` prove these of the operators.

None of the properties is inductive, as they speak of the request when it is sent. `Judged` is the
invariant of the loop: the policies before those that are left have passed the messages as they
are *now*, after what the later of them did (`Fits`), and these carry the prompts
put in that none of the later took away (`Carries`). For that, a policy that replaces
all others needs more than its prompt to be there: it must be the last of the
system messages (`LastPrompt`), or an adapter with one system prompt would send another. A
policy's prompt may have lost words to a redaction before a later policy says the same, hence the inclusion in
`SystemPrompt` and `Repeats`. `judges` is set
once, where the table is read, and nothing in `Judged` speaks of the table: this is why edits while
the guard is asked are harmless, and why the mutant that reads the table again is not.

All invariants and action properties of the passing runs, and the refinement, are so proved
for every value of the constants. Only model-checked: the liveness properties
(`OutageIsProbed`, `EveryRequestSettles`, `LockEnds`, `QueuedIsServed`), as fairness is beyond
the prover.

## Where code and documentation part

Besides the three violated runs, the models reproduce these, which no
run of their own shows:

- HALF_OPEN lets any number of requests through; `docs/admin-guide.md:645` speaks of one.
- A 429 backs off one entry of a key, and the key's other entry, from the second load at startup
  (`main.py:113`, `114`), is handed out at once, where `docs/admin-guide.md:334` has the key
  "temporarily backed off". Errors that retire a key need not be consecutive, as they are there.
- After a removal a backoff, kept by index, holds back another key, and the breaker of the index
  counts the failures of the removed key against the next. A retry may take the key that
  just failed (`docs/user-guide.md:633`).
- The native format's `system` field is put in front of the messages after the
  policies have run, so it meets neither the filter nor an enforced prompt
  (`docs/admin-guide.md:442`, `516`); and `chat` resolves the model a second time
  after `model_restrict` has let it pass (`docs/admin-guide.md:467`).
- When policies empty the messages, the originals are sent (`main.py:402`). What
  the output filter returns is not used (`docs/admin-guide.md:487`).
  `max_output_tokens` is recorded and never enforced.
- A policy that injects what a client's own system message, or another policy's prompt, says
  moves it to the front (`guardrails.py:304`), behind which an adapter with one system prompt takes another.
- A stream that its client leaves before the first chunk stays "streaming" in the live list, which
  no cleanup removes (`main.py:449`), and an answered chat stays among the active requests (`main.py:434`).
- Answers to requests that asked for no cache are stored
  (`docs/user-guide.md:377`).
- After rotation "Pending = 0" (`docs/admin-guide.md:680`) is never reached when there
  are rows from before there was a secret: these are left as they are.
- `import_config` with `overwrite_existing` adds second rows instead of
  overwriting, fails on aliases, whose names are unique, and never imports policies.
- A password change revokes access tokens and leaves refresh tokens valid, where
  the comment at `auth.py:896` says "all existing tokens". `ChangeEndsOldSessions`
  is about access tokens. It also leaves valid an access token that the user's list has lost
  (`orphans`): when the list ran out between `auth.py:163` and `164` of its login, or was dropped meanwhile
  by another password change.
- The LDAP cache is read and not used (`auth.py:299`).
- A page's row may go back from running to queued, where `docs/admin-guide.md:802` has "queued
  → running → streaming → done/error", or vanish until the session's next update: `subscribe`
  adds the socket before it reads, so a session registered meanwhile is announced first and
  then read from its older copy, or not found. These are the sessions `overtaken` excepts.
- `close` does not save the session, so its copy says "running" or "streaming" until the
  removal, 30 s later, to the pages of other workers. These hear no updates at all after their snapshot,
  although the copies are there "for multi-worker visibility" (`session_manager.py:57`).
- A failure between the record of usage and its log entry counts the usage and
  logs nothing.

## What is not modelled

- Other workers' live sessions, in snapshots and in `list_sessions`, and the order of the rows.
- Token windows and client slots of the rate limiter: nothing uses their result.
- The AI's own behaviour: an answer, a guard's verdict or an error is any.
- Regular expressions, tokenisation, cost arithmetic: texts are sets of words,
  a message one unit of context, an answer one unit of quota.
- Request signatures, nonces, body limits, password rules, address binding, roles:
  filters on one request that share no state with others.
- `sync_to_redis`, `sync_from_redis`, `sync_health_to_db`: never called, so breakers
  and key health are per worker, as modelled.
- Loss of Redis and the change to the in-memory store; loss of the database other
  than as a failing transaction.
- Alerts, audit, logs, metrics, backups: written, and read by nothing here. The
  tools and the rest of the admin page have no state of their own.

The hazards listed in `PROJECT.json` that no property covers have the reason
beside them.

## Plan

Every module that was planned is there, and every safety property of the runs is proved. What would
come next, in this order:

1. Several workers in `Dashboard`: their sessions reach a page through copies only.
2. The loss of Redis while requests are under way, after which each worker has a store of
   its own (`redis_client.py`), in `AuthSessions` and `Admission`: marks and counts of before are
   out of reach.
