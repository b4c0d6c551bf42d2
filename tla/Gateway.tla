-------------------------------- MODULE Gateway --------------------------------
(***************************************************************************)
(* The chat handler of main.py after its rate windows (Admission) and its  *)
(* policies (Policies): quota, response cache, live sessions, active       *)
(* requests, the global slot, the provider call (LLMProxy) and what is     *)
(* recorded of its answer.  One client, one set of messages: every request *)
(* has the same cache key.  A request identifier is used again once        *)
(* nothing in session_manager.py refers to it; a stored copy of a session, *)
(* which other workers read, is left out.                                  *)
(***************************************************************************)
EXTENDS Store, FiniteSets

CONSTANTS Requests,
          Quota,        \* daily_token_quota, one unit per answer
          Slots,        \* MAX_CONCURRENT_GLOBAL
          CacheTtl,     \* CACHE_TTL_SECONDS
          RemoveDelay,  \* close: 30 s
          StaleAge      \* cleanup_stale: 300 s

ASSUME GatewayAssumption ==
    /\ {Quota, Slots, CacheTtl, RemoveDelay, StaleAge} \subseteq Nat \ {0}
    /\ IsFiniteSet(Requests)

VARIABLES
    req,      \* the requests in progress
    usage,    \* table TokenUsage: the client's day
    free,     \* _global_semaphore._value
    queue,    \* its waiters, first come first served
    live,     \* SessionManager._sessions: the status, "none" without an entry
    age,      \* the time since started_at
    timer,    \* what is left until _delayed_remove acts, NoTimer without one
    sweep,    \* cleanup_stale: the sessions it has found and not yet popped
    active,   \* _active_requests
    ended,    \* history: how the last request of that identifier came to its end
    cache,    \* store: what is left of the entry under the key
    clearing  \* invalidate_cache has listed the keys and not yet deleted them

sessions == <<live, age, timer, sweep>>
slot == <<free, queue>>
memo == <<cache, clearing>>
account == <<active, ended>>
vars == <<req, usage, slot, sessions, account, memo>>

Idle == [pc |-> "idle", stream |-> FALSE, bypass |-> FALSE]
NoTimer == -1

Calling == {"call", "filter", "store", "rate", "record", "touch", "log", "finish"}
Failing == {"call", "filter", "rate", "record", "touch"}   \* where an await may raise
InSlot == {"run", "switch"} \cup Calling
Streaming == {"begin", "stream"}
Steps == {"idle", "quota", "lookup", "register", "queued"} \cup InSlot \cup Streaming

Init ==
    /\ req = [r \in Requests |-> Idle]
    /\ usage = 0
    /\ free = Slots
    /\ queue = << >>
    /\ live = [r \in Requests |-> "none"]
    /\ age = [r \in Requests |-> 0]
    /\ timer = [r \in Requests |-> NoTimer]
    /\ sweep = {}
    /\ active = {}
    /\ ended = [r \in Requests |-> "none"]
    /\ cache = Gone
    /\ clearing = FALSE

At(r, pc) == req[r].pc = pc
Goes(r, pc) == req' = [req EXCEPT ![r].pc = pc]
Ends(r) == req' = [req EXCEPT ![r] = Idle]

\* The end of a request that had its session.
EndsAs(r, how) == Ends(r) /\ ended' = [ended EXCEPT ![r] = how]

\* update: a session that is no longer there is left alone.
SetStatus(r, status) == live' = IF live[r] = "none" THEN live ELSE [live EXCEPT ![r] = status]

\* close: the final status, and the removal scheduled.
Close(r, status) ==
    /\ SetStatus(r, status)
    /\ timer' = IF live[r] = "none" THEN timer ELSE [timer EXCEPT ![r] = RemoveDelay]
    /\ UNCHANGED <<age, sweep>>

--------------------------------------------------------------------------------
(* Before the slot.                                                          *)

Arrive(r, stream, bypass) ==
    /\ At(r, "idle") /\ live[r] = "none" /\ r \notin sweep /\ timer[r] = NoTimer
    /\ req' = [req EXCEPT ![r] = [Idle EXCEPT !.pc = "quota", !.stream = stream,
                                              !.bypass = bypass]]
    /\ active' = active \ {r}   \* the new identifier has no entry yet
    /\ ended' = [ended EXCEPT ![r] = "none"]
    /\ UNCHANGED <<usage, slot, sessions, memo>>

\* Mutant of CheckQuota: the request that exhausts the quota is let through too.
CheckQuotaLate(r) ==
    /\ At(r, "quota")
    /\ IF usage > Quota THEN Ends(r)
       ELSE Goes(r, IF req[r].stream \/ req[r].bypass THEN "register" ELSE "lookup")
    /\ UNCHANGED <<usage, slot, sessions, account, memo>>

\* get_quota_usage
CheckQuota(r) ==
    /\ At(r, "quota")
    /\ IF usage >= Quota THEN Ends(r)
       ELSE Goes(r, IF req[r].stream \/ req[r].bypass THEN "register" ELSE "lookup")
    /\ UNCHANGED <<usage, slot, sessions, account, memo>>

\* get_cached_response: a hit is the answer.
LookUp(r) ==
    /\ At(r, "lookup")
    /\ IF cache = Gone THEN Goes(r, "register") ELSE Ends(r)
    /\ UNCHANGED <<usage, slot, sessions, account, memo>>

\* register, register_active_request, and the wait for a slot.
Register(r) ==
    /\ At(r, "register")
    /\ live' = [live EXCEPT ![r] = "queued"]
    /\ age' = [age EXCEPT ![r] = 0]
    /\ active' = active \cup {r}
    /\ queue' = Append(queue, r)
    /\ Goes(r, "queued")
    /\ UNCHANGED <<usage, free, timer, sweep, ended, memo>>

--------------------------------------------------------------------------------
(* In the slot.                                                              *)

Acquire(r) ==
    /\ At(r, "queued")
    /\ free > 0
    /\ r = Head(queue)
    /\ free' = free - 1
    /\ queue' = Tail(queue)
    /\ Goes(r, "run")
    /\ UNCHANGED <<usage, sessions, account, memo>>

StartRunning(r) ==
    /\ At(r, "run")
    /\ SetStatus(r, "running")
    /\ Goes(r, IF req[r].stream THEN "switch" ELSE "call")
    /\ UNCHANGED <<usage, slot, age, timer, sweep, account, memo>>

\* The StreamingResponse is returned and the slot left; nothing has run yet.
StartStreaming(r) ==
    /\ At(r, "switch")
    /\ SetStatus(r, "streaming")
    /\ free' = free + 1
    /\ Goes(r, "begin")
    /\ UNCHANGED <<usage, queue, age, timer, sweep, account, memo>>

Answered(r) ==
    /\ At(r, "call")
    /\ Goes(r, "filter")
    /\ UNCHANGED <<usage, slot, sessions, account, memo>>

\* evaluate_response; its text goes into a variable that nothing reads.
FilterAnswer(r) ==
    /\ At(r, "filter")
    /\ Goes(r, "store")
    /\ UNCHANGED <<usage, slot, sessions, account, memo>>

\* set_cached_response, also for a request that has asked for no cache; an
\* answer in the native format or over CACHE_MAX_TOKENS is not stored.
StoreAnswer(r, stored) ==
    /\ At(r, "store")
    /\ cache' = IF stored THEN CacheTtl ELSE cache
    /\ Goes(r, "rate")
    /\ UNCHANGED <<usage, slot, sessions, account, clearing>>

\* get_cost_rate and calculate_cost, which is only reported.
LookUpRate(r) ==
    /\ At(r, "rate")
    /\ Goes(r, "record")
    /\ UNCHANGED <<usage, slot, sessions, account, memo>>

\* record_token_usage
RecordUsage(r) ==
    /\ At(r, "record")
    /\ usage' = usage + 1
    /\ Goes(r, "touch")
    /\ UNCHANGED <<slot, sessions, account, memo>>

\* touch_client
TouchClient(r) ==
    /\ At(r, "touch")
    /\ Goes(r, "log")
    /\ UNCHANGED <<usage, slot, sessions, account, memo>>

\* log_request keeps its failures to itself.
LogRequest(r) ==
    /\ At(r, "log")
    /\ Goes(r, "finish")
    /\ UNCHANGED <<usage, slot, sessions, account, memo>>

\* The session is closed; the active request is not unregistered.
Finish(r) ==
    /\ At(r, "finish")
    /\ Close(r, "done")
    /\ free' = free + 1
    /\ EndsAs(r, "answered")
    /\ UNCHANGED <<usage, queue, active, memo>>

\* Mutant of Fail: an exception leaves the handler with the slot.
FailKeepsSlot(r) ==
    /\ req[r].pc \in Failing
    /\ Close(r, "error")
    /\ active' = active \ {r}
    /\ EndsAs(r, "failed")
    /\ UNCHANGED <<usage, slot, memo>>

\* Mutant of Fail: it forgets the active request, as Finish does.
FailKeepsActive(r) ==
    /\ req[r].pc \in Failing
    /\ Close(r, "error")
    /\ free' = free + 1
    /\ EndsAs(r, "failed")
    /\ UNCHANGED <<usage, queue, active, memo>>

\* ProviderError, or any other exception of an await in the slot.
Fail(r) ==
    /\ req[r].pc \in Failing
    /\ Close(r, "error")
    /\ active' = active \ {r}
    /\ free' = free + 1
    /\ EndsAs(r, "failed")
    /\ UNCHANGED <<usage, queue, memo>>

--------------------------------------------------------------------------------
(* sse_generator, run by the server after the handler has returned.          *)

FirstChunk(r) ==
    /\ At(r, "begin")
    /\ Goes(r, "stream")
    /\ UNCHANGED <<usage, slot, sessions, account, memo>>

\* The stream ends, fails or loses its client: the finally clause in each case.
StreamEnds(r) ==
    /\ At(r, "stream")
    /\ Close(r, "done")
    /\ active' = active \ {r}
    /\ EndsAs(r, "streamed")
    /\ UNCHANGED <<usage, slot, memo>>

\* The client is gone before the generator starts: no finally clause runs.
Abandon(r) ==
    /\ At(r, "begin")
    /\ EndsAs(r, "abandoned")
    /\ UNCHANGED <<usage, slot, sessions, active, memo>>

--------------------------------------------------------------------------------
(* The removals of session_manager.py.                                       *)

DelayedRemove(r) ==
    /\ timer[r] = 0
    /\ timer' = [timer EXCEPT ![r] = NoTimer]
    /\ live' = [live EXCEPT ![r] = "none"]
    /\ UNCHANGED <<req, usage, slot, age, sweep, account, memo>>

Stale(r) == age[r] > StaleAge /\ live[r] \in {"queued", "done", "error"}

\* cleanup_stale looks at all sessions at once, and pops them between its awaits
\* without looking again.
FindStale ==
    /\ sweep = {}
    /\ sweep' = {r \in Requests : Stale(r)}
    /\ sweep' # {}
    /\ UNCHANGED <<req, usage, slot, live, age, timer, account, memo>>

PopStale(r) ==
    /\ r \in sweep
    /\ sweep' = sweep \ {r}
    /\ live' = [live EXCEPT ![r] = "none"]
    /\ UNCHANGED <<req, usage, slot, age, timer, account, memo>>

--------------------------------------------------------------------------------
(* The admin, and time.                                                      *)

\* invalidate_cache: get_all_keys, then the deletions.
ListKeys ==
    /\ ~clearing
    /\ cache # Gone
    /\ clearing' = TRUE
    /\ UNCHANGED <<req, usage, slot, sessions, account, cache>>

DeleteKeys ==
    /\ clearing
    /\ clearing' = FALSE
    /\ cache' = Gone
    /\ UNCHANGED <<req, usage, slot, sessions, account>>

\* reset_quota, or the next day.
ResetQuota ==
    /\ usage > 0
    /\ usage' = 0
    /\ UNCHANGED <<req, slot, sessions, account, memo>>

Tick ==
    /\ age' = [r \in Requests |-> IF live[r] # "none" /\ age[r] =< StaleAge
                                  THEN age[r] + 1 ELSE age[r]]
    /\ timer' = [r \in Requests |-> IF timer[r] > 0 THEN timer[r] - 1 ELSE timer[r]]
    /\ cache' = Aged(cache)
    /\ UNCHANGED <<req, usage, slot, live, sweep, account, clearing>>

Handle(r) ==
    \/ CheckQuota(r) \/ LookUp(r) \/ Register(r)
    \/ Acquire(r) \/ StartRunning(r) \/ StartStreaming(r)
    \/ Answered(r) \/ FilterAnswer(r)
    \/ (\E stored \in BOOLEAN : StoreAnswer(r, stored))
    \/ LookUpRate(r) \/ RecordUsage(r) \/ TouchClient(r) \/ LogRequest(r)
    \/ Finish(r) \/ Fail(r)

Stream(r) == FirstChunk(r) \/ StreamEnds(r) \/ Abandon(r)

Remove(r) == DelayedRemove(r) \/ PopStale(r)

Next ==
    \/ \E r \in Requests : \/ \E stream, bypass \in BOOLEAN : Arrive(r, stream, bypass)
                           \/ Handle(r) \/ Stream(r) \/ Remove(r)
    \/ FindStale \/ ListKeys \/ DeleteKeys \/ ResetQuota \/ Tick

\* The event loop comes back to every handler, and a provider's call ends: it
\* has a timeout.  Nothing is asked of streams, or of the removals.
Spec == Init /\ [][Next]_vars /\ \A r \in Requests : WF_vars(Handle(r))

--------------------------------------------------------------------------------
\* Every variable has its type; the semaphore and its waiters are accounted for.
TypeOK ==
    /\ req \in [Requests -> [pc : Steps, stream : BOOLEAN, bypass : BOOLEAN]]
    /\ usage \in Nat
    /\ free \in 0 .. Slots
    /\ free = Slots - Cardinality({r \in Requests : req[r].pc \in InSlot})
    /\ {queue[i] : i \in DOMAIN queue} = {r \in Requests : At(r, "queued")}
    /\ live \in [Requests -> {"none", "queued", "running", "streaming", "done", "error"}]
    /\ age \in [Requests -> 0 .. StaleAge + 1]
    /\ timer \in [Requests -> NoTimer .. RemoveDelay]
    /\ sweep \in SUBSET Requests
    /\ active \in SUBSET Requests
    /\ ended \in [Requests -> {"none", "answered", "failed", "streamed", "abandoned"}]
    /\ cache \in Gone .. CacheTtl
    /\ clearing \in BOOLEAN

\* The quota is checked awaits before the usage it bounds is recorded
\* (main.py:388, 524): requests past the check add theirs, one each.
QuotaOvershootIsInFlight == usage =< Quota + Cardinality(Requests) - 1

\* From register to the end.
UnderWay(r) == req[r].pc \in {"queued"} \cup InSlot \cup Streaming

\* The live list, which the cleanup, the scheduled removals and the requests'
\* own updates all write (session_manager.py:77, 134, 224), tells the truth:
\* a session is shown running only while its request is in the slot, streaming
\* only while its stream goes on, done or error only as the request has ended;
\* and a request is missing only if it waited beyond StaleAge for its slot.
\* The active requests are those under way.  The code breaks this in two ways,
\* and in no other: a stream abandoned before its first chunk stays in both for
\* ever (main.py:449), and an answered request stays active (main.py:434).
LedgersTellTruth ==
    \A r \in Requests :
        /\ live[r] = "running" => req[r].pc \in InSlot
        /\ live[r] = "streaming" =>
              req[r].pc \in Streaming \/ (At(r, "idle") /\ ended[r] = "abandoned")
        /\ live[r] = "done" => At(r, "idle") /\ ended[r] \in {"answered", "streamed"}
        /\ live[r] = "error" => At(r, "idle") /\ ended[r] = "failed"
        /\ UnderWay(r) => r \in active /\ (live[r] = "none" => age[r] > StaleAge)
        /\ ~UnderWay(r) /\ r \in active =>
              At(r, "idle") /\ ended[r] \in {"answered", "abandoned"}

\* The slot is left on every path out of it (main.py:438): answer, provider
\* error, exception, stream.  So a queued request is always served, in its turn.
QueuedIsServed == \A r \in Requests : At(r, "queued") ~> ~At(r, "queued")
================================================================================
