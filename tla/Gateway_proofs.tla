----------------------------- MODULE Gateway_proofs -----------------------------
(***************************************************************************)
(* What the chat handler and the live dashboard keep for any number of     *)
(* requests, any quota, number of slots and delays: slots are conserved,   *)
(* usage exceeds the quota by requests in flight only, and the live list   *)
(* tells the truth whatever the handlers, the scheduled removals and the   *)
(* cleanup do to it; and, in the last part, for any number of sessions and *)
(* pages: what the pages show is what the list tells.                      *)
(* A step moves one request in its code, or none; what it means for the    *)
(* slot and the quota is a matter of counting requests by where they are.  *)
(***************************************************************************)
EXTENDS Gateway, Dashboard, FiniteSetTheorems, SequenceTheorems, TLAPS

Requested == [pc : Steps, stream : BOOLEAN, bypass : BOOLEAN]
Statuses == {"none", "queued", "running", "streaming", "done", "error"}

Endings == {"none", "answered", "failed", "streamed", "abandoned"}

\* The requests that are at one of these places.
In(places) == {r \in Requests : req[r].pc \in places}

\* Past the quota check with their usage not yet recorded.
PastCheck == {"lookup", "register", "queued", "run", "call", "filter", "store", "rate", "record"}

Typed ==
    /\ req \in [Requests -> Requested]
    /\ usage \in Nat
    /\ live \in [Requests -> Statuses]
    /\ age \in [Requests -> 0 .. StaleAge + 1]
    /\ timer \in [Requests -> NoTimer .. RemoveDelay]
    /\ sweep \in SUBSET Requests
    /\ active \in SUBSET Requests
    /\ ended \in [Requests -> Endings]
    /\ cache \in Gone .. CacheTtl
    /\ clearing \in BOOLEAN

\* The semaphore's value and its waiters, each of whom waits once.
SlotsSound ==
    /\ free \in 0 .. Slots
    /\ free = Slots - Cardinality(In(InSlot))

QueueSound ==
    /\ queue \in Seq(Requests)
    /\ \A i, j \in 1 .. Len(queue) : queue[i] = queue[j] => i = j
    /\ {queue[i] : i \in 1 .. Len(queue)} = In({"queued"})

\* Each request past the check may still add its usage.
QuotaSound == usage + Cardinality(In(PastCheck)) =< Quota + Cardinality(Requests) - 1

\* One request and what the session manager holds under its identifier.
LedgerSound(r) ==
    /\ req[r].pc # "idle" => timer[r] = NoTimer /\ ended[r] = "none"
    /\ req[r].pc \in {"quota", "lookup", "register"} =>
           r \notin sweep /\ live[r] = "none" /\ r \notin active
    /\ r \in sweep => age[r] > StaleAge
    /\ live[r] = "running" => req[r].pc \in InSlot
    /\ live[r] = "streaming" =>
           req[r].pc \in Streaming \/ (req[r].pc = "idle" /\ ended[r] = "abandoned")
    /\ live[r] = "done" => req[r].pc = "idle" /\ ended[r] \in {"answered", "streamed"}
    /\ live[r] = "error" => req[r].pc = "idle" /\ ended[r] = "failed"
    /\ UnderWay(r) => r \in active /\ (live[r] = "none" => age[r] > StaleAge)
    /\ ~UnderWay(r) /\ r \in active =>
           req[r].pc = "idle" /\ ended[r] \in {"answered", "abandoned"}

IInv ==
    /\ Typed /\ SlotsSound /\ QueueSound /\ QuotaSound
    /\ \A r \in Requests : LedgerSound(r)

--------------------------------------------------------------------------------
(* Moving one request.                                                       *)

\* Request r alone moves, to pc.
Moves(r, pc) ==
    /\ req' \in [Requests -> Requested]
    /\ req'[r].pc = pc
    /\ \A s \in Requests : s # r => req'[s] = req[s]

LEMMA Positive ==
    /\ Quota \in Nat \ {0} /\ Slots \in Nat \ {0} /\ CacheTtl \in Nat \ {0}
    /\ RemoveDelay \in Nat \ {0} /\ StaleAge \in Nat \ {0}
    /\ IsFiniteSet(Requests) /\ Cardinality(Requests) \in Nat
BY GatewayAssumption, FS_CardinalityType

LEMMA Going ==
    ASSUME Typed, NEW r \in Requests, NEW pc \in Steps, Goes(r, pc)
    PROVE  Moves(r, pc)
<1> DEFINE a == [req[r] EXCEPT !.pc = pc]
<1>1. req \in [Requests -> Requested] /\ req[r] \in Requested
    BY DEF Typed
<1>2. a \in Requested /\ a.pc = pc
    BY <1>1 DEF Requested
<1>3. req' = [req EXCEPT ![r] = a]
    BY DEF Goes
<1> HIDE DEF a
<1>4. QED BY <1>1, <1>2, <1>3 DEF Moves

LEMMA Ending ==
    ASSUME Typed, NEW r \in Requests, Ends(r)
    PROVE  Moves(r, "idle")
<1>1. Idle \in Requested /\ Idle.pc = "idle"
    BY DEF Idle, Requested, Steps
<1>2. req' = [req EXCEPT ![r] = Idle] /\ req \in [Requests -> Requested]
    BY DEF Ends, Typed
<1>3. QED BY <1>1, <1>2 DEF Moves

(* Sets of requests, and one with a request more or less.                    *)
LEMMA HowMany ==
    ASSUME NEW S \in SUBSET Requests
    PROVE  IsFiniteSet(S) /\ Cardinality(S) \in 0 .. Cardinality(Requests)
<1>1. IsFiniteSet(S) /\ Cardinality(S) =< Cardinality(Requests)
    BY Positive, FS_Subset
<1>2. Cardinality(S) \in Nat
    BY <1>1, FS_CardinalityType
<1>3. QED BY <1>1, <1>2, Positive

LEMMA OneMoreOrLess ==
    ASSUME NEW S \in SUBSET Requests, NEW r \in Requests
    PROVE  /\ Cardinality(S \cup {r}) =
                  IF r \in S THEN Cardinality(S) ELSE Cardinality(S) + 1
           /\ Cardinality(S \ {r}) =
                  IF r \in S THEN Cardinality(S) - 1 ELSE Cardinality(S)
<1>1. IsFiniteSet(S)
    BY HowMany
<1>2. Cardinality(S \cup {r}) =
          IF r \in S THEN Cardinality(S) ELSE Cardinality(S) + 1
    BY <1>1, FS_AddElement, Zenon
<1>3. Cardinality(S \ {r}) =
          IF r \in S THEN Cardinality(S) - 1 ELSE Cardinality(S)
    BY <1>1, FS_RemoveElement, Zenon
<1>4. QED BY <1>2, <1>3

(* How many are at certain places, after r has moved.                        *)
LEMMA Counted ==
    ASSUME Typed, NEW r \in Requests, NEW pc, Moves(r, pc), NEW places
    PROVE  /\ Cardinality(In(places)) \in 0 .. Cardinality(Requests)
           /\ (pc \in places <=> req[r].pc \in places) => In(places)' = In(places)
           /\ pc \in places /\ req[r].pc \notin places =>
                  /\ In(places)' = In(places) \cup {r} /\ r \notin In(places)
                  /\ Cardinality(In(places)') = Cardinality(In(places)) + 1
           /\ pc \notin places /\ req[r].pc \in places =>
                  /\ In(places)' = In(places) \ {r}
                  /\ Cardinality(In(places)') = Cardinality(In(places)) - 1
<1>1. In(places) \in SUBSET Requests
    BY DEF In
<1>2. ASSUME pc \in places <=> req[r].pc \in places
      PROVE  In(places)' = In(places)
    BY <1>2 DEF In, Moves
<1>3. ASSUME pc \in places, req[r].pc \notin places
      PROVE  In(places)' = In(places) \cup {r} /\ r \notin In(places)
    BY <1>3 DEF In, Moves
<1>4. ASSUME pc \notin places, req[r].pc \in places
      PROVE  In(places)' = In(places) \ {r} /\ r \in In(places)
    BY <1>4 DEF In, Moves
<1>5. QED BY <1>1, <1>2, <1>3, <1>4, HowMany, OneMoreOrLess

--------------------------------------------------------------------------------
(* Slot, queue and quota.                                                    *)

\* Where r moves, and what becomes of the slot,
SlotEffect(r, pc) ==
    \/ (pc \in InSlot <=> req[r].pc \in InSlot) /\ free' = free
    \/ pc \in InSlot /\ req[r].pc \notin InSlot /\ free > 0 /\ free' = free - 1
    \/ pc \notin InSlot /\ req[r].pc \in InSlot /\ free' = free + 1

\* of the queue,
QueueEffect(r, pc) ==
    \/ (pc = "queued" <=> req[r].pc = "queued") /\ queue' = queue
    \/ pc = "queued" /\ req[r].pc # "queued" /\ queue' = Append(queue, r)
    \/ pc # "queued" /\ req[r].pc = "queued" /\ r = Head(queue) /\ queue' = Tail(queue)

\* and of the usage.
QuotaEffect(r, pc) ==
    \/ (pc \in PastCheck => req[r].pc \in PastCheck) /\ usage' = usage
    \/ pc \in PastCheck /\ usage < Quota /\ usage' = usage
    \/ pc \notin PastCheck /\ req[r].pc \in PastCheck /\ usage' = usage + 1

Effect(r, pc) ==
    Moves(r, pc) /\ SlotEffect(r, pc) /\ QueueEffect(r, pc) /\ QuotaEffect(r, pc)

(* The places of the code are told apart by the three counts.                *)
LEMMA SlotStep ==
    ASSUME Typed, SlotsSound, NEW r \in Requests, NEW pc, Effect(r, pc)
    PROVE  SlotsSound'
<1> DEFINE n == Cardinality(In(InSlot))
           m == Cardinality(In(InSlot)')
<1>1. Moves(r, pc) /\ SlotEffect(r, pc)
    BY DEF Effect
<1>2. /\ n \in 0 .. Cardinality(Requests)
      /\ (pc \in InSlot <=> req[r].pc \in InSlot) => m = n
      /\ pc \in InSlot /\ req[r].pc \notin InSlot => m = n + 1
      /\ pc \notin InSlot /\ req[r].pc \in InSlot => m = n - 1
    BY <1>1, Counted
<1>3. m \in 0 .. Cardinality(Requests)
    <2>1. In(InSlot)' \in SUBSET Requests
        BY DEF In
    <2>2. QED BY <2>1, HowMany
<1>4. free \in 0 .. Slots /\ free = Slots - n
    BY DEF SlotsSound
<1> HIDE DEF n, m
<1>5. free' \in 0 .. Slots /\ free' = Slots - m
    BY <1>1, <1>2, <1>3, <1>4, Positive DEF SlotEffect
<1>6. QED BY <1>5 DEF SlotsSound, m

LEMMA QuotaStep ==
    ASSUME Typed, QuotaSound, NEW r \in Requests, NEW pc, Effect(r, pc)
    PROVE  QuotaSound'
<1> DEFINE n == Cardinality(In(PastCheck))
           m == Cardinality(In(PastCheck)')
<1>1. Moves(r, pc) /\ QuotaEffect(r, pc)
    BY DEF Effect
<1>2. /\ n \in 0 .. Cardinality(Requests)
      /\ (pc \in PastCheck <=> req[r].pc \in PastCheck) => m = n
      /\ pc \notin PastCheck /\ req[r].pc \in PastCheck => m = n - 1
    BY <1>1, Counted
<1>3. m \in 0 .. Cardinality(Requests)
    <2>1. In(PastCheck)' \in SUBSET Requests
        BY DEF In
    <2>2. QED BY <2>1, HowMany
<1>4. usage \in Nat /\ usage + n =< Quota + Cardinality(Requests) - 1
    BY DEF QuotaSound, Typed
<1> HIDE DEF n, m
<1>5. usage' + m =< Quota + Cardinality(Requests) - 1
    <2>1. CASE (pc \in PastCheck => req[r].pc \in PastCheck) /\ usage' = usage
        BY <1>2, <1>3, <1>4, <2>1, Positive
    <2>2. CASE usage < Quota /\ usage' = usage
        BY <1>3, <1>4, <2>2, Positive
    <2>3. CASE pc \notin PastCheck /\ req[r].pc \in PastCheck /\ usage' = usage + 1
        BY <1>2, <1>4, <2>3, Positive
    <2>4. QED BY <1>1, <2>1, <2>2, <2>3 DEF QuotaEffect
<1>6. QED BY <1>5 DEF QuotaSound, m

LEMMA QueueStep ==
    ASSUME Typed, QueueSound, NEW r \in Requests, NEW pc, Effect(r, pc)
    PROVE  QueueSound'
<1> DEFINE q == queue
           waiting == In({"queued"})
           of(s) == {s[i] : i \in 1 .. Len(s)}
           sound(s) == s \in Seq(Requests) /\ \A i, j \in 1 .. Len(s) : s[i] = s[j] => i = j
<1>1. Moves(r, pc) /\ QueueEffect(r, pc)
    BY DEF Effect
<1>2. sound(q) /\ of(q) = waiting
    BY DEF QueueSound
<1>3. /\ (pc = "queued" <=> req[r].pc = "queued") => waiting' = waiting
      /\ pc = "queued" /\ req[r].pc # "queued" => waiting' = waiting \cup {r} /\ r \notin waiting
      /\ pc # "queued" /\ req[r].pc = "queued" => waiting' = waiting \ {r} /\ r \in waiting
    <2>1. (pc \in {"queued"} <=> pc = "queued")
          /\ (req[r].pc \in {"queued"} <=> req[r].pc = "queued")
        OBVIOUS
    <2>2. req[r].pc = "queued" => r \in waiting
        BY DEF In
    <2>3. /\ (pc \in {"queued"} <=> req[r].pc \in {"queued"}) => waiting' = waiting
          /\ pc \in {"queued"} /\ req[r].pc \notin {"queued"} =>
                 waiting' = waiting \cup {r} /\ r \notin waiting
          /\ pc \notin {"queued"} /\ req[r].pc \in {"queued"} => waiting' = waiting \ {r}
        BY <1>1, Counted
    <2> HIDE DEF waiting
    <2>4. QED BY <2>1, <2>2, <2>3
<1> HIDE DEF waiting
<1>4. CASE (pc = "queued" <=> req[r].pc = "queued") /\ queue' = queue
    BY <1>2, <1>3, <1>4 DEF QueueSound, waiting
<1>5. CASE pc = "queued" /\ req[r].pc # "queued" /\ queue' = Append(queue, r)
    <2>1. r \notin of(q)
        BY <1>2, <1>3, <1>5
    <2>2. /\ queue' \in Seq(Requests) /\ Len(queue') = Len(queue) + 1
          /\ \A i \in 1 .. Len(queue) : queue'[i] = queue[i]
          /\ queue'[Len(queue) + 1] = r /\ Len(queue) \in Nat
        BY <1>2, <1>5, AppendProperties
    <2>3. sound(queue') /\ of(queue') = of(q) \cup {r}
        BY <1>2, <2>1, <2>2
    <2>4. QED BY <1>2, <1>3, <1>5, <2>3 DEF QueueSound, waiting
<1>6. CASE pc # "queued" /\ req[r].pc = "queued" /\ r = Head(queue) /\ queue' = Tail(queue)
    <2>1. queue # << >> /\ Len(queue) \in Nat /\ Len(queue) > 0 /\ r = queue[1]
        BY <1>2, <1>3, <1>6
    <2>2. /\ queue' \in Seq(Requests) /\ Len(queue') = Len(queue) - 1
          /\ \A i \in 1 .. Len(queue) - 1 : queue'[i] = queue[i + 1]
        BY <1>2, <1>6, <2>1, HeadTailProperties
    <2>3. sound(queue')
        BY <1>2, <2>1, <2>2
    <2>4. of(queue') = of(q) \ {r}
        <3>1. ASSUME NEW i \in 1 .. Len(queue')
              PROVE  queue'[i] \in of(q) \ {r}
            BY <1>2, <2>1, <2>2
        <3>2. ASSUME NEW i \in 1 .. Len(queue), queue[i] # r
              PROVE  queue[i] \in of(queue')
            <4>1. i - 1 \in 1 .. Len(queue') /\ queue'[i - 1] = queue[i]
                BY <2>1, <2>2, <3>2
            <4>2. QED BY <4>1
        <3>3. QED BY <3>1, <3>2
    <2>5. QED BY <1>2, <1>3, <1>6, <2>3, <2>4 DEF QueueSound, waiting
<1>7. QED BY <1>1, <1>4, <1>5, <1>6 DEF QueueEffect

--------------------------------------------------------------------------------
(* The live list.                                                            *)

\* A request's row of what the session manager and the active requests hold.
SameRow(s) ==
    /\ req'[s] = req[s] /\ live'[s] = live[s] /\ age'[s] = age[s] /\ timer'[s] = timer[s]
    /\ (s \in sweep' <=> s \in sweep) /\ (s \in active' <=> s \in active)
    /\ ended'[s] = ended[s]

LEMMA RowKept ==
    ASSUME NEW s, LedgerSound(s), SameRow(s)
    PROVE  LedgerSound(s)'
BY DEF LedgerSound, SameRow, UnderWay

\* A move that passes no border of the ledger's clauses.
Within(old, pc) ==
    /\ old # "idle" /\ (pc = "idle" => old \in {"quota", "lookup"})
    /\ pc \in {"quota", "lookup", "register"} => old \in {"quota", "lookup", "register"}
    /\ old \in InSlot => pc \in InSlot
    /\ old \in Streaming => pc \in Streaming
    /\ pc \in InSlot \cup Streaming \cup {"queued"} <=> old \in InSlot \cup Streaming \cup {"queued"}

(* A step of the handler that leaves sessions and active requests alone.     *)
LEMMA MoveKeepsLedger ==
    ASSUME IInv, NEW r \in Requests, NEW pc, Moves(r, pc), Within(req[r].pc, pc),
           UNCHANGED <<sessions, account>>
    PROVE  \A s \in Requests : LedgerSound(s)'
<1> SUFFICES ASSUME NEW s \in Requests PROVE LedgerSound(s)'
    OBVIOUS
<1>1. LedgerSound(s) /\ UNCHANGED <<live, age, timer, sweep, active, ended>>
    BY DEF IInv, sessions, account
<1>2. CASE s # r
    BY <1>1, <1>2, RowKept DEF SameRow, Moves
<1>3. CASE s = r
    <2>1. req'[s].pc = pc
        BY <1>3 DEF Moves
    <2>2. QED BY <1>1, <1>3, <2>1 DEF LedgerSound, Within, UnderWay, InSlot, Calling, Streaming
<1>4. QED BY <1>2, <1>3

(* Register, and the changes of status, touch the row of their request.      *)
LEMMA RowLedger ==
    ASSUME IInv, NEW r \in Requests, NEW pc, Moves(r, pc), LedgerSound(r)',
           \A s \in Requests : s # r =>
               /\ live'[s] = live[s] /\ age'[s] = age[s] /\ timer'[s] = timer[s]
               /\ (s \in sweep' <=> s \in sweep) /\ (s \in active' <=> s \in active)
               /\ ended'[s] = ended[s]
    PROVE  \A s \in Requests : LedgerSound(s)'
<1> SUFFICES ASSUME NEW s \in Requests, s # r PROVE LedgerSound(s)'
    OBVIOUS
<1>1. LedgerSound(s) /\ SameRow(s)
    BY DEF IInv, SameRow, Moves
<1>2. QED BY <1>1, RowKept

(* What update and close do to a row.                                        *)
LEMMA StatusSet ==
    ASSUME Typed, NEW r \in Requests, NEW st \in Statuses, SetStatus(r, st)
    PROVE  /\ live' \in [Requests -> Statuses]
           /\ live'[r] = IF live[r] = "none" THEN "none" ELSE st
           /\ \A s \in Requests : s # r => live'[s] = live[s]
BY DEF Typed, SetStatus

LEMMA Closed ==
    ASSUME Typed, NEW r \in Requests, NEW st \in Statuses, Close(r, st)
    PROVE  /\ live' \in [Requests -> Statuses] /\ timer' \in [Requests -> NoTimer .. RemoveDelay]
           /\ live'[r] = IF live[r] = "none" THEN "none" ELSE st
           /\ \A s \in Requests : s # r => live'[s] = live[s] /\ timer'[s] = timer[s]
           /\ UNCHANGED <<age, sweep>>
<1>1. RemoveDelay \in NoTimer .. RemoveDelay
    BY Positive DEF NoTimer
<1>2. QED BY <1>1, StatusSet DEF Typed, Close

(* The ends of a request in the slot or of a stream: its session is closed   *)
(* as it has ended, and an answer leaves its active request.                 *)
LEMMA EndLedger ==
    ASSUME IInv, NEW r \in Requests, req[r].pc # "idle", NEW how \in Endings, EndsAs(r, how),
           \/ how = "answered" /\ Close(r, "done") /\ active' = active
           \/ how = "streamed" /\ Close(r, "done") /\ active' = active \ {r}
           \/ how = "failed" /\ Close(r, "error") /\ active' = active \ {r}
    PROVE  \A s \in Requests : LedgerSound(s)'
<1>1. Typed /\ LedgerSound(r) /\ Ends(r) /\ ended' = [ended EXCEPT ![r] = how]
    BY DEF IInv, EndsAs
<1>2. Moves(r, "idle") /\ req'[r].pc = "idle"
    BY <1>1, Ending DEF Moves
<1>3. ended'[r] = how /\ \A s \in Requests : s # r => ended'[s] = ended[s]
    BY <1>1 DEF Typed
<1>4. PICK st \in {"done", "error"} :
          /\ Close(r, st)
          /\ st = "done" <=> how \in {"answered", "streamed"}
          /\ st = "error" <=> how = "failed"
    OBVIOUS
<1>5. r \in active' => how = "answered"
    OBVIOUS
<1>6. /\ live'[r] = IF live[r] = "none" THEN "none" ELSE st
      /\ \A s \in Requests : s # r => live'[s] = live[s] /\ timer'[s] = timer[s]
      /\ UNCHANGED <<age, sweep>>
    BY <1>1, <1>4, Closed DEF Statuses
<1>7. LedgerSound(r)'
    <2>1. ~UnderWay(r)'
        BY <1>2 DEF UnderWay, InSlot, Calling, Streaming
    <2>2. r \in sweep' => age'[r] > StaleAge
        BY <1>1, <1>6 DEF LedgerSound
    <2>3. live'[r] \in {"none", st}
        BY <1>6
    <2>4. QED BY <1>2, <1>3, <1>4, <1>5, <2>1, <2>2, <2>3 DEF LedgerSound
<1>8. \A s \in Requests : s # r => (s \in active' <=> s \in active)
    OBVIOUS
<1>9. QED BY <1>2, <1>3, <1>6, <1>7, <1>8, RowLedger

--------------------------------------------------------------------------------
(* The actions.                                                              *)

\* What a step of request r must show.
Kept(r) ==
    /\ Typed'
    /\ \A s \in Requests : LedgerSound(s)'
    /\ \E pc : Effect(r, pc)

(* A move that touches neither sessions nor active requests.                 *)
LEMMA Moved ==
    ASSUME IInv, NEW r \in Requests, NEW pc, Moves(r, pc), Within(req[r].pc, pc),
           UNCHANGED <<sessions, account>>, usage' \in Nat, cache' \in Gone .. CacheTtl,
           UNCHANGED clearing,
           SlotEffect(r, pc), QueueEffect(r, pc), QuotaEffect(r, pc)
    PROVE  Kept(r)
<1>1. Typed'
    BY DEF IInv, Typed, sessions, account, Moves
<1>2. \A s \in Requests : LedgerSound(s)'
    BY MoveKeepsLedger
<1>3. QED BY <1>1, <1>2 DEF Kept, Effect

(* One that leaves slot, queue, usage and cache alone too.                   *)
LEMMA MovedOnly ==
    ASSUME IInv, NEW r \in Requests, NEW pc, Moves(r, pc), Within(req[r].pc, pc),
           UNCHANGED <<usage, slot, sessions, account, memo>>,
           pc \in InSlot <=> req[r].pc \in InSlot,
           pc = "queued" <=> req[r].pc = "queued",
           pc \in PastCheck => req[r].pc \in PastCheck
    PROVE  Kept(r)
<1>1. usage' \in Nat /\ cache' \in Gone .. CacheTtl /\ UNCHANGED clearing
    BY DEF IInv, Typed, memo
<1>2. SlotEffect(r, pc) /\ QueueEffect(r, pc) /\ QuotaEffect(r, pc)
    BY DEF SlotEffect, QueueEffect, QuotaEffect, slot
<1>3. QED BY <1>1, <1>2, Moved

(* Before the slot.                                                          *)
LEMMA EntryKept ==
    ASSUME IInv, NEW r \in Requests, CheckQuota(r) \/ LookUp(r)
    PROVE  Kept(r)
<1>1. Typed /\ UNCHANGED <<usage, slot, sessions, account, memo>>
    BY DEF IInv, CheckQuota, LookUp
<1>2. CASE CheckQuota(r) /\ Ends(r)
    BY <1>1, <1>2, Ending, MovedOnly DEF CheckQuota, At, Within, InSlot, Calling, Streaming, PastCheck
<1>3. CASE CheckQuota(r) /\ ~Ends(r)
    <2>1. PICK pc \in {"register", "lookup"} : Goes(r, pc)
        BY <1>3 DEF CheckQuota
    <2>2. Moves(r, pc) /\ Within(req[r].pc, pc) /\ At(r, "quota") /\ usage < Quota
        <3>1. usage \in Nat /\ ~(usage >= Quota)
            BY <1>1, <1>3 DEF CheckQuota, Typed
        <3>2. usage < Quota
            BY <3>1, Positive
        <3>3. QED
            BY <1>1, <1>3, <2>1, <3>2, Going DEF CheckQuota, At, Within, Steps, InSlot, Calling, Streaming
    <2>3. usage' \in Nat /\ cache' \in Gone .. CacheTtl /\ UNCHANGED clearing
        BY <1>1 DEF Typed, memo
    <2>4. SlotEffect(r, pc) /\ QueueEffect(r, pc) /\ QuotaEffect(r, pc)
        BY <1>1, <2>1, <2>2 DEF SlotEffect, QueueEffect, QuotaEffect, slot, At, InSlot, Calling, PastCheck
    <2>5. QED BY <1>1, <2>2, <2>3, <2>4, Moved
<1>4. CASE LookUp(r) /\ Goes(r, "register")
    BY <1>1, <1>4, Going, MovedOnly
       DEF LookUp, At, Within, Steps, InSlot, Calling, Streaming, PastCheck
<1>5. CASE LookUp(r) /\ Ends(r)
    BY <1>1, <1>5, Ending, MovedOnly DEF LookUp, At, Within, InSlot, Calling, Streaming, PastCheck
<1>6. QED BY <1>2, <1>3, <1>4, <1>5 DEF LookUp

(* In the slot and in the stream: steps that only move.                      *)
LEMMA StepKept ==
    ASSUME IInv, NEW r \in Requests,
           \/ Answered(r) \/ FilterAnswer(r) \/ LookUpRate(r) \/ TouchClient(r) \/ LogRequest(r)
           \/ FirstChunk(r)
    PROVE  Kept(r)
<1>1. Typed /\ UNCHANGED <<usage, slot, sessions, account, memo>>
    BY DEF IInv, Answered, FilterAnswer, LookUpRate, TouchClient, LogRequest, FirstChunk
<1>2. CASE Answered(r)
    BY <1>1, <1>2, Going, MovedOnly
       DEF Answered, At, Within, Steps, InSlot, Calling, Streaming, PastCheck
<1>3. CASE FilterAnswer(r)
    BY <1>1, <1>3, Going, MovedOnly
       DEF FilterAnswer, At, Within, Steps, InSlot, Calling, Streaming, PastCheck
<1>4. CASE LookUpRate(r)
    BY <1>1, <1>4, Going, MovedOnly
       DEF LookUpRate, At, Within, Steps, InSlot, Calling, Streaming, PastCheck
<1>5. CASE TouchClient(r)
    BY <1>1, <1>5, Going, MovedOnly
       DEF TouchClient, At, Within, Steps, InSlot, Calling, Streaming, PastCheck
<1>6. CASE LogRequest(r)
    BY <1>1, <1>6, Going, MovedOnly
       DEF LogRequest, At, Within, Steps, InSlot, Calling, Streaming, PastCheck
<1>7. CASE FirstChunk(r)
    BY <1>1, <1>7, Going, MovedOnly
       DEF FirstChunk, At, Within, Steps, InSlot, Calling, Streaming, PastCheck
<1>8. QED BY <1>2, <1>3, <1>4, <1>5, <1>6, <1>7

(* The stream that nobody starts: its session and active request remain.     *)
LEMMA AbandonKept ==
    ASSUME IInv, NEW r \in Requests, Abandon(r)
    PROVE  Kept(r)
<1>1. /\ Typed /\ LedgerSound(r) /\ At(r, "begin") /\ Ends(r)
      /\ ended' = [ended EXCEPT ![r] = "abandoned"]
      /\ UNCHANGED <<usage, slot, sessions, active, memo>>
    BY DEF IInv, Abandon, EndsAs
<1>2. Moves(r, "idle") /\ req'[r].pc = "idle"
    BY <1>1, Ending DEF Moves
<1>3. ended' \in [Requests -> Endings] /\ ended'[r] = "abandoned"
          /\ \A s \in Requests : s # r => ended'[s] = ended[s]
    BY <1>1 DEF Typed, Endings
<1>4. UNCHANGED <<live, age, timer, sweep>>
    BY <1>1 DEF sessions
<1>5. LedgerSound(r)'
    BY <1>1, <1>2, <1>3, <1>4 DEF LedgerSound, UnderWay, At, InSlot, Calling, Streaming
<1>6. \A s \in Requests : LedgerSound(s)'
    BY <1>1, <1>2, <1>3, <1>4, <1>5, RowLedger
<1>7. Typed'
    BY <1>1, <1>2, <1>3, <1>4 DEF Typed, Moves, memo
<1>8. SlotEffect(r, "idle") /\ QueueEffect(r, "idle") /\ QuotaEffect(r, "idle")
    BY <1>1 DEF SlotEffect, QueueEffect, QuotaEffect, At, slot, InSlot, Calling, PastCheck
<1>9. QED BY <1>2, <1>6, <1>7, <1>8 DEF Kept, Effect

(* Steps that also move the slot, the cache or the usage.                    *)
LEMMA AcquireKept ==
    ASSUME IInv, NEW r \in Requests, Acquire(r)
    PROVE  Kept(r)
<1>1. /\ Typed /\ At(r, "queued") /\ Goes(r, "run") /\ free > 0 /\ free' = free - 1
      /\ r = Head(queue) /\ queue' = Tail(queue) /\ UNCHANGED <<usage, sessions, account, memo>>
    BY DEF IInv, Acquire
<1>2. Moves(r, "run") /\ Within(req[r].pc, "run")
    BY <1>1, Going DEF At, Within, Steps, InSlot, Calling, Streaming
<1>3. usage' \in Nat /\ cache' \in Gone .. CacheTtl /\ UNCHANGED clearing
    BY <1>1 DEF Typed, memo
<1>4. SlotEffect(r, "run") /\ QueueEffect(r, "run") /\ QuotaEffect(r, "run")
    BY <1>1 DEF SlotEffect, QueueEffect, QuotaEffect, At, InSlot, Calling, PastCheck
<1>5. QED BY <1>1, <1>2, <1>3, <1>4, Moved

LEMMA StoreKept ==
    ASSUME IInv, NEW r \in Requests, NEW stored \in BOOLEAN, StoreAnswer(r, stored)
    PROVE  Kept(r)
<1>1. /\ Typed /\ At(r, "store") /\ Goes(r, "rate") /\ (cache' = CacheTtl \/ cache' = cache)
      /\ UNCHANGED <<usage, slot, sessions, account, clearing>>
    BY DEF IInv, StoreAnswer
<1>2. Moves(r, "rate") /\ Within(req[r].pc, "rate")
    BY <1>1, Going DEF At, Within, Steps, InSlot, Calling, Streaming
<1>3. usage' \in Nat /\ cache' \in Gone .. CacheTtl
    BY <1>1, Positive DEF Typed, Gone
<1>4. SlotEffect(r, "rate") /\ QueueEffect(r, "rate") /\ QuotaEffect(r, "rate")
    BY <1>1 DEF SlotEffect, QueueEffect, QuotaEffect, At, slot, InSlot, Calling, PastCheck
<1>5. QED BY <1>1, <1>2, <1>3, <1>4, Moved

LEMMA RecordKept ==
    ASSUME IInv, NEW r \in Requests, RecordUsage(r)
    PROVE  Kept(r)
<1>1. /\ Typed /\ At(r, "record") /\ Goes(r, "touch") /\ usage' = usage + 1
      /\ UNCHANGED <<slot, sessions, account, memo>>
    BY DEF IInv, RecordUsage
<1>2. Moves(r, "touch") /\ Within(req[r].pc, "touch")
    BY <1>1, Going DEF At, Within, Steps, InSlot, Calling, Streaming
<1>3. usage' \in Nat /\ cache' \in Gone .. CacheTtl /\ UNCHANGED clearing
    BY <1>1 DEF Typed, memo
<1>4. SlotEffect(r, "touch") /\ QueueEffect(r, "touch") /\ QuotaEffect(r, "touch")
    BY <1>1 DEF SlotEffect, QueueEffect, QuotaEffect, At, slot, InSlot, Calling, PastCheck
<1>5. QED BY <1>1, <1>2, <1>3, <1>4, Moved

(* Steps that write the live list.                                           *)
LEMMA ArriveKept ==
    ASSUME IInv, NEW r \in Requests, NEW stream \in BOOLEAN, NEW bypass \in BOOLEAN,
           Arrive(r, stream, bypass)
    PROVE  Kept(r)
<1> DEFINE a == [Idle EXCEPT !.pc = "quota", !.stream = stream, !.bypass = bypass]
<1>1. /\ Typed /\ LedgerSound(r) /\ At(r, "idle") /\ live[r] = "none" /\ r \notin sweep
      /\ timer[r] = NoTimer /\ active' = active \ {r}
      /\ ended' = [ended EXCEPT ![r] = "none"] /\ UNCHANGED <<usage, slot, sessions, memo>>
    BY DEF IInv, Arrive
<1>2. Moves(r, "quota")
    <2>1. a \in Requested /\ a.pc = "quota"
        BY DEF Idle, Requested, Steps
    <2>2. req' = [req EXCEPT ![r] = a] /\ req \in [Requests -> Requested]
        BY <1>1 DEF Arrive, Typed
    <2> HIDE DEF a
    <2>3. QED BY <2>1, <2>2 DEF Moves
<1>8. ended' \in [Requests -> Endings] /\ ended'[r] = "none"
          /\ \A s \in Requests : s # r => ended'[s] = ended[s]
    BY <1>1 DEF Typed, Endings
<1>3. LedgerSound(r)'
    BY <1>1, <1>2, <1>8 DEF LedgerSound, UnderWay, Moves, At, sessions, InSlot, Calling, Streaming
<1>4. \A s \in Requests : LedgerSound(s)'
    BY <1>1, <1>2, <1>3, <1>8, RowLedger DEF sessions
<1>5. Typed'
    BY <1>1, <1>2, <1>8 DEF Typed, Moves, sessions, memo
<1>6. SlotEffect(r, "quota") /\ QueueEffect(r, "quota") /\ QuotaEffect(r, "quota")
    BY <1>1 DEF SlotEffect, QueueEffect, QuotaEffect, At, slot, InSlot, Calling, PastCheck
<1>7. QED BY <1>2, <1>4, <1>5, <1>6 DEF Kept, Effect

LEMMA RegisterKept ==
    ASSUME IInv, NEW r \in Requests, Register(r)
    PROVE  Kept(r)
<1>1. /\ Typed /\ LedgerSound(r) /\ At(r, "register") /\ Goes(r, "queued")
      /\ live' = [live EXCEPT ![r] = "queued"] /\ age' = [age EXCEPT ![r] = 0]
      /\ active' = active \cup {r} /\ queue' = Append(queue, r)
      /\ UNCHANGED <<usage, free, timer, sweep, ended, memo>>
    BY DEF IInv, Register
<1>2. Moves(r, "queued")
    BY <1>1, Going DEF Steps
<1>3. LedgerSound(r)'
    BY <1>1, <1>2 DEF Typed, LedgerSound, UnderWay, Moves, At, InSlot, Calling, Streaming
<1>4. \A s \in Requests : LedgerSound(s)'
    BY <1>1, <1>2, <1>3, RowLedger DEF Typed
<1>5. Typed'
    <2>1. 0 \in 0 .. StaleAge + 1 /\ "queued" \in Statuses
        BY Positive DEF Statuses
    <2>2. QED BY <1>1, <1>2, <2>1 DEF Typed, Moves, memo
<1>6. SlotEffect(r, "queued") /\ QueueEffect(r, "queued") /\ QuotaEffect(r, "queued")
    BY <1>1 DEF SlotEffect, QueueEffect, QuotaEffect, At, InSlot, Calling, PastCheck
<1>7. QED BY <1>2, <1>4, <1>5, <1>6 DEF Kept, Effect

LEMMA StatusKept ==
    ASSUME IInv, NEW r \in Requests, StartRunning(r) \/ StartStreaming(r)
    PROVE  Kept(r)
<1>1. /\ Typed /\ LedgerSound(r) 
      /\ UNCHANGED <<usage, queue, age, timer, sweep, active, ended, memo>>
    BY DEF IInv, StartRunning, StartStreaming, slot, account
<1>2. CASE StartRunning(r)
    <2>1. PICK pc \in {"switch", "call"} : Goes(r, pc)
        BY <1>2 DEF StartRunning
    <2>2. Moves(r, pc) /\ At(r, "run") /\ SetStatus(r, "running") /\ free' = free
        BY <1>1, <1>2, <2>1, Going DEF StartRunning, Steps, InSlot, Calling, slot
    <2>3. /\ live' \in [Requests -> Statuses]
          /\ live'[r] = IF live[r] = "none" THEN "none" ELSE "running"
          /\ \A s \in Requests : s # r => live'[s] = live[s]
        BY <1>1, <2>2, StatusSet DEF Statuses
    <2>4. LedgerSound(r)'
        BY <1>1, <2>1, <2>2, <2>3 DEF LedgerSound, UnderWay, Moves, At, InSlot, Calling, Streaming
    <2>5. \A s \in Requests : LedgerSound(s)'
        BY <1>1, <2>2, <2>3, <2>4, RowLedger
    <2>6. Typed'
        BY <1>1, <2>2, <2>3 DEF Typed, Moves, memo
    <2>7. SlotEffect(r, pc) /\ QueueEffect(r, pc) /\ QuotaEffect(r, pc)
        BY <1>1, <2>1, <2>2 DEF SlotEffect, QueueEffect, QuotaEffect, At, InSlot, Calling, PastCheck
    <2>8. QED BY <2>2, <2>5, <2>6, <2>7 DEF Kept, Effect
<1>3. CASE StartStreaming(r)
    <2>2. Moves(r, "begin") /\ At(r, "switch") /\ SetStatus(r, "streaming") /\ free' = free + 1
        BY <1>1, <1>3, Going DEF StartStreaming, Steps, Streaming
    <2>3. /\ live' \in [Requests -> Statuses]
          /\ live'[r] = IF live[r] = "none" THEN "none" ELSE "streaming"
          /\ \A s \in Requests : s # r => live'[s] = live[s]
        BY <1>1, <2>2, StatusSet DEF Statuses
    <2>4. LedgerSound(r)'
        BY <1>1, <2>2, <2>3 DEF LedgerSound, UnderWay, Moves, At, InSlot, Calling, Streaming
    <2>5. \A s \in Requests : LedgerSound(s)'
        BY <1>1, <2>2, <2>3, <2>4, RowLedger
    <2>6. Typed'
        BY <1>1, <2>2, <2>3 DEF Typed, Moves, memo
    <2>7. SlotEffect(r, "begin") /\ QueueEffect(r, "begin") /\ QuotaEffect(r, "begin")
        BY <1>1, <2>2 DEF SlotEffect, QueueEffect, QuotaEffect, At, InSlot, Calling, PastCheck
    <2>8. QED BY <2>2, <2>5, <2>6, <2>7 DEF Kept, Effect
<1>4. QED BY <1>2, <1>3

LEMMA EndKept ==
    ASSUME IInv, NEW r \in Requests, Finish(r) \/ Fail(r) \/ StreamEnds(r)
    PROVE  Kept(r)
<1>1. Typed /\ UNCHANGED <<usage, queue, memo>>
    BY DEF IInv, Finish, Fail, StreamEnds, slot
<1>2. PICK st \in {"done", "error"} : Close(r, st)
    BY DEF Finish, Fail, StreamEnds
<1>3. /\ req[r].pc # "idle" /\ req[r].pc # "queued"
      /\ \/ req[r].pc \in InSlot /\ free' = free + 1
         \/ req[r].pc \notin InSlot /\ free' = free
    BY DEF Finish, Fail, StreamEnds, At, InSlot, Calling, Failing, slot
<1>4. PICK how \in {"answered", "streamed", "failed"} :
          /\ EndsAs(r, how)
          /\ \/ how = "answered" /\ Close(r, "done") /\ active' = active
             \/ how = "streamed" /\ Close(r, "done") /\ active' = active \ {r}
             \/ how = "failed" /\ Close(r, "error") /\ active' = active \ {r}
    BY DEF Finish, Fail, StreamEnds
<1>5. /\ \A s \in Requests : LedgerSound(s)'
      /\ active' \in SUBSET Requests /\ ended' \in [Requests -> Endings] /\ Moves(r, "idle")
    <2>1. how \in Endings
        BY DEF Endings
    <2>2. \A s \in Requests : LedgerSound(s)'
        BY <1>3, <1>4, <2>1, EndLedger
    <2>3. QED BY <1>1, <1>4, <2>1, <2>2, Ending DEF Typed, EndsAs
<1>6. /\ live' \in [Requests -> Statuses] /\ timer' \in [Requests -> NoTimer .. RemoveDelay]
      /\ UNCHANGED <<age, sweep>>
    BY <1>1, <1>2, Closed DEF Statuses
<1>7. Typed'
    BY <1>1, <1>5, <1>6 DEF Typed, Moves, memo
<1>8. SlotEffect(r, "idle") /\ QueueEffect(r, "idle") /\ QuotaEffect(r, "idle")
    BY <1>1, <1>3 DEF SlotEffect, QueueEffect, QuotaEffect, InSlot, Calling, PastCheck
<1>9. QED BY <1>5, <1>7, <1>8 DEF Kept, Effect

LEMMA RequestKept ==
    ASSUME IInv, NEW r \in Requests,
           \/ \E stream, bypass \in BOOLEAN : Arrive(r, stream, bypass)
           \/ Handle(r) \/ Stream(r)
    PROVE  Kept(r)
BY ArriveKept, EntryKept, RegisterKept, AcquireKept, StatusKept, StepKept, AbandonKept, StoreKept, RecordKept,
   EndKept DEF Handle, Stream

(* The removals, the admin and time.                                         *)
LEMMA RemovalKept ==
    ASSUME IInv, NEW r \in Requests, Remove(r)
    PROVE  Typed' /\ \A s \in Requests : LedgerSound(s)'
<1>1. /\ Typed /\ LedgerSound(r) /\ live' = [live EXCEPT ![r] = "none"]
      /\ UNCHANGED <<req, usage, slot, age, active, ended, memo>>
    BY DEF IInv, Remove, DelayedRemove, PopStale, account
<1>2. /\ timer' \in [Requests -> NoTimer .. RemoveDelay] /\ sweep' \in SUBSET Requests
      /\ \A s \in Requests : s # r => timer'[s] = timer[s] /\ (s \in sweep' <=> s \in sweep)
    <2>1. NoTimer \in NoTimer .. RemoveDelay
        BY Positive DEF NoTimer
    <2>2. QED BY <1>1, <2>1 DEF Remove, DelayedRemove, PopStale, Typed
<1>3. Typed'
    BY <1>1, <1>2 DEF Typed, Statuses, memo
<1>4. ASSUME NEW s \in Requests, s # r
      PROVE  LedgerSound(s)'
    <2>1. LedgerSound(s) /\ SameRow(s)
        BY <1>1, <1>2, <1>4 DEF IInv, SameRow, Typed
    <2>2. QED BY <2>1, RowKept
<1>5. LedgerSound(r)'
    <2>1. live'[r] = "none" /\ age'[r] = age[r] /\ req'[r] = req[r]
        BY <1>1 DEF Typed
    <2>2. CASE DelayedRemove(r)
        <3>1. timer[r] # NoTimer /\ timer'[r] = NoTimer /\ sweep' = sweep
            BY <1>1, <2>2 DEF DelayedRemove, NoTimer, Typed
        <3>2. req[r].pc = "idle"
            BY <1>1, <3>1 DEF LedgerSound
        <3>3. QED
            BY <1>1, <2>1, <3>1, <3>2 DEF LedgerSound, UnderWay, InSlot, Calling, Streaming
    <2>3. CASE PopStale(r)
        <3>1. r \in sweep /\ r \notin sweep' /\ timer' = timer
            BY <2>3 DEF PopStale
        <3>2. age[r] > StaleAge
            BY <1>1, <3>1 DEF LedgerSound
        <3>3. QED
            BY <1>1, <2>1, <3>1, <3>2 DEF LedgerSound, UnderWay, InSlot, Calling, Streaming
    <2>4. QED BY <2>2, <2>3 DEF Remove
<1>6. QED BY <1>3, <1>4, <1>5

LEMMA OutsideKept ==
    ASSUME IInv, FindStale \/ ListKeys \/ DeleteKeys \/ ResetQuota \/ Tick
    PROVE  Typed' /\ \A s \in Requests : LedgerSound(s)'
<1>1. Typed /\ \A s \in Requests : LedgerSound(s)
    BY DEF IInv
<1>2. CASE FindStale
    <2>1. /\ sweep' = {r \in Requests : Stale(r)}
          /\ UNCHANGED <<req, usage, live, age, timer, active, ended, memo>>
        BY <1>2 DEF FindStale, account
    <2>2. Typed'
        BY <1>1, <2>1 DEF Typed, memo
    <2>3. \A s \in Requests : LedgerSound(s)'
        BY <1>1, <2>1 DEF LedgerSound, Stale, UnderWay, InSlot, Calling, Streaming
    <2>4. QED BY <2>2, <2>3
<1>3. CASE ListKeys \/ DeleteKeys \/ ResetQuota
    <2>1. UNCHANGED <<req, live, age, timer, sweep, active, ended>>
        BY <1>3 DEF ListKeys, DeleteKeys, ResetQuota, sessions, account
    <2>2. Typed'
        <3>1. clearing' \in BOOLEAN
            BY <1>1, <1>3 DEF ListKeys, DeleteKeys, ResetQuota, Typed, memo
        <3>2. usage' \in Nat /\ Gone \in Gone .. CacheTtl
            BY <1>1, <1>3, Positive DEF ListKeys, DeleteKeys, ResetQuota, Typed, Gone
        <3>3. cache' \in Gone .. CacheTtl
            BY <1>1, <1>3, <3>2 DEF ListKeys, DeleteKeys, ResetQuota, Typed, memo
        <3>4. QED BY <1>1, <2>1, <3>1, <3>2, <3>3 DEF Typed
    <2>3. \A s \in Requests : LedgerSound(s)'
        BY <1>1, <2>1, RowKept DEF SameRow
    <2>4. QED BY <2>2, <2>3
<1>4. CASE Tick
    <2>1. /\ UNCHANGED <<req, usage, live, sweep, active, ended, clearing>>
          /\ cache' = Aged(cache)
          /\ age' = [r \in Requests |-> IF live[r] # "none" /\ age[r] =< StaleAge
                                        THEN age[r] + 1 ELSE age[r]]
          /\ timer' = [r \in Requests |-> IF timer[r] > 0 THEN timer[r] - 1 ELSE timer[r]]
        BY <1>4 DEF Tick, account
    <2>2. cache' \in Gone .. CacheTtl
        BY <1>1, <2>1, Positive DEF Typed, Aged, Gone
    <2>3. \A s \in Requests :
             /\ age[s] \in 0 .. StaleAge + 1 /\ age'[s] \in 0 .. StaleAge + 1 /\ age'[s] >= age[s]
             /\ timer'[s] \in NoTimer .. RemoveDelay /\ (timer[s] = NoTimer => timer'[s] = NoTimer)
        BY <1>1, <2>1, Positive DEF Typed, NoTimer
    <2>4. Typed'
        BY <1>1, <2>1, <2>2, <2>3 DEF Typed
    <2>5. ASSUME NEW s \in Requests
          PROVE  LedgerSound(s)'
        <3>1. age[s] > StaleAge => age'[s] > StaleAge
            BY <2>3, Positive
        <3>2. QED
            BY <1>1, <2>1, <2>3, <3>1 DEF LedgerSound, UnderWay
    <2>6. QED BY <2>4, <2>5
<1>5. QED BY <1>2, <1>3, <1>4

(* Whatever moves no request and uses no quota keeps the counts.             *)
LEMMA CountsKept ==
    ASSUME IInv, Typed', UNCHANGED <<req, slot>>, usage' = usage \/ usage' = 0
    PROVE  (SlotsSound /\ QueueSound /\ QuotaSound)'
<1>1. In(InSlot)' = In(InSlot) /\ In({"queued"})' = In({"queued"}) /\ In(PastCheck)' = In(PastCheck)
    BY DEF In
<1>2. Cardinality(In(PastCheck)) \in 0 .. Cardinality(Requests)
    <2>1. In(PastCheck) \in SUBSET Requests
        BY DEF In
    <2>2. QED BY <2>1, HowMany
<1>3. SlotsSound' /\ QueueSound'
    BY <1>1 DEF IInv, SlotsSound, QueueSound, slot
<1>4. QuotaSound'
    <2> DEFINE n == Cardinality(In(PastCheck))
               m == Cardinality(In(PastCheck)')
    <2>1. m = n /\ usage \in Nat /\ usage + n =< Quota + Cardinality(Requests) - 1
        BY <1>1 DEF IInv, QuotaSound, Typed
    <2> HIDE DEF n, m
    <2>2. n \in Nat
        BY <1>2, Positive DEF n
    <2>3. usage' + m =< Quota + Cardinality(Requests) - 1
        BY <2>1, <2>2, Positive
    <2>4. QED BY <2>3 DEF QuotaSound, m
<1>5. QED BY <1>3, <1>4

LEMMA NextIInv ==
    ASSUME IInv, [Next]_vars
    PROVE  IInv'
<1>1. CASE \E r \in Requests : \/ \E stream, bypass \in BOOLEAN : Arrive(r, stream, bypass)
                               \/ Handle(r) \/ Stream(r)
    <2>1. PICK r \in Requests : Kept(r)
        BY <1>1, RequestKept
    <2>2. PICK pc : Effect(r, pc)
        BY <2>1 DEF Kept
    <2>3. SlotsSound' /\ QueueSound' /\ QuotaSound'
        BY <2>2, SlotStep, QueueStep, QuotaStep DEF IInv
    <2>4. QED BY <2>1, <2>3 DEF Kept, IInv
<1>2. CASE (\E r \in Requests : Remove(r)) \/ FindStale \/ ListKeys \/ DeleteKeys \/ ResetQuota \/ Tick
    <2>1. Typed' /\ \A s \in Requests : LedgerSound(s)'
        BY <1>2, RemovalKept, OutsideKept
    <2>2. UNCHANGED <<req, slot>> /\ (usage' = usage \/ usage' = 0)
        BY <1>2 DEF Remove, DelayedRemove, PopStale, FindStale, ListKeys, DeleteKeys, ResetQuota, Tick
    <2>3. (SlotsSound /\ QueueSound /\ QuotaSound)'
        BY <2>1, <2>2, CountsKept
    <2>4. QED BY <2>1, <2>3 DEF IInv
<1>3. CASE UNCHANGED vars
    <2>1. UNCHANGED <<req, usage, slot, live, age, timer, sweep, active, ended, memo>>
        BY <1>3 DEF vars, sessions, account
    <2>2. Typed'
        BY <2>1 DEF IInv, Typed, memo
    <2>3. \A s \in Requests : LedgerSound(s)'
        BY <2>1, RowKept DEF IInv, SameRow
    <2>4. (SlotsSound /\ QueueSound /\ QuotaSound)'
        BY <2>1, <2>2, CountsKept
    <2>5. QED BY <2>2, <2>3, <2>4 DEF IInv
<1>4. QED BY <1>1, <1>2, <1>3 DEF Next

LEMMA InitIInv == Init => IInv
<1> SUFFICES ASSUME Init PROVE IInv
    OBVIOUS
<1>1. Idle \in Requested /\ Idle.pc = "idle"
    BY DEF Idle, Requested, Steps
<1>2. \A r \in Requests : req[r] = Idle
    BY DEF Init
<1>3. Typed
    <2>1. 0 \in 0 .. StaleAge + 1 /\ NoTimer \in NoTimer .. RemoveDelay /\ Gone \in Gone .. CacheTtl
        BY Positive DEF NoTimer, Gone
    <2>2. QED BY <1>1, <2>1 DEF Init, Typed, Statuses, Endings
<1>4. In(InSlot) = {} /\ In({"queued"}) = {} /\ In(PastCheck) = {}
    BY <1>1, <1>2 DEF In, InSlot, Calling, PastCheck
<1>5. SlotsSound
    BY <1>4, FS_EmptySet, Positive DEF SlotsSound, Init
<1>6. QueueSound
    BY <1>4 DEF QueueSound, Init
<1>7. QuotaSound
    BY <1>4, FS_EmptySet, Positive DEF QuotaSound, Init
<1>8. ASSUME NEW r \in Requests
      PROVE  LedgerSound(r)
    BY <1>1, <1>2 DEF LedgerSound, Init, UnderWay, InSlot, Calling, Streaming, NoTimer
<1>9. QED BY <1>3, <1>5, <1>6, <1>7, <1>8 DEF IInv

--------------------------------------------------------------------------------
\* IInv holds in every state the handlers, the removals, the admin and time reach
\* (main.py:381-564, session_manager.py).
THEOREM Invariance == Spec => []IInv
<1>1. IInv /\ [Next]_vars => IInv'
    BY NextIInv
<1>2. QED BY <1>1, InitIInv, PTL DEF Spec

\* Every slot is with a request that is in the code between acquiring and
\* releasing it, or free, on all ways out of the handler (main.py:438); and the
\* waiters of the semaphore are the requests that are queued, each once.
THEOREM TypeCorrect == Spec => []TypeOK
<1>1. IInv => TypeOK
    <2> SUFFICES ASSUME IInv PROVE TypeOK
        OBVIOUS
    <2>1. free \in 0 .. Slots /\ free = Slots - Cardinality({r \in Requests : req[r].pc \in InSlot})
        BY DEF IInv, SlotsSound, In
    <2>2. {queue[i] : i \in DOMAIN queue} = {r \in Requests : At(r, "queued")}
        <3>1. DOMAIN queue = 1 .. Len(queue)
            BY DEF IInv, QueueSound
        <3>2. In({"queued"}) = {r \in Requests : At(r, "queued")}
            BY DEF In, At
        <3>3. QED BY <3>1, <3>2 DEF IInv, QueueSound
    <2>3. QED BY <2>1, <2>2 DEF IInv, Typed, TypeOK, Requested, Statuses, Endings
<1>2. QED BY <1>1, Invariance, PTL

\* The quota is exceeded by requests in flight only, however many there are
\* (main.py:388, 524).
THEOREM QuotaOvershootIsInFlightHolds == Spec => []QuotaOvershootIsInFlight
<1>1. IInv => QuotaOvershootIsInFlight
    <2> SUFFICES ASSUME IInv PROVE QuotaOvershootIsInFlight
        OBVIOUS
    <2> DEFINE n == Cardinality(In(PastCheck))
    <2>1. n \in 0 .. Cardinality(Requests)
        <3>1. In(PastCheck) \in SUBSET Requests
            BY DEF In
        <3>2. QED BY <3>1, HowMany
    <2>2. usage \in Nat /\ usage + n =< Quota + Cardinality(Requests) - 1
        BY DEF IInv, QuotaSound, Typed
    <2> HIDE DEF n
    <2>3. QED BY <2>1, <2>2, Positive DEF QuotaOvershootIsInFlight
<1>2. QED BY <1>1, Invariance, PTL

\* The live list and the active requests tell the truth about every request,
\* whatever the requests, scheduled removals and cleanups do to each other
\* (session_manager.py:77, 134, 224), but for a stream abandoned before its
\* first chunk and an answered request's entry (main.py:449, 434).
THEOREM LedgersTellTruthHolds == Spec => []LedgersTellTruth
<1>1. IInv => LedgersTellTruth
    BY DEF IInv, LedgerSound, LedgersTellTruth, At
<1>2. QED BY <1>1, Invariance, PTL

--------------------------------------------------------------------------------
(* The live dashboard: SessionManager and the pages that watch it.           *)

CallRecord == [pc : {"idle", "save", "send"}, data : ShownOrNot,
               left : SUBSET Sockets, dead : SUBSET Sockets]
SnapRecord == [pc : {"closed", "keys", "read", "open"}, known : SUBSET Chats,
               keys : SUBSET Chats, copies : [Chats -> ShownOrNot]]
Stages == {"new", "queued", "running", "streaming", "chunks", "over", "closing"}

BoardTyped ==
    /\ stage \in [Chats -> Stages] /\ status \in [Chats -> ShownOrNot]
    /\ call \in [Chats -> CallRecord]
    /\ listed \subseteq Chats /\ cut \subseteq Chats /\ due \subseteq Chats
    /\ found \subseteq Chats
    /\ copy \in [Chats -> ShownOrNot]
    /\ clients \subseteq Sockets /\ up \subseteq Sockets /\ up \subseteq clients
    /\ snap \in [Sockets -> SnapRecord]
    /\ picture \in [Sockets -> [Chats -> ShownOrNot]]
    /\ fading \in [Sockets -> SUBSET Chats] /\ overtaken \in [Sockets -> SUBSET Chats]

\* The status a listed session has while its handler is at some stage.
StatusAt == [new |-> {}, queued |-> {"queued"}, running |-> {"running"},
             streaming |-> {"streaming"}, chunks |-> {"streaming"}, over |-> Over, closing |-> Over]

\* One session: its object, its call and its copy.
ChatSound(s) ==
    /\ s \in listed => status[s] \in StatusAt[stage[s]]
    /\ stage[s] = "new" => status[s] = "none"
    /\ call[s].pc # "idle" => call[s].data = status[s]
    /\ call[s].dead \cap up = {}
    /\ Place[copy[s]] =< Place[status[s]]

\* Nothing that a page shows, or is about to, is ahead of the session.
PageSound(c, s) ==
    /\ Place[picture[c][s]] =< Place[status[s]]
    /\ Place[snap[c].copies[s]] =< Place[status[s]]
    /\ s \in fading[c] => status[s] \in Over

\* What a snapshot has not read of the live list was registered after it.
ReadSound(c, s) ==
    snap[c].pc \in {"keys", "read"} /\ s \in listed => s \in snap[c].known \cup overtaken[c]

Current(c, s) ==
    \/ picture[c][s] = status[s]
    \/ Untold(s, c)
    \/ status[s] \in Over /\ picture[c][s] = "none"

TruePicture(c, s) ==
    c \in up /\ s \in listed /\ snap[c].pc = "open" /\ s \notin overtaken[c] \cup cut
        => Current(c, s)

BoardInv ==
    /\ BoardTyped
    /\ \A s \in Chats : ChatSound(s)
    /\ \A c \in Sockets, s \in Chats : PageSound(c, s) /\ ReadSound(c, s) /\ TruePicture(c, s)

\* The order of the statuses.
LEMMA Places ==
    /\ \A x \in ShownOrNot : Place[x] \in 0 .. 4
    /\ Place["none"] = 0 /\ Place["queued"] = 1 /\ Place["running"] = 2
    /\ Place["streaming"] = 3 /\ Place["done"] = 4 /\ Place["error"] = 4
BY DEF Place, ShownOrNot, Shown, Over

\* StatusAt, stage by stage.
LEMMA StatusOf ==
    /\ StatusAt["new"] = {} /\ StatusAt["queued"] = {"queued"}
    /\ StatusAt["running"] = {"running"} /\ StatusAt["streaming"] = {"streaming"}
    /\ StatusAt["chunks"] = {"streaming"} /\ StatusAt["over"] = Over /\ StatusAt["closing"] = Over
BY DEF StatusAt

--------------------------------------------------------------------------------
(* The handler's calls.                                                      *)

\* What a page shows and has read stays behind a status that rises.
LEMMA BehindKept ==
    ASSUME BoardInv, status' \in [Chats -> ShownOrNot],
           NEW s \in Chats, Place[status[s]] =< Place[status'[s]],
           status[s] \in Over => status'[s] = status[s],
           copy' = copy, picture' = picture, fading' = fading, snap' = snap
    PROVE  /\ Place[copy'[s]] =< Place[status'[s]]
           /\ \A c \in Sockets : PageSound(c, s)'
<1>1. status \in [Chats -> ShownOrNot] /\ copy \in [Chats -> ShownOrNot]
      /\ picture \in [Sockets -> [Chats -> ShownOrNot]] /\ snap \in [Sockets -> SnapRecord]
    BY DEF BoardInv, BoardTyped
<1>2. Place[status[s]] \in 0 .. 4 /\ Place[status'[s]] \in 0 .. 4 /\ Place[copy[s]] \in 0 .. 4
    BY <1>1, Places
<1>3. Place[copy[s]] =< Place[status[s]]
    BY DEF BoardInv, ChatSound
<1>4. ASSUME NEW c \in Sockets PROVE PageSound(c, s)'
    <2>1. PageSound(c, s)
        BY DEF BoardInv
    <2>2. picture[c][s] \in ShownOrNot /\ snap[c].copies[s] \in ShownOrNot
        BY <1>1 DEF SnapRecord
    <2>3. Place[picture[c][s]] \in 0 .. 4 /\ Place[snap[c].copies[s]] \in 0 .. 4
        BY <2>2, Places
    <2>4. Place[picture[c][s]] =< Place[status'[s]] /\ Place[snap[c].copies[s]] =< Place[status'[s]]
        BY <1>2, <2>1, <2>3 DEF PageSound
    <2>5. s \in fading[c] => status'[s] \in Over
        BY <2>1 DEF PageSound
    <2>6. QED BY <2>4, <2>5 DEF PageSound
<1>5. QED BY <1>2, <1>3, <1>4

\* The step of a call that raises the status of s, or keeps it, and has a message to send.
LEMMA CallKept ==
    ASSUME BoardInv, NEW s \in Chats, NEW at \in Stages, NEW new \in Shown, NEW k \in CallRecord,
           stage' = [stage EXCEPT ![s] = at],
           status' = [status EXCEPT ![s] = new],
           call' = [call EXCEPT ![s] = k],
           k.data = new, k.dead = {}, k.pc = "save" \/ (k.pc = "send" /\ k.left = clients),
           Place[status[s]] =< Place[new], status[s] \in Over => new = status[s],
           new \in StatusAt[at], at # "new",
           listed' \in {listed, listed \cup {s}},
           \A c \in Sockets : overtaken'[c] \in {overtaken[c], overtaken[c] \cup {s}},
           \A c \in Sockets : s \in listed' /\ snap[c].pc \in {"keys", "read"}
                                => s \in snap[c].known \cup overtaken'[c],
           overtaken' \in [Sockets -> SUBSET Chats],
           UNCHANGED <<cut, goneVars, copy, pageVars, viewVars>>
    PROVE  BoardInv'
<1>1. /\ stage \in [Chats -> Stages] /\ status \in [Chats -> ShownOrNot]
      /\ call \in [Chats -> CallRecord] /\ up \subseteq clients /\ up \subseteq Sockets
      /\ new \in ShownOrNot
    BY DEF BoardInv, BoardTyped, ShownOrNot
<1>2. /\ stage' \in [Chats -> Stages] /\ status' \in [Chats -> ShownOrNot]
      /\ call' \in [Chats -> CallRecord]
    BY <1>1
<1>3. /\ cut' = cut /\ due' = due /\ found' = found /\ copy' = copy
      /\ clients' = clients /\ up' = up /\ snap' = snap /\ picture' = picture /\ fading' = fading
    BY DEF pageVars, viewVars, goneVars
<1>4. BoardTyped'
  <2>1. BoardTyped
      BY DEF BoardInv
  <2>2. QED BY <1>3, <1>2, <2>1 DEF BoardTyped
<1>5. stage'[s] = at /\ status'[s] = new /\ call'[s] = k
    BY <1>1
<1>6. \A t \in Chats : t # s => /\ stage'[t] = stage[t] /\ status'[t] = status[t]
                                /\ call'[t] = call[t] /\ (t \in listed' <=> t \in listed)
    BY <1>1
<1>7. \A t \in Chats : /\ Place[status[t]] =< Place[status'[t]]
                       /\ status[t] \in Over => status'[t] = status[t]
  <2>1. \A t \in Chats : Place[status[t]] \in 0 .. 4
      BY <1>1, Places
  <2>2. QED BY <1>5, <1>6, <2>1
<1>8. ASSUME NEW t \in Chats
       PROVE  /\ Place[copy'[t]] =< Place[status'[t]]
              /\ \A c \in Sockets : PageSound(c, t)'
  <2>1. Place[status[t]] =< Place[status'[t]] /\ (status[t] \in Over => status'[t] = status[t])
    BY <1>7
  <2>2. status' \in [Chats -> ShownOrNot] /\ copy' = copy /\ picture' = picture /\ fading' = fading
        /\ snap' = snap
    BY <1>3, <1>2
  <2>3. QED BY <2>1, <2>2, BehindKept, Zenon
<1>9. ASSUME NEW t \in Chats PROVE ChatSound(t)'
  <2>1. Place[copy'[t]] =< Place[status'[t]]
      BY <1>8
  <2>2. CASE t = s
      BY <2>1, <2>2, <1>5 DEF ChatSound
  <2>3. CASE t # s
    <3>1. ChatSound(t)
        BY DEF BoardInv
    <3>2. QED BY <1>3, <2>1, <2>3, <3>1, <1>6 DEF ChatSound
  <2>4. QED BY <2>2, <2>3
<1>10. ASSUME NEW c \in Sockets, NEW t \in Chats
      PROVE  PageSound(c, t)' /\ ReadSound(c, t)' /\ TruePicture(c, t)'
  <2>1. PageSound(c, t)'
      BY <1>8
  <2>2. ReadSound(c, t) /\ TruePicture(c, t)
      BY DEF BoardInv
  <2>3. CASE t = s
    <3>1. ReadSound(c, s)'
        BY <1>3 DEF ReadSound
    <3>2. c \in up => Untold(s, c)'
        BY <1>3, <1>1, <1>5 DEF Untold
    <3>3. QED BY <1>3, <2>1, <2>3, <3>1, <3>2 DEF TruePicture, Current
  <2>4. CASE t # s
    <3>1. ReadSound(c, t)'
        BY <1>3, <1>6, <2>2, <2>4 DEF ReadSound
    <3>2. TruePicture(c, t)'
        BY <1>3, <1>6, <2>2, <2>4 DEF TruePicture, Current, Untold
    <3>3. QED BY <2>1, <3>1, <3>2
  <2>5. QED BY <2>3, <2>4
<1>11. QED BY <1>4, <1>9, <1>10 DEF BoardInv

\* The handler of a session that is no longer listed.
LEMMA StageKept ==
    ASSUME BoardInv, NEW s \in Chats, NEW at \in Stages, at # "new", s \notin listed,
           stage' = [stage EXCEPT ![s] = at],
           UNCHANGED <<status, call, listed, cut, goneVars, copy, pageVars, viewVars, overtaken>>
    PROVE  BoardInv'
<1>1. /\ cut' = cut /\ due' = due /\ found' = found /\ copy' = copy /\ overtaken' = overtaken
      /\ clients' = clients /\ up' = up /\ snap' = snap /\ picture' = picture /\ fading' = fading
      /\ status' = status /\ call' = call /\ listed' = listed
    BY DEF pageVars, viewVars, goneVars
<1>2. BoardTyped /\ stage' \in [Chats -> Stages]
    BY DEF BoardInv, BoardTyped
<1>3. BoardTyped'
    BY <1>1, <1>2 DEF BoardTyped
<1>4. ASSUME NEW t \in Chats PROVE ChatSound(t)'
  <2>1. ChatSound(t)
      BY DEF BoardInv
  <2>2. t # s => stage'[t] = stage[t]
      BY <1>2 DEF BoardTyped
  <2>3. stage'[s] = at
      BY <1>2 DEF BoardTyped
  <2>4. QED BY <1>1, <2>1, <2>2, <2>3 DEF ChatSound
<1>5. ASSUME NEW c \in Sockets, NEW t \in Chats
      PROVE  PageSound(c, t)' /\ ReadSound(c, t)' /\ TruePicture(c, t)'
  <2>1. PageSound(c, t) /\ ReadSound(c, t) /\ TruePicture(c, t)
      BY DEF BoardInv
  <2>2. QED BY <1>1, <2>1 DEF PageSound, ReadSound, TruePicture, Current, Untold
<1>6. QED BY <1>3, <1>4, <1>5 DEF BoardInv

\* register
LEMMA StartKept ==
    ASSUME BoardInv, NEW s \in Chats, StartSession(s)
    PROVE  BoardInv'
<1>1. /\ stage' = [stage EXCEPT ![s] = "queued"] /\ status' = [status EXCEPT ![s] = "queued"]
      /\ call' = [call EXCEPT ![s] = Saving("queued")] /\ listed' = listed \cup {s}
      /\ UNCHANGED <<cut, goneVars, copy, pageVars, viewVars>>
    BY DEF StartSession
<1>2. status[s] = "none"
    BY DEF BoardInv, ChatSound, StartSession
<1>3. "queued" \in Stages /\ "queued" \in Shown /\ "queued" \in StatusAt["queued"]
      /\ "queued" # "new" /\ "none" \notin Over /\ Place["none"] =< Place["queued"]
    BY StatusOf, Places DEF Stages, Shown, Over
<1>4. Saving("queued") \in CallRecord /\ Saving("queued").data = "queued"
      /\ Saving("queued").dead = {} /\ Saving("queued").pc = "save"
    BY DEF Saving, NoCall, CallRecord, ShownOrNot, Shown
<1>5. overtaken \in [Sockets -> SUBSET Chats]
    BY DEF BoardInv, BoardTyped
<1>6. overtaken' = [c \in Sockets |-> IF c \in Reading THEN overtaken[c] \cup {s} ELSE overtaken[c]]
    BY DEF StartSession
<1>7. /\ overtaken' \in [Sockets -> SUBSET Chats]
      /\ \A c \in Sockets : overtaken'[c] \in {overtaken[c], overtaken[c] \cup {s}}
    BY <1>5, <1>6
<1>8. \A c \in Sockets : s \in listed' /\ snap[c].pc \in {"keys", "read"}
                            => s \in snap[c].known \cup overtaken'[c]
    BY <1>6 DEF Reading
<1> DEFINE k == Saving("queued")
<1>9. /\ k \in CallRecord /\ k.data = "queued" /\ k.dead = {} /\ k.pc = "save"
      /\ call' = [call EXCEPT ![s] = k] /\ listed' \in {listed, listed \cup {s}}
      /\ Place[status[s]] =< Place["queued"] /\ (status[s] \in Over => "queued" = status[s])
    BY <1>1, <1>2, <1>3, <1>4
<1> HIDE DEF k
<1>10. QED BY <1>1, <1>3, <1>7, <1>8, <1>9, CallKept

\* update, of a session that is listed and of one that is not.
LEMMA UpdateKept ==
    ASSUME BoardInv, NEW s \in Chats, NEW next, UpdateSession(s, next)
    PROVE  BoardInv'
<1>1. <<stage[s], next>> \in Calls /\ stage' = [stage EXCEPT ![s] = next]
      /\ listed' = listed /\ overtaken' = overtaken
      /\ UNCHANGED <<cut, goneVars, copy, pageVars, viewVars>>
    BY DEF UpdateSession
<1>2. next \in Stages /\ next # "new"
    BY <1>1 DEF Calls, Stages
<1>3. CASE s \notin listed
  <2>1. status' = status /\ call' = call
      BY <1>3 DEF UpdateSession
  <2>2. QED BY <1>1, <1>2, <1>3, <2>1, StageKept
<1>4. CASE s \in listed
  <2> DEFINE new == IF next = "chunks" THEN status[s] ELSE next
  <2>1. status' = [status EXCEPT ![s] = new] /\ call' = [call EXCEPT ![s] = Saving(new)]
      BY <1>4 DEF UpdateSession
  <2>2. status[s] \in StatusAt[stage[s]]
      BY <1>4 DEF BoardInv, ChatSound
  <2>3. /\ new \in {"running", "streaming"} /\ new \in StatusAt[next]
        /\ status[s] \in {"queued", "running", "streaming"}
        /\ Place[status[s]] =< Place[new]
      BY <1>1, <2>2, StatusOf, Places DEF Calls
  <2> HIDE DEF new
  <2>4. new \in Shown /\ new \in ShownOrNot /\ status[s] \notin Over
      BY <2>3 DEF Shown, ShownOrNot, Over
  <2>5. Saving(new) \in CallRecord /\ Saving(new).data = new /\ Saving(new).dead = {}
        /\ Saving(new).pc = "save"
      BY <2>4 DEF Saving, NoCall, CallRecord
  <2>6. \A c \in Sockets : ReadSound(c, s)
      BY DEF BoardInv
  <2>7. \A c \in Sockets : s \in listed' /\ snap[c].pc \in {"keys", "read"}
                              => s \in snap[c].known \cup overtaken'[c]
      BY <1>1, <2>6 DEF ReadSound
  <2>8. overtaken \in [Sockets -> SUBSET Chats]
      BY DEF BoardInv, BoardTyped
  <2>9. QED BY <1>1, <1>2, <2>1, <2>3, <2>4, <2>5, <2>7, <2>8, CallKept
<1>5. QED BY <1>3, <1>4

\* close
LEMMA CloseKept ==
    ASSUME BoardInv, NEW s \in Chats, NEW next, NEW final, CloseSession(s, next, final)
    PROVE  BoardInv'
<1>1. <<stage[s], next, final>> \in Closings /\ stage' = [stage EXCEPT ![s] = next]
      /\ listed' = listed /\ overtaken' = overtaken
      /\ UNCHANGED <<cut, goneVars, copy, pageVars, viewVars>>
    BY DEF CloseSession
<1>2. next \in {"over", "closing"} /\ final \in Over
      /\ stage[s] \in {"running", "streaming", "chunks"}
    BY <1>1 DEF Closings, Over
<1>3. next \in Stages /\ next # "new"
    BY <1>2 DEF Stages
<1>4. CASE s \notin listed
  <2>1. status' = status /\ call' = call
      BY <1>4 DEF CloseSession
  <2>2. QED BY <1>1, <1>3, <1>4, <2>1, StageKept
<1>5. CASE s \in listed
  <2>1. status' = [status EXCEPT ![s] = final] /\ call' = [call EXCEPT ![s] = Sending(final)]
      BY <1>5 DEF CloseSession
  <2>2. status[s] \in StatusAt[stage[s]]
      BY <1>5 DEF BoardInv, ChatSound
  <2>3. final \in StatusAt[next] /\ status[s] \in {"running", "streaming"}
      BY <1>2, <2>2, StatusOf
  <2>4. Place[status[s]] =< Place[final] /\ final \in Shown /\ final \in ShownOrNot
        /\ status[s] \notin Over
      BY <1>2, <2>3, Places DEF Over, Shown, ShownOrNot
  <2>5. clients \subseteq Sockets /\ overtaken \in [Sockets -> SUBSET Chats]
      BY DEF BoardInv, BoardTyped
  <2>6. Sending(final) \in CallRecord /\ Sending(final).data = final /\ Sending(final).dead = {}
        /\ Sending(final).pc = "send" /\ Sending(final).left = clients
      BY <2>4, <2>5 DEF Sending, NoCall, CallRecord
  <2>7. \A c \in Sockets : ReadSound(c, s)
      BY DEF BoardInv
  <2>8. \A c \in Sockets : s \in listed' /\ snap[c].pc \in {"keys", "read"}
                              => s \in snap[c].known \cup overtaken'[c]
      BY <1>1, <2>7 DEF ReadSound
  <2>9. QED BY <1>1, <1>3, <2>1, <2>3, <2>4, <2>5, <2>6, <2>8, CallKept
<1>6. QED BY <1>4, <1>5

\* The save of a call: the copy is brought up to the object, and every socket there is
\* is about to be told.
LEMMA SaveKept ==
    ASSUME BoardInv, NEW s \in Chats, NEW saved, SaveSession(s, saved)
    PROVE  BoardInv'
<1> DEFINE k == Sending(status[s])
<1>1. /\ call[s].pc = "save" /\ call' = [call EXCEPT ![s] = k]
      /\ copy' = [copy EXCEPT ![s] = call[s].data] \/ copy' = copy
      /\ stage' = stage /\ status' = status /\ listed' = listed /\ cut' = cut
      /\ due' = due /\ found' = found /\ clients' = clients /\ up' = up /\ snap' = snap
      /\ picture' = picture /\ fading' = fading /\ overtaken' = overtaken
    BY DEF SaveSession, goneVars, pageVars, viewVars
<1>2. BoardTyped /\ ChatSound(s)
    BY DEF BoardInv
<1>3. call[s].data = status[s] /\ status[s] \in ShownOrNot /\ Place[status[s]] \in 0 .. 4
    BY <1>1, <1>2, Places DEF BoardTyped, ChatSound
<1>4. k \in CallRecord /\ k.pc = "send" /\ k.data = status[s] /\ k.left = clients /\ k.dead = {}
    BY <1>2, <1>3 DEF Sending, NoCall, CallRecord, BoardTyped
<1> HIDE DEF k
<1>5. call' \in [Chats -> CallRecord] /\ copy' \in [Chats -> ShownOrNot]
    BY <1>1, <1>2, <1>3, <1>4 DEF BoardTyped
<1>6. BoardTyped'
    BY <1>1, <1>2, <1>5 DEF BoardTyped
<1>7. call'[s] = k /\ \A t \in Chats : t # s => call'[t] = call[t] /\ copy'[t] = copy[t]
    BY <1>1, <1>2 DEF BoardTyped
<1>8. Place[copy'[s]] =< Place[status[s]]
  <2>1. CASE copy' = copy
      BY <1>2, <2>1 DEF ChatSound
  <2>2. CASE copy' = [copy EXCEPT ![s] = call[s].data]
    <3>1. copy'[s] = status[s]
        BY <1>2, <1>3, <2>2 DEF BoardTyped
    <3>2. QED BY <1>3, <3>1
  <2>3. QED BY <1>1, <2>1, <2>2
<1>9. ASSUME NEW t \in Chats PROVE ChatSound(t)'
  <2>1. ChatSound(t)
      BY DEF BoardInv
  <2>2. CASE t = s
      BY <1>1, <1>4, <1>7, <1>8, <2>1, <2>2 DEF ChatSound
  <2>3. CASE t # s
      BY <1>1, <1>7, <2>1, <2>3 DEF ChatSound
  <2>4. QED BY <2>2, <2>3
<1>10. ASSUME NEW c \in Sockets, NEW t \in Chats
       PROVE  PageSound(c, t)' /\ ReadSound(c, t)' /\ TruePicture(c, t)'
  <2>1. PageSound(c, t) /\ ReadSound(c, t) /\ TruePicture(c, t)
      BY DEF BoardInv
  <2>2. PageSound(c, t)' /\ ReadSound(c, t)'
      BY <1>1, <2>1 DEF PageSound, ReadSound
  <2>3. t = s => TruePicture(c, t)'
      BY <1>1, <1>2, <1>4, <1>7 DEF TruePicture, Current, Untold, BoardTyped
  <2>4. t # s => TruePicture(c, t)'
      BY <1>1, <1>7, <2>1 DEF TruePicture, Current, Untold
  <2>5. QED BY <2>2, <2>3, <2>4
<1>11. QED BY <1>6, <1>9, <1>10 DEF BoardInv

\* _broadcast: a page that has heard a message shows the session as it is, and a socket
\* that could not be told is not connected.
LEMMA SendKept ==
    ASSUME BoardInv, NEW s \in Chats, NEW c \in Sockets, SendUpdate(s, c)
    PROVE  BoardInv'
<1>1. /\ call[s].pc = "send" /\ c \in call[s].left
      /\ stage' = stage /\ status' = status /\ listed' = listed /\ cut' = cut
      /\ due' = due /\ found' = found /\ clients' = clients /\ up' = up /\ snap' = snap
      /\ copy' = copy /\ overtaken' = overtaken
    BY DEF SendUpdate, goneVars, pageVars
<1>2. BoardTyped /\ ChatSound(s)
    BY DEF BoardInv
<1>3. call[s].data = status[s] /\ status[s] \in ShownOrNot /\ Place[status[s]] \in 0 .. 4
    BY <1>1, <1>2, Places DEF BoardTyped, ChatSound
<1> DEFINE d == IF c \in up THEN call[s].dead ELSE call[s].dead \cup {c}
           k == [call[s] EXCEPT !.left = @ \ {c}, !.dead = d]
<1>4. call[s] \in CallRecord /\ call \in [Chats -> CallRecord]
    BY <1>2 DEF BoardTyped
<1>5. d \subseteq Sockets /\ d \cap up = {}
    BY <1>2, <1>4 DEF ChatSound, CallRecord
<1>6. call' = [call EXCEPT ![s] = k]
  <2>1. CASE c \in up
    <3>1. call' = [call EXCEPT ![s].left = @ \ {c}]
        BY <2>1 DEF SendUpdate
    <3>2. k = [call[s] EXCEPT !.left = @ \ {c}]
        BY <1>4, <2>1 DEF CallRecord
    <3>3. QED BY <1>4, <3>1, <3>2
  <2>2. CASE c \notin up
      BY <1>4, <2>2 DEF SendUpdate
  <2>3. QED BY <2>1, <2>2
<1> HIDE DEF d
<1>7. k \in CallRecord /\ k.pc = "send" /\ k.data = status[s] /\ k.dead = d
      /\ k.left = call[s].left \ {c}
    BY <1>1, <1>3, <1>4, <1>5 DEF CallRecord
<1> HIDE DEF k
<1>8. call' \in [Chats -> CallRecord] /\ call'[s] = k
      /\ \A t \in Chats : t # s => call'[t] = call[t]
    BY <1>4, <1>6, <1>7
<1>9. \/ picture' = picture /\ fading' = fading /\ c \notin up
      \/ /\ picture' = [picture EXCEPT ![c][s] = status[s]]
         /\ \/ fading' = fading
            \/ fading' = [fading EXCEPT ![c] = @ \cup {s}] /\ status[s] \in Over
  <2>1. CASE c \in up
      BY <1>3, <2>1 DEF SendUpdate, Show
  <2>2. CASE c \notin up
      BY <2>2 DEF SendUpdate, viewVars
  <2>3. QED BY <2>1, <2>2
<1>10. /\ picture' \in [Sockets -> [Chats -> ShownOrNot]]
       /\ c \in up => picture'[c][s] = status[s]
       /\ picture'[c][s] \in {picture[c][s], status[s]}
       /\ \A e \in Sockets, t \in Chats : e # c \/ t # s => picture'[e][t] = picture[e][t]
  <2>1. picture \in [Sockets -> [Chats -> ShownOrNot]]
      BY <1>2 DEF BoardTyped
  <2>2. CASE picture' = picture /\ c \notin up
      BY <2>1, <2>2
  <2>3. CASE picture' = [picture EXCEPT ![c][s] = status[s]]
    <3> DEFINE row == [picture[c] EXCEPT ![s] = status[s]]
    <3>1. row \in [Chats -> ShownOrNot] /\ row[s] = status[s]
          /\ \A t \in Chats : t # s => row[t] = picture[c][t]
        BY <1>3, <2>1
    <3>2. picture' = [picture EXCEPT ![c] = row]
        BY <2>1, <2>3
    <3> HIDE DEF row
    <3>3. QED BY <2>1, <3>1, <3>2
  <2>4. QED BY <1>9, <2>2, <2>3
<1>11. /\ fading' \in [Sockets -> SUBSET Chats]
       /\ \A e \in Sockets, t \in Chats :
             t \in fading'[e] => t \in fading[e] \/ (t = s /\ status[s] \in Over)
  <2>1. fading \in [Sockets -> SUBSET Chats]
      BY <1>2 DEF BoardTyped
  <2>2. CASE fading' = fading
      BY <2>1, <2>2
  <2>3. CASE fading' = [fading EXCEPT ![c] = @ \cup {s}] /\ status[s] \in Over
      BY <2>1, <2>3
  <2>4. QED BY <1>9, <2>2, <2>3
<1>12. BoardTyped'
    BY <1>1, <1>2, <1>8, <1>10, <1>11 DEF BoardTyped
<1>13. ASSUME NEW t \in Chats PROVE ChatSound(t)'
  <2>1. ChatSound(t)
      BY DEF BoardInv
  <2>2. CASE t = s
      BY <1>1, <1>5, <1>7, <1>8, <2>1, <2>2 DEF ChatSound
  <2>3. CASE t # s
      BY <1>1, <1>8, <2>1, <2>3 DEF ChatSound
  <2>4. QED BY <2>2, <2>3
<1>14. ASSUME NEW e \in Sockets, NEW t \in Chats
       PROVE  PageSound(e, t)' /\ ReadSound(e, t)' /\ TruePicture(e, t)'
  <2>1. PageSound(e, t) /\ ReadSound(e, t) /\ TruePicture(e, t)
      BY DEF BoardInv
  <2>2. ReadSound(e, t)'
      BY <1>1, <2>1 DEF ReadSound
  <2>3. PageSound(e, t)'
    <3>1. CASE e = c /\ t = s
        BY <1>1, <1>3, <1>10, <1>11, <2>1, <3>1 DEF PageSound
    <3>2. CASE e # c \/ t # s
        BY <1>1, <1>10, <1>11, <2>1, <3>2 DEF PageSound
    <3>3. QED BY <3>1, <3>2
  <2>4. TruePicture(e, t)'
    <3>1. CASE e = c /\ t = s
        BY <1>1, <1>10, <3>1 DEF TruePicture, Current
    <3>2. CASE e # c /\ t = s
        BY <1>1, <1>7, <1>8, <1>10, <2>1, <3>2 DEF TruePicture, Current, Untold
    <3>3. CASE t # s
        BY <1>1, <1>8, <1>10, <2>1, <3>3 DEF TruePicture, Current, Untold
    <3>4. QED BY <3>1, <3>2, <3>3
  <2>5. QED BY <2>2, <2>3, <2>4
<1>15. QED BY <1>12, <1>13, <1>14 DEF BoardInv

\* The end of a call, regular or by cancellation: nobody is left to be told, or the
\* session is excepted.
LEMMA CallEnds ==
    ASSUME BoardInv, NEW s \in Chats, call' = [call EXCEPT ![s] = NoCall],
           BoardTyped', stage' = stage, status' = status, listed' = listed, copy' = copy,
           up' = up, snap' = snap, picture' = picture, fading' = fading, overtaken' = overtaken,
           cut \subseteq cut',
           (call[s].pc = "send" /\ call[s].left = {}) \/ s \in cut'
    PROVE  BoardInv'
<1>1. call'[s] = NoCall /\ \A t \in Chats : t # s => call'[t] = call[t]
    BY DEF BoardInv, BoardTyped
<1>2. ASSUME NEW t \in Chats PROVE ChatSound(t)'
  <2>1. ChatSound(t)
      BY DEF BoardInv
  <2>2. QED BY <1>1, <2>1 DEF ChatSound, NoCall
<1>3. ASSUME NEW c \in Sockets, NEW t \in Chats
      PROVE  PageSound(c, t)' /\ ReadSound(c, t)' /\ TruePicture(c, t)'
  <2>1. PageSound(c, t) /\ ReadSound(c, t) /\ TruePicture(c, t)
      BY DEF BoardInv
  <2>2. PageSound(c, t)' /\ ReadSound(c, t)'
      BY <2>1 DEF PageSound, ReadSound
  <2>3. t = s => TruePicture(c, t)'
      BY <1>1, <2>1 DEF TruePicture, Current, Untold
  <2>4. t # s => TruePicture(c, t)'
      BY <1>1, <2>1 DEF TruePicture, Current, Untold
  <2>5. QED BY <2>2, <2>3, <2>4
<1>4. QED BY <1>2, <1>3 DEF BoardInv

\* The end of _broadcast: those discarded are not connected.
LEMMA BroadcastEndKept ==
    ASSUME BoardInv, NEW s \in Chats, EndBroadcast(s)
    PROVE  BoardInv'
<1>1. /\ call[s].pc = "send" /\ call[s].left = {} /\ call' = [call EXCEPT ![s] = NoCall]
      /\ clients' = clients \ call[s].dead /\ due' \in {due, due \cup {s}}
      /\ stage' = stage /\ status' = status /\ listed' = listed /\ cut' = cut
      /\ found' = found /\ up' = up /\ snap' = snap /\ copy' = copy
      /\ picture' = picture /\ fading' = fading /\ overtaken' = overtaken
    BY DEF EndBroadcast, viewVars
<1>2. BoardTyped /\ call[s].dead \cap up = {}
    BY DEF BoardInv, ChatSound
<1>3. NoCall \in CallRecord
    BY DEF NoCall, CallRecord, ShownOrNot
<1>4. call' \in [Chats -> CallRecord]
    BY <1>1, <1>2, <1>3 DEF BoardTyped
<1>5. BoardTyped'
    BY <1>1, <1>2, <1>4 DEF BoardTyped
<1>6. QED BY <1>1, <1>5, CallEnds

\* The cancellation of a generator.
LEMMA CutKept ==
    ASSUME BoardInv, NEW s \in Chats, CutOff(s)
    PROVE  BoardInv'
<1>1. /\ call' = [call EXCEPT ![s] = NoCall] /\ cut' = cut \cup {s}
      /\ stage' = stage /\ status' = status /\ listed' = listed /\ due' = due
      /\ found' = found /\ clients' = clients /\ up' = up /\ snap' = snap /\ copy' = copy
      /\ picture' = picture /\ fading' = fading /\ overtaken' = overtaken
    BY DEF CutOff, viewVars, goneVars, pageVars
<1>2. NoCall \in CallRecord
    BY DEF NoCall, CallRecord, ShownOrNot
<1>3. BoardTyped
    BY DEF BoardInv
<1>4. call' \in [Chats -> CallRecord]
    BY <1>1, <1>2, <1>3 DEF BoardTyped
<1>5. BoardTyped'
    BY <1>1, <1>3, <1>4 DEF BoardTyped
<1>6. QED BY <1>1, <1>5, CallEnds

--------------------------------------------------------------------------------
(* The removals.                                                             *)

\* What only shortens the live list, forgets copies, or schedules.
LEMMA ShorterKept ==
    ASSUME BoardInv, listed' \subseteq listed,
           due' \subseteq Chats, found' \subseteq Chats,
           copy' \in [Chats -> ShownOrNot],
           \A s \in Chats : copy'[s] \in {copy[s], "none"},
           UNCHANGED <<stage, status, call, cut, pageVars, viewVars, overtaken>>
    PROVE  BoardInv'
<1>1. /\ stage' = stage /\ status' = status /\ call' = call /\ cut' = cut
      /\ clients' = clients /\ up' = up /\ snap' = snap
      /\ picture' = picture /\ fading' = fading /\ overtaken' = overtaken
    BY DEF viewVars, pageVars
<1>2. BoardTyped
    BY DEF BoardInv
<1>3. BoardTyped'
    BY <1>1, <1>2 DEF BoardTyped
<1>4. ASSUME NEW s \in Chats PROVE ChatSound(s)'
  <2>1. ChatSound(s) /\ Place[status[s]] \in 0 .. 4
      BY <1>2, Places DEF BoardInv, BoardTyped
  <2>2. Place[copy'[s]] =< Place[status[s]]
      BY <2>1, Places DEF ChatSound
  <2>3. QED BY <1>1, <2>1, <2>2 DEF ChatSound
<1>5. ASSUME NEW c \in Sockets, NEW s \in Chats
      PROVE  PageSound(c, s)' /\ ReadSound(c, s)' /\ TruePicture(c, s)'
  <2>1. PageSound(c, s) /\ ReadSound(c, s) /\ TruePicture(c, s)
      BY DEF BoardInv
  <2>2. QED BY <1>1, <2>1 DEF PageSound, ReadSound, TruePicture, Current, Untold
<1>6. QED BY <1>3, <1>4, <1>5 DEF BoardInv

\* _delayed_remove, cleanup_stale and the store.
LEMMA BoardRemovalKept ==
    ASSUME BoardInv, NEW s \in Chats, RemovalStep(s)
    PROVE  BoardInv'
<1>1. BoardTyped
    BY DEF BoardInv
<1>2. CASE RemoveSession(s)
    BY <1>1, <1>2, ShorterKept DEF RemoveSession, Pop, BoardTyped
<1>3. CASE PopOld(s)
    BY <1>1, <1>3, ShorterKept DEF PopOld, Pop, BoardTyped
<1>4. CASE DropCopy(s)
  <2>1. "none" \in ShownOrNot
      BY DEF ShownOrNot
  <2>2. copy' \in [Chats -> ShownOrNot] /\ \A t \in Chats : copy'[t] \in {copy[t], "none"}
      BY <1>1, <1>4, <2>1 DEF DropCopy, BoardTyped
  <2>3. QED BY <1>1, <1>4, <2>2, ShorterKept DEF DropCopy, chatVars, goneVars, BoardTyped
<1>5. QED BY <1>2, <1>3, <1>4 DEF RemovalStep

\* The reading half of cleanup_stale.
LEMMA FoundKept ==
    ASSUME BoardInv, NEW old, FindOld(old)
    PROVE  BoardInv'
<1>1. BoardTyped
    BY DEF BoardInv
<1>2. QED BY <1>1, ShorterKept DEF FindOld, chatVars, BoardTyped

--------------------------------------------------------------------------------
(* Pages and sockets.                                                        *)

\* A step of one socket: what its page then shows and has read is all there is to say.
LEMMA SocketKept ==
    ASSUME BoardInv, NEW c \in Sockets, BoardTyped',
           UNCHANGED <<chatVars, goneVars, copy>>,
           \A s \in Chats : call[s].dead \cap up' = {},
           \A e \in Sockets : e # c => /\ e \in up' => e \in up
                                       /\ snap'[e] = snap[e] /\ picture'[e] = picture[e]
                                       /\ fading'[e] = fading[e] /\ overtaken'[e] = overtaken[e],
           \A s \in Chats : PageSound(c, s)' /\ ReadSound(c, s)' /\ TruePicture(c, s)'
    PROVE  BoardInv'
<1>1. /\ stage' = stage /\ status' = status /\ listed' = listed /\ call' = call /\ cut' = cut
      /\ due' = due /\ found' = found /\ copy' = copy
    BY DEF chatVars, goneVars
<1>2. ASSUME NEW s \in Chats PROVE ChatSound(s)'
  <2>1. ChatSound(s)
      BY DEF BoardInv
  <2>2. QED BY <1>1, <2>1 DEF ChatSound
<1>3. ASSUME NEW e \in Sockets, NEW s \in Chats
      PROVE  PageSound(e, s)' /\ ReadSound(e, s)' /\ TruePicture(e, s)'
  <2>1. PageSound(e, s) /\ ReadSound(e, s) /\ TruePicture(e, s)
      BY DEF BoardInv
  <2>2. CASE e # c
      BY <1>1, <2>1, <2>2 DEF PageSound, ReadSound, TruePicture, Current, Untold
  <2>3. QED BY <2>2
<1>4. QED BY <1>2, <1>3 DEF BoardInv

\* The socket's record becomes z; the rest of what is known of pages stays.
LEMMA SnapSet ==
    ASSUME BoardInv, NEW c \in Sockets, NEW z \in SnapRecord, snap' = [snap EXCEPT ![c] = z]
    PROVE  /\ snap' \in [Sockets -> SnapRecord] /\ snap'[c] = z
           /\ \A e \in Sockets : e # c => snap'[e] = snap[e]
BY DEF BoardInv, BoardTyped

\* What a socket that reads nothing has read.
LEMMA OutsideRecord ==
    /\ Outside \in SnapRecord
    /\ \A s \in Chats : Outside.copies[s] = "none"
    /\ Outside.pc = "closed"
BY DEF Outside, SnapRecord, ShownOrNot

\* subscribe: the live list that it reads has every listed session.
LEMMA SubscribeKept ==
    ASSUME BoardInv, NEW c \in Sockets, Subscribe(c)
    PROVE  BoardInv'
<1> DEFINE z == [Outside EXCEPT !.pc = "keys", !.known = listed]
<1>1. BoardTyped
    BY DEF BoardInv
<1>2. /\ snap' = [snap EXCEPT ![c] = z] /\ up' = up \cup {c} /\ clients' = clients \cup {c}
      /\ \A s \in Chats : c \notin call[s].left \cup call[s].dead
      /\ UNCHANGED <<chatVars, goneVars, copy>>
      /\ picture' = picture /\ fading' = fading /\ overtaken' = overtaken
    BY DEF Subscribe, viewVars
<1>3. z \in SnapRecord /\ z.pc = "keys" /\ z.known = listed /\ z.copies = Outside.copies
    BY <1>1, OutsideRecord DEF SnapRecord, BoardTyped
<1> HIDE DEF z
<1>4. /\ snap' \in [Sockets -> SnapRecord] /\ snap'[c] = z
      /\ \A e \in Sockets : e # c => snap'[e] = snap[e]
    BY <1>2, <1>3, SnapSet
<1>5. stage' = stage /\ status' = status /\ listed' = listed /\ call' = call /\ cut' = cut
      /\ due' = due /\ found' = found /\ copy' = copy
    BY <1>2 DEF chatVars, goneVars
<1>6. BoardTyped'
    BY <1>1, <1>2, <1>4, <1>5 DEF BoardTyped
<1>7. \A s \in Chats : call[s].dead \cap up' = {}
    BY <1>2 DEF BoardInv, ChatSound
<1>8. ASSUME NEW s \in Chats
      PROVE  PageSound(c, s)' /\ ReadSound(c, s)' /\ TruePicture(c, s)'
  <2>1. PageSound(c, s) /\ Place[status[s]] \in 0 .. 4
      BY <1>1, Places DEF BoardInv, BoardTyped
  <2>2. Place[snap'[c].copies[s]] =< Place[status[s]]
      BY <1>3, <1>4, <2>1, OutsideRecord, Places
  <2>3. PageSound(c, s)'
      BY <1>2, <1>5, <2>1, <2>2 DEF PageSound
  <2>4. QED BY <1>3, <1>4, <1>5, <2>3 DEF ReadSound, TruePicture
<1>9. QED BY <1>2, <1>4, <1>6, <1>7, <1>8, SocketKept

\* A socket that goes on reading: what was known stays known, and copies are of now.
LEMMA ReadingKept ==
    ASSUME BoardInv, NEW c \in Sockets, NEW z \in SnapRecord,
           snap[c].pc \in {"keys", "read"}, snap' = [snap EXCEPT ![c] = z],
           z.pc = "read", z.known = snap[c].known,
           \A s \in Chats : z.copies[s] \in {snap[c].copies[s], copy[s]},
           UNCHANGED <<chatVars, goneVars, copy, clients, up, viewVars, overtaken>>
    PROVE  BoardInv'
<1>1. BoardTyped
    BY DEF BoardInv
<1>2. /\ snap' \in [Sockets -> SnapRecord] /\ snap'[c] = z
      /\ \A e \in Sockets : e # c => snap'[e] = snap[e]
    BY SnapSet
<1>3. /\ stage' = stage /\ status' = status /\ listed' = listed /\ call' = call /\ cut' = cut
      /\ due' = due /\ found' = found /\ copy' = copy /\ clients' = clients /\ up' = up
      /\ picture' = picture /\ fading' = fading /\ overtaken' = overtaken
    BY DEF chatVars, goneVars, viewVars
<1>4. BoardTyped'
    BY <1>1, <1>2, <1>3 DEF BoardTyped
<1>5. \A s \in Chats : call[s].dead \cap up' = {}
    BY <1>3 DEF BoardInv, ChatSound
<1>6. ASSUME NEW s \in Chats
      PROVE  PageSound(c, s)' /\ ReadSound(c, s)' /\ TruePicture(c, s)'
  <2>1. PageSound(c, s) /\ ReadSound(c, s) /\ Place[copy[s]] =< Place[status[s]]
      BY DEF BoardInv, ChatSound
  <2>2. Place[snap'[c].copies[s]] =< Place[status[s]]
      BY <1>2, <2>1 DEF PageSound
  <2>3. PageSound(c, s)'
      BY <1>3, <2>1, <2>2 DEF PageSound
  <2>4. ReadSound(c, s)'
      BY <1>2, <1>3, <2>1 DEF ReadSound
  <2>5. TruePicture(c, s)'
      BY <1>2 DEF TruePicture
  <2>6. QED BY <2>3, <2>4, <2>5
<1>7. UNCHANGED <<chatVars, goneVars, copy>>
    OBVIOUS
<1>8. QED BY <1>2, <1>3, <1>4, <1>5, <1>6, <1>7, SocketKept

\* get_all_keys
LEMMA ListKept ==
    ASSUME BoardInv, NEW c \in Sockets, NEW listing, ListCopies(c, listing)
    PROVE  BoardInv'
<1> DEFINE ks == IF listing THEN {s \in Chats \ snap[c].known : copy[s] # "none"} ELSE {}
           z == [snap[c] EXCEPT !.pc = "read", !.keys = ks]
<1>1. snap \in [Sockets -> SnapRecord] /\ snap[c] \in SnapRecord
    BY DEF BoardInv, BoardTyped
<1>2. snap' = [snap EXCEPT ![c] = z]
    BY <1>1 DEF ListCopies
<1>3. ks \subseteq Chats
    OBVIOUS
<1> HIDE DEF ks
<1>4. z \in SnapRecord /\ z.pc = "read" /\ z.known = snap[c].known
      /\ z.copies = snap[c].copies
    BY <1>1, <1>3 DEF SnapRecord
<1> HIDE DEF z
<1>5. snap[c].pc \in {"keys", "read"}
      /\ UNCHANGED <<chatVars, goneVars, copy, clients, up, viewVars, overtaken>>
    BY DEF ListCopies
<1>6. QED BY <1>2, <1>4, <1>5, ReadingKept

\* The copies, one by one.
LEMMA ReadKept ==
    ASSUME BoardInv, NEW c \in Sockets, NEW s \in Chats, NEW read, ReadCopy(c, s, read)
    PROVE  BoardInv'
<1> DEFINE ks == IF read THEN snap[c].keys \ {s} ELSE {}
           v == IF read THEN copy[s] ELSE snap[c].copies[s]
           cs == [snap[c].copies EXCEPT ![s] = v]
           z == [snap[c] EXCEPT !.keys = ks, !.copies = cs]
<1>1. snap \in [Sockets -> SnapRecord] /\ snap[c] \in SnapRecord /\ copy \in [Chats -> ShownOrNot]
    BY DEF BoardInv, BoardTyped
<1>2. snap' = [snap EXCEPT ![c] = z]
    BY <1>1 DEF ReadCopy, SnapRecord
<1>3. ks \subseteq Chats /\ v \in {snap[c].copies[s], copy[s]} /\ v \in ShownOrNot
    BY <1>1 DEF SnapRecord
<1> HIDE DEF ks, v
<1>4. cs \in [Chats -> ShownOrNot] /\ \A t \in Chats : cs[t] \in {snap[c].copies[t], copy[t]}
    BY <1>1, <1>3 DEF SnapRecord
<1> HIDE DEF cs
<1>5. z \in SnapRecord /\ z.pc = snap[c].pc /\ z.known = snap[c].known /\ z.copies = cs
    BY <1>1, <1>3, <1>4 DEF SnapRecord
<1> HIDE DEF z
<1>6. snap[c].pc = "read"
      /\ UNCHANGED <<chatVars, goneVars, copy, clients, up, viewVars, overtaken>>
    BY DEF ReadCopy
<1>7. /\ snap[c].pc \in {"keys", "read"} /\ z.pc = "read"
      /\ \A t \in Chats : z.copies[t] \in {snap[c].copies[t], copy[t]}
    BY <1>4, <1>5, <1>6
<1>8. QED BY <1>2, <1>5, <1>6, <1>7, ReadingKept

\* The snapshot: of what is known it tells the present, the rest is excepted.
LEMMA SnapshotKept ==
    ASSUME BoardInv, NEW c \in Sockets, SendSnapshot(c)
    PROVE  BoardInv'
<1> DEFINE z == [Outside EXCEPT !.pc = "open"]
<1>1. BoardTyped
    BY DEF BoardInv
<1>2. /\ snap[c].pc = "read" /\ snap' = [snap EXCEPT ![c] = z]
      /\ UNCHANGED <<chatVars, goneVars, copy>>
      /\ up' = up /\ fading' = fading /\ overtaken' = overtaken
    BY DEF SendSnapshot
<1>3. z \in SnapRecord /\ z.pc = "open" /\ z.copies = Outside.copies
    BY OutsideRecord DEF SnapRecord
<1> HIDE DEF z
<1>4. /\ snap' \in [Sockets -> SnapRecord] /\ snap'[c] = z
      /\ \A e \in Sockets : e # c => snap'[e] = snap[e]
    BY <1>2, <1>3, SnapSet
<1>5. stage' = stage /\ status' = status /\ listed' = listed /\ call' = call /\ cut' = cut
      /\ due' = due /\ found' = found /\ copy' = copy
    BY <1>2 DEF chatVars, goneVars
<1>6. \/ c \in up /\ picture' = [picture EXCEPT ![c] = Snapshot(c)] /\ clients' = clients
      \/ c \notin up /\ picture' = picture /\ clients' = clients \ {c}
    BY DEF SendSnapshot
<1>7. Snapshot(c) \in [Chats -> ShownOrNot]
    BY <1>1 DEF Snapshot, BoardTyped, SnapRecord
<1>8. /\ picture' \in [Sockets -> [Chats -> ShownOrNot]]
      /\ \A e \in Sockets : e # c => picture'[e] = picture[e]
      /\ picture'[c] = IF c \in up THEN Snapshot(c) ELSE picture[c]
    BY <1>1, <1>6, <1>7 DEF BoardTyped
<1>9. clients' \subseteq Sockets /\ up \subseteq clients'
    BY <1>1, <1>6 DEF BoardTyped
<1>10. BoardTyped'
    BY <1>1, <1>2, <1>4, <1>5, <1>8, <1>9 DEF BoardTyped
<1>11. \A s \in Chats : call[s].dead \cap up' = {}
    BY <1>2 DEF BoardInv, ChatSound
<1>12. ASSUME NEW s \in Chats
       PROVE  PageSound(c, s)' /\ ReadSound(c, s)' /\ TruePicture(c, s)'
  <2>1. PageSound(c, s) /\ ReadSound(c, s) /\ Place[status[s]] \in 0 .. 4
      BY <1>1, Places DEF BoardInv, BoardTyped
  <2>2. Snapshot(c)[s] = IF s \in snap[c].known THEN status[s] ELSE snap[c].copies[s]
      BY DEF Snapshot
  <2>3. Place[picture'[c][s]] =< Place[status[s]]
      BY <1>8, <2>1, <2>2 DEF PageSound
  <2>4. Place[snap'[c].copies[s]] =< Place[status[s]]
      BY <1>3, <1>4, <2>1, OutsideRecord, Places
  <2>5. PageSound(c, s)'
      BY <1>2, <1>5, <2>1, <2>3, <2>4 DEF PageSound
  <2>6. ReadSound(c, s)'
      BY <1>3, <1>4 DEF ReadSound
  <2>7. TruePicture(c, s)'
      BY <1>2, <1>5, <1>8, <2>1, <2>2 DEF ReadSound, TruePicture, Current
  <2>8. QED BY <2>5, <2>6, <2>7
<1>13. QED BY <1>2, <1>4, <1>8, <1>10, <1>11, <1>12, SocketKept

\* A lost connection: what its page shows is no longer claimed to be current.
LEMMA LoseKept ==
    ASSUME BoardInv, NEW c \in Sockets, LoseSocket(c)
    PROVE  BoardInv'
<1>1. BoardTyped
    BY DEF BoardInv
<1>2. /\ up' = up \ {c} /\ UNCHANGED <<chatVars, goneVars, copy>>
      /\ clients' = clients /\ snap' = snap
      /\ picture' = picture /\ fading' = fading /\ overtaken' = overtaken
    BY DEF LoseSocket, viewVars
<1>3. stage' = stage /\ status' = status /\ listed' = listed /\ call' = call /\ cut' = cut
      /\ due' = due /\ found' = found /\ copy' = copy
    BY <1>2 DEF chatVars, goneVars
<1>4. BoardTyped'
    BY <1>1, <1>2, <1>3 DEF BoardTyped
<1>5. \A s \in Chats : call[s].dead \cap up' = {}
    BY <1>2 DEF BoardInv, ChatSound
<1>6. ASSUME NEW s \in Chats
      PROVE  PageSound(c, s)' /\ ReadSound(c, s)' /\ TruePicture(c, s)'
  <2>1. PageSound(c, s) /\ ReadSound(c, s)
      BY DEF BoardInv
  <2>2. QED BY <1>2, <1>3, <2>1 DEF PageSound, ReadSound, TruePicture
<1>7. QED BY <1>2, <1>4, <1>5, <1>6, SocketKept

\* The end of ws_sessions: the page is behind what it will be told.
LEMMA UnsubscribeKept ==
    ASSUME BoardInv, NEW c \in Sockets, Unsubscribe(c)
    PROVE  BoardInv'
<1>1. BoardTyped
    BY DEF BoardInv
<1>2. /\ c \notin up /\ snap' = [snap EXCEPT ![c] = Outside] /\ clients' = clients \ {c}
      /\ UNCHANGED <<chatVars, goneVars, copy>> /\ up' = up
      /\ overtaken' = [overtaken EXCEPT ![c] = {}] /\ picture' = picture /\ fading' = fading
    BY DEF Unsubscribe, viewVars
<1>3. stage' = stage /\ status' = status /\ listed' = listed /\ call' = call /\ cut' = cut
      /\ due' = due /\ found' = found /\ copy' = copy
    BY <1>2 DEF chatVars, goneVars
<1>4. /\ snap' \in [Sockets -> SnapRecord] /\ snap'[c] = Outside
      /\ \A e \in Sockets : e # c => snap'[e] = snap[e]
    BY <1>2, OutsideRecord, SnapSet
<1>5. /\ overtaken' \in [Sockets -> SUBSET Chats]
      /\ \A e \in Sockets : e # c => overtaken'[e] = overtaken[e]
    BY <1>1, <1>2 DEF BoardTyped
<1>6. BoardTyped'
    BY <1>1, <1>2, <1>3, <1>4, <1>5 DEF BoardTyped
<1>7. \A s \in Chats : call[s].dead \cap up' = {}
    BY <1>2 DEF BoardInv, ChatSound
<1>8. ASSUME NEW s \in Chats
      PROVE  PageSound(c, s)' /\ ReadSound(c, s)' /\ TruePicture(c, s)'
  <2>1. PageSound(c, s) /\ Place[status[s]] \in 0 .. 4
      BY <1>1, Places DEF BoardInv, BoardTyped
  <2>2. Place[snap'[c].copies[s]] =< Place[status[s]]
      BY <1>4, <2>1, OutsideRecord, Places
  <2>3. PageSound(c, s)'
      BY <1>2, <1>3, <2>1, <2>2 DEF PageSound
  <2>4. QED BY <1>4, <2>3, OutsideRecord DEF ReadSound, TruePicture
<1>9. QED BY <1>2, <1>4, <1>5, <1>6, <1>7, <1>8, SocketKept

\* The timer of a page, which only concerns sessions that are over.
LEMMA FadeKept ==
    ASSUME BoardInv, NEW c \in Sockets, NEW s \in Chats, FadeOut(c, s)
    PROVE  BoardInv'
<1>1. BoardTyped
    BY DEF BoardInv
<1>2. /\ s \in fading[c] /\ fading' = [fading EXCEPT ![c] = @ \ {s}]
      /\ picture' = [picture EXCEPT ![c][s] = "none"]
      /\ UNCHANGED <<chatVars, goneVars, copy>>
      /\ clients' = clients /\ up' = up /\ snap' = snap /\ overtaken' = overtaken
    BY DEF FadeOut, pageVars
<1>3. stage' = stage /\ status' = status /\ listed' = listed /\ call' = call /\ cut' = cut
      /\ due' = due /\ found' = found /\ copy' = copy
    BY <1>2 DEF chatVars, goneVars
<1>4. status[s] \in Over
    BY <1>2 DEF BoardInv, PageSound
<1>5. /\ picture' \in [Sockets -> [Chats -> ShownOrNot]] /\ picture'[c][s] = "none"
      /\ \A t \in Chats : t # s => picture'[c][t] = picture[c][t]
      /\ \A e \in Sockets : e # c => picture'[e] = picture[e]
  <2> DEFINE row == [picture[c] EXCEPT ![s] = "none"]
  <2>1. picture \in [Sockets -> [Chats -> ShownOrNot]] /\ "none" \in ShownOrNot
      BY <1>1 DEF BoardTyped, ShownOrNot
  <2>2. row \in [Chats -> ShownOrNot] /\ row[s] = "none"
        /\ \A t \in Chats : t # s => row[t] = picture[c][t]
      BY <2>1
  <2>3. picture' = [picture EXCEPT ![c] = row]
      BY <1>2, <2>1
  <2> HIDE DEF row
  <2>4. QED BY <2>1, <2>2, <2>3
<1>6. /\ fading' \in [Sockets -> SUBSET Chats] /\ fading'[c] \subseteq fading[c]
      /\ \A e \in Sockets : e # c => fading'[e] = fading[e]
    BY <1>1, <1>2 DEF BoardTyped
<1>7. BoardTyped'
    BY <1>1, <1>2, <1>3, <1>5, <1>6 DEF BoardTyped
<1>8. \A t \in Chats : call[t].dead \cap up' = {}
    BY <1>2 DEF BoardInv, ChatSound
<1>9. ASSUME NEW t \in Chats
      PROVE  PageSound(c, t)' /\ ReadSound(c, t)' /\ TruePicture(c, t)'
  <2>1. /\ PageSound(c, t) /\ ReadSound(c, t) /\ TruePicture(c, t)
        /\ Place[status[t]] \in 0 .. 4
      BY <1>1, Places DEF BoardInv, BoardTyped
  <2>2. Place[picture'[c][t]] =< Place[status[t]]
      BY <1>5, <2>1, Places DEF PageSound
  <2>3. PageSound(c, t)'
      BY <1>2, <1>3, <1>6, <2>1, <2>2 DEF PageSound
  <2>4. ReadSound(c, t)'
      BY <1>2, <1>3, <2>1 DEF ReadSound
  <2>5. t = s => TruePicture(c, t)'
      BY <1>3, <1>4, <1>5 DEF TruePicture, Current
  <2>6. t # s => TruePicture(c, t)'
      BY <1>2, <1>3, <1>5, <2>1 DEF TruePicture, Current, Untold
  <2>7. QED BY <2>3, <2>4, <2>5, <2>6
<1>10. QED BY <1>2, <1>5, <1>6, <1>7, <1>8, <1>9, SocketKept

--------------------------------------------------------------------------------
(* The invariant, and what follows from it.                                  *)

\* Every step keeps the invariant.
LEMMA BoardNextInv == BoardInv /\ [BoardNext]_boardVars => BoardInv'
<1> SUFFICES ASSUME BoardInv, [BoardNext]_boardVars
             PROVE  BoardInv'
    OBVIOUS
<1>1. ASSUME NEW s \in Chats, HandlerStep(s)
      PROVE  BoardInv'
    BY <1>1, StartKept, UpdateKept, CloseKept, SaveKept, SendKept, BroadcastEndKept, CutKept
       DEF HandlerStep
<1>2. ASSUME NEW s \in Chats, RemovalStep(s)
      PROVE  BoardInv'
    BY <1>2, BoardRemovalKept
<1>3. ASSUME NEW c \in Sockets, SocketStep(c)
      PROVE  BoardInv'
    BY <1>3, SubscribeKept, ListKept, ReadKept, SnapshotKept, LoseKept, UnsubscribeKept, FadeKept
       DEF SocketStep
<1>4. ASSUME NEW old \in SUBSET Chats, FindOld(old)
      PROVE  BoardInv'
    BY <1>4, FoundKept
<1>5. CASE UNCHANGED boardVars
  <2>1. BoardTyped
      BY DEF BoardInv
  <2>2. listed' = listed /\ due' = due /\ found' = found /\ copy' = copy
        /\ UNCHANGED <<stage, status, call, cut, pageVars, viewVars, overtaken>>
      BY <1>5 DEF boardVars, chatVars, goneVars
  <2>3. QED BY <2>1, <2>2, ShorterKept DEF BoardTyped
<1>6. QED BY <1>1, <1>2, <1>3, <1>4, <1>5 DEF BoardNext

\* It holds at first.
LEMMA BoardInitInv == BoardInit => BoardInv
<1> SUFFICES ASSUME BoardInit
             PROVE  BoardInv
    OBVIOUS
<1>1. "none" \in ShownOrNot /\ "none" \notin Over /\ NoCall \in CallRecord
      /\ NoCall.pc = "idle" /\ NoCall.dead = {} /\ "new" \in Stages
    BY DEF ShownOrNot, NoCall, CallRecord, Stages, Over
<1>2. BoardTyped
    BY <1>1, OutsideRecord DEF BoardInit, BoardTyped
<1>3. ASSUME NEW s \in Chats PROVE ChatSound(s)
    BY <1>1, Places DEF BoardInit, ChatSound
<1>4. ASSUME NEW c \in Sockets, NEW s \in Chats
      PROVE  PageSound(c, s) /\ ReadSound(c, s) /\ TruePicture(c, s)
    BY Places, OutsideRecord DEF BoardInit, PageSound, ReadSound, TruePicture
<1>5. QED BY <1>2, <1>3, <1>4 DEF BoardInv

\* The state of SessionManager, its subscriptions and the pages stays sound, for any
\* numbers of sessions and pages.
THEOREM BoardInvariance == BoardSpec => []BoardInv
<1>1. QED BY BoardInitInv, BoardNextInv, PTL DEF BoardSpec

\* Every variable of Dashboard has its type, and a connected socket stays in _ws_clients
\* whatever the broadcasts discard.
THEOREM BoardTypeCorrect == BoardSpec => []BoardTypeOK
<1>1. BoardInv => BoardTypeOK
    BY DEF BoardInv, BoardTyped, BoardTypeOK, CallRecord, SnapRecord, Stages
<1>2. QED BY <1>1, BoardInvariance, PTL

\* A page that has its snapshot shows the listed sessions as they are, or has a message
\* coming (subscribe and _broadcast), for any numbers of sessions and pages.
THEOREM PictureIsCurrentHolds == BoardSpec => []PictureIsCurrent
<1>1. BoardInv => PictureIsCurrent
    BY DEF BoardInv, BoardTyped, TruePicture, Current, PictureIsCurrent
<1>2. QED BY <1>1, BoardInvariance, PTL

\* The picture of a listed session never goes back, neither by a broadcast nor by a
\* snapshot that has read it from the live list.
THEOREM PicturesGoForwardHolds == BoardSpec => PicturesGoForward
<1> DEFINE Ahead == \A c \in Sockets, s \in listed :
                        s \notin overtaken[c] => Forward(s, picture[c][s], picture'[c][s])
<1>1. BoardInv /\ [BoardNext]_boardVars => Ahead
  <2> SUFFICES ASSUME BoardInv, [BoardNext]_boardVars, NEW c \in Sockets, NEW s \in listed,
                      s \notin overtaken[c]
               PROVE  Forward(s, picture[c][s], picture'[c][s])
      OBVIOUS
  <2>1. /\ s \in Chats /\ picture \in [Sockets -> [Chats -> ShownOrNot]]
        /\ status[s] \in ShownOrNot
      BY DEF BoardInv, BoardTyped
  <2>2. PageSound(c, s) /\ ReadSound(c, s)
      BY <2>1 DEF BoardInv
  <2>3. Place[picture[c][s]] \in 0 .. 4 /\ Place[status[s]] \in 0 .. 4
      BY <2>1, Places
  <2>4. CASE picture'[c][s] = picture[c][s]
      BY <2>3, <2>4 DEF Forward
  <2>5. CASE picture'[c][s] = status[s]
      BY <2>2, <2>3, <2>5 DEF Forward, PageSound
  <2>6. CASE picture'[c][s] = "none" /\ status[s] \in Over
      BY <2>6 DEF Forward
  <2>7. picture'[c][s] \in {picture[c][s], status[s]}
        \/ (picture'[c][s] = "none" /\ status[s] \in Over)
    <3>1. ASSUME NEW t \in Chats, HandlerStep(t)
          PROVE  picture'[c][s] \in {picture[c][s], status[s]}
      <4>1. CASE picture' = picture
          BY <4>1
      <4>2. ASSUME NEW e \in Sockets, SendUpdate(t, e), e \in up
            PROVE  picture'[c][s] \in {picture[c][s], status[s]}
        <5>1. picture' = [picture EXCEPT ![e][t] = call[t].data]
            BY <4>2 DEF SendUpdate, Show
        <5>2. call[t].data = status[t]
            BY <4>2 DEF SendUpdate, BoardInv, ChatSound
        <5>3. QED BY <2>1, <5>1, <5>2
      <4>3. picture' = picture \/ \E e \in Sockets : SendUpdate(t, e) /\ e \in up
          BY <3>1 DEF HandlerStep, StartSession, UpdateSession, CloseSession, SaveSession,
                      SendUpdate, EndBroadcast, CutOff, viewVars
      <4>4. QED BY <4>1, <4>2, <4>3
    <3>2. ASSUME NEW t \in Chats, RemovalStep(t)
          PROVE  picture' = picture
        BY <3>2 DEF RemovalStep, RemoveSession, PopOld, DropCopy, Pop, viewVars
    <3>3. ASSUME NEW old \in SUBSET Chats, FindOld(old)
          PROVE  picture' = picture
        BY <3>3 DEF FindOld, viewVars
    <3>4. ASSUME NEW e \in Sockets, SocketStep(e)
          PROVE  picture'[c][s] \in {picture[c][s], status[s]}
                 \/ (picture'[c][s] = "none" /\ status[s] \in Over)
      <4>1. ASSUME SendSnapshot(e), e \in up
            PROVE  picture'[c][s] \in {picture[c][s], status[s]}
        <5>1. picture' = [picture EXCEPT ![e] = Snapshot(e)] /\ snap[e].pc = "read"
            BY <4>1 DEF SendSnapshot
        <5>2. CASE e = c
          <6>1. s \in snap[c].known
              BY <2>2, <5>1, <5>2 DEF ReadSound
          <6>2. picture'[c] = Snapshot(c)
              BY <2>1, <5>1, <5>2
          <6>3. QED BY <2>1, <6>1, <6>2 DEF Snapshot
        <5>3. CASE e # c
            BY <2>1, <5>1, <5>3
        <5>4. QED BY <5>2, <5>3
      <4>2. ASSUME NEW t \in Chats, FadeOut(e, t)
            PROVE  picture'[c][s] = picture[c][s] \/ (picture'[c][s] = "none" /\ status[s] \in Over)
        <5>1. picture' = [picture EXCEPT ![e][t] = "none"] /\ t \in fading[e]
            BY <4>2 DEF FadeOut
        <5>2. status[t] \in Over
            BY <5>1 DEF BoardInv, PageSound
        <5>3. QED BY <2>1, <5>1, <5>2
      <4>3. picture' = picture \/ (SendSnapshot(e) /\ e \in up) \/ \E t \in Chats : FadeOut(e, t)
          BY <3>4 DEF SocketStep, Subscribe, ListCopies, ReadCopy, SendSnapshot, LoseSocket,
                      Unsubscribe, viewVars
      <4>4. QED BY <4>1, <4>2, <4>3
    <3>5. CASE UNCHANGED boardVars
        BY <3>5 DEF boardVars, viewVars
    <3>6. QED BY <3>1, <3>2, <3>3, <3>4, <3>5 DEF BoardNext
  <2>8. QED BY <2>4, <2>5, <2>6, <2>7
<1>2. Ahead => [Ahead]_boardVars
    OBVIOUS
<1>3. QED BY <1>1, BoardInvariance, PTL DEF BoardSpec, PicturesGoForward
================================================================================
