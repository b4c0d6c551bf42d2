----------------------------- MODULE Parts_proofs -----------------------------
(***************************************************************************)
(* What the operators of Breaker and of Pool keep of one breaker and of    *)
(* one pool, for every threshold, recovery time, size and backoff: Sound   *)
(* ties the four fields of a breaker together, the lemmas about Pool say   *)
(* what each operator changes and what it leaves alone.  The state         *)
(* machines CircuitBreaker, KeyPool and LLMProxy only ever apply these     *)
(* operators, and their proofs cite these lemmas.  The facts about numbers *)
(* they need, induction and remainders, are here too.                      *)
(***************************************************************************)
EXTENDS Breaker, Pool, SequenceTheorems, WellFoundedInduction, TLAPS

-----------------------------------------------------------------------------
(* Induction over sets of numbers, and what a recursive definition defines. *)

(* A set of numbers with 0 and the successor of each has them all.          *)
LEMMA Induction ==
  ASSUME NEW P \in SUBSET Nat, 0 \in P, \A n \in P : n + 1 \in P
  PROVE  P = Nat
<1> DEFINE T == Nat \ P
<1>1. SUFFICES ASSUME T # {} PROVE FALSE
  OBVIOUS
<1>2. IsWellFoundedOn(OpToRel(<, Nat), Nat)
  BY NatLessThanWellFounded, Zenon
<1>3. PICK x \in T : \A y \in T : ~ (<<y, x>> \in OpToRel(<, Nat))
  <2>1. T \subseteq Nat /\ T # {}
    BY <1>1
  <2> HIDE DEF T
  <2>2. QED BY <1>2, <2>1, WFMin, Zenon
<1>4. x \in Nat /\ x # 0 /\ x \notin P
  OBVIOUS
<1>5. x - 1 \in Nat /\ x - 1 < x /\ (x - 1) + 1 = x
  BY <1>4
<1>6. x - 1 \notin P
  BY <1>4, <1>5
<1>7. <<x - 1, x>> \in OpToRel(<, Nat)
  BY <1>4, <1>5, Zenon DEF OpToRel
<1>8. QED BY <1>3, <1>5, <1>6, <1>7, Zenon

\* A function built from its value at 0, one step after another.
Built(f, last, S, base, step) ==
  /\ f \in [0 .. last -> S]
  /\ f[0] = base
  /\ \A n \in 1 .. last : f[n] = step[n][f[n - 1]]

(* There is such a function, whatever the steps are.                        *)
LEMMA Recursion ==
  ASSUME NEW last \in Nat, NEW S, NEW base \in S, NEW step \in [1 .. last -> [S -> S]]
  PROVE  \E f : Built(f, last, S, base, step)
<1> DEFINE P == {n \in Nat : n <= last => \E f : Built(f, n, S, base, step)}
<1>1. 0 \in P
  <2> DEFINE f == [n \in 0 .. 0 |-> base]
  <2>1. Built(f, 0, S, base, step)
    BY DEF Built
  <2>2. QED BY <2>1
<1>2. ASSUME NEW n \in P PROVE n + 1 \in P
  <2> SUFFICES ASSUME n + 1 <= last PROVE \E f : Built(f, n + 1, S, base, step)
    OBVIOUS
  <2>1. n \in Nat /\ n <= last
    OBVIOUS
  <2>2. PICK g : Built(g, n, S, base, step)
    BY <1>2, <2>1
  <2> DEFINE f == [m \in 0 .. n + 1 |-> IF m = n + 1 THEN step[n + 1][g[n]] ELSE g[m]]
  <2>3. g[n] \in S /\ step[n + 1] \in [S -> S] /\ step[n + 1][g[n]] \in S
    BY <2>1, <2>2 DEF Built
  <2>4. f \in [0 .. n + 1 -> S] /\ f[0] = base
    BY <2>1, <2>2, <2>3 DEF Built
  <2>5. ASSUME NEW m \in 1 .. n + 1 PROVE f[m] = step[m][f[m - 1]]
    <3>1. CASE m = n + 1
      <4>1. f[m] = step[m][g[n]] /\ m - 1 = n /\ f[n] = g[n]
        BY <2>1, <3>1
      <4>2. QED BY <4>1
    <3>2. CASE m # n + 1
      <4>1. m \in 1 .. n /\ m - 1 \in 0 .. n
        BY <2>1, <3>2
      <4>2. f[m] = g[m] /\ f[m - 1] = g[m - 1]
        BY <2>1, <4>1
      <4>3. QED BY <2>2, <4>1, <4>2 DEF Built
    <3>3. QED BY <3>1, <3>2
  <2>6. Built(f, n + 1, S, base, step)
    <3> HIDE DEF f
    <3>1. QED BY <2>4, <2>5 DEF Built
  <2>7. QED BY <2>6
<1>3. P = Nat
  <2>1. P \in SUBSET Nat
    OBVIOUS
  <2> HIDE DEF P
  <2>2. QED BY <1>1, <1>2, <2>1, Induction, Zenon
<1>4. last \in P
  BY <1>3
<1>5. QED BY <1>4

-----------------------------------------------------------------------------
(* The circuit breaker.                                                     *)

\* One breaker: its count agrees with its state, the age of its opening is
\* the age of its last failure while it is OPEN, and HALF_OPEN is quiet.
Sound(b) ==
  /\ b \in CircuitBreakerRecord
  /\ b.state = "closed" <=> b.failures < Threshold
  /\ b.state = "open" => b.openFor = b.quietFor
  /\ b.state = "half_open" => b.quietFor = Recovery

(* A fresh breaker is sound (CircuitBreaker.__init__).                      *)
LEMMA NewBreakerSound == Sound(NewBreaker)
  BY BreakerAssumption DEF Sound, NewBreaker, CircuitBreakerRecord, CBState

(* Setting any one field of a breaker to a value of its type keeps it a     *)
(* breaker; several fields are set one after the other.                     *)
LEMMA SetField ==
  ASSUME NEW b \in CircuitBreakerRecord
  PROVE  /\ \A s \in CBState : [b EXCEPT !.state = s] \in CircuitBreakerRecord
         /\ \A n \in 0 .. MaxFailures : [b EXCEPT !.failures = n] \in CircuitBreakerRecord
         /\ \A t \in 0 .. Recovery : [b EXCEPT !.openFor = t] \in CircuitBreakerRecord
         /\ \A t \in 0 .. Recovery : [b EXCEPT !.quietFor = t] \in CircuitBreakerRecord
  BY DEF CircuitBreakerRecord

(* Reading the state keeps a breaker sound and never touches its count.     *)
LEMMA ReadStateSound ==
  ASSUME NEW b, Sound(b)
  PROVE  /\ Sound(ReadState(b))
         /\ ReadState(b).failures = b.failures
         /\ ReadState(b).state = "closed" <=> b.state = "closed"
         /\ ReadState(b).state = "open" => b.state = "open"
  BY BreakerAssumption DEF Sound, ReadState, CircuitBreakerRecord, CBState

(* A request is let through only in CLOSED or HALF_OPEN.                    *)
LEMMA AvailableState ==
  ASSUME NEW b, Sound(b), IsAvailable(b)
  PROVE  ReadState(b).state \in {"closed", "half_open"}
  BY ReadStateSound DEF IsAvailable, Sound, CircuitBreakerRecord, CBState

(* record_success keeps a breaker sound; one it leaves CLOSED counts none.  *)
LEMMA RecordSuccessSound ==
  ASSUME NEW b, Sound(b)
  PROVE  /\ Sound(RecordSuccess(b))
         /\ RecordSuccess(b).state = "closed" => RecordSuccess(b).failures = 0
         /\ b.state = "open" => RecordSuccess(b).state = "open"
<1>1. CASE b.state = "open"
  BY <1>1 DEF RecordSuccess
<1>2. CASE b.state # "open"
  <2>1. RecordSuccess(b) = [b EXCEPT !.state = "closed", !.failures = 0]
    BY <1>2 DEF RecordSuccess
  <2>2. RecordSuccess(b) \in CircuitBreakerRecord
    <3>1. [b EXCEPT !.state = "closed"] \in CircuitBreakerRecord
      BY SetField, BreakerAssumption DEF Sound, CBState
    <3>2. [[b EXCEPT !.state = "closed"] EXCEPT !.failures = 0] \in CircuitBreakerRecord
      <4> DEFINE c == [b EXCEPT !.state = "closed"]
      <4> HIDE DEF c
      <4>1. c \in CircuitBreakerRecord  BY <3>1 DEF c
      <4>2. [c EXCEPT !.failures = 0] \in CircuitBreakerRecord
        BY <4>1, SetField, BreakerAssumption
      <4>3. QED BY <4>2 DEF c
    <3>3. QED BY <2>1, <3>2
  <2>3. RecordSuccess(b).state = "closed" /\ RecordSuccess(b).failures = 0
    BY <2>1 DEF Sound, CircuitBreakerRecord
  <2>4. QED BY <1>2, <2>2, <2>3, BreakerAssumption DEF Sound
<1>3. QED BY <1>1, <1>2

(* record_failure keeps a breaker sound; one it leaves CLOSED was CLOSED    *)
(* and counts one more, and one it opens has reached the threshold.         *)
LEMMA RecordFailureSound ==
  ASSUME NEW b, Sound(b)
  PROVE  LET n == IF b.failures < MaxFailures THEN b.failures + 1 ELSE b.failures
         IN  /\ Sound(RecordFailure(b))
             /\ RecordFailure(b).failures = n
             /\ RecordFailure(b).state # "half_open"
             /\ RecordFailure(b).state = "closed" => b.state = "closed"
             /\ RecordFailure(b).state = "open" => n >= Threshold
<1> DEFINE n == IF b.failures < MaxFailures THEN b.failures + 1 ELSE b.failures
<1>1. n \in 0 .. MaxFailures /\ n >= b.failures
  BY BreakerAssumption DEF Sound, CircuitBreakerRecord
<1>2. b.state # "closed" => n >= Threshold
  BY <1>1, BreakerAssumption DEF Sound, CircuitBreakerRecord
<1>3. RecordFailure(b) =
        [state    |-> IF b.state = "half_open" \/ n >= Threshold THEN "open" ELSE b.state,
         failures |-> n,
         openFor  |-> IF b.state = "half_open" \/ n >= Threshold THEN 0 ELSE b.openFor,
         quietFor |-> 0]
  BY DEF RecordFailure
<1> HIDE DEF n
<1>4. Sound(RecordFailure(b))
  BY <1>1, <1>2, <1>3, BreakerAssumption DEF Sound, CircuitBreakerRecord, CBState
<1>5. QED
  BY <1>1, <1>2, <1>3, <1>4 DEF n, Sound, CircuitBreakerRecord, CBState

(* A manual reset gives a sound CLOSED breaker with no failures.            *)
LEMMA ResetBreakerSound ==
  ASSUME NEW b, Sound(b)
  PROVE  /\ Sound(ResetBreaker(b))
         /\ ResetBreaker(b).state = "closed"
         /\ ResetBreaker(b).failures = 0
<1>1. ResetBreaker(b) \in CircuitBreakerRecord
  <2>1. [b EXCEPT !.state = "closed"] \in CircuitBreakerRecord
    BY SetField, BreakerAssumption DEF Sound, CBState
  <2> DEFINE c == [b EXCEPT !.state = "closed"]
             d == [c EXCEPT !.failures = 0]
  <2>2. c \in CircuitBreakerRecord  BY <2>1
  <2>3. ResetBreaker(b) = [d EXCEPT !.openFor = Recovery]
    BY DEF ResetBreaker
  <2> HIDE DEF c
  <2>4. d \in CircuitBreakerRecord
    BY <2>2, SetField, BreakerAssumption
  <2> HIDE DEF d
  <2>5. [d EXCEPT !.openFor = Recovery] \in CircuitBreakerRecord
    BY <2>4, SetField, BreakerAssumption
  <2>6. QED BY <2>3, <2>5
<1>2. ResetBreaker(b).state = "closed" /\ ResetBreaker(b).failures = 0
  BY DEF Sound, ResetBreaker, CircuitBreakerRecord
<1>3. QED BY <1>1, <1>2, BreakerAssumption DEF Sound

(* Time keeps a breaker sound and changes neither its state nor its count.  *)
LEMMA OlderSound ==
  ASSUME NEW b, Sound(b)
  PROVE  /\ Sound(Older(b))
         /\ Older(b).state = b.state
         /\ Older(b).failures = b.failures
<1>1. Older(b) \in CircuitBreakerRecord
  <2> DEFINE older(t) == IF t < Recovery THEN t + 1 ELSE t
             c == [b EXCEPT !.openFor = older(b.openFor)]
  <2>1. \A t \in 0 .. Recovery : older(t) \in 0 .. Recovery
    BY BreakerAssumption
  <2>2. c \in CircuitBreakerRecord
    BY <2>1, BreakerAssumption DEF Sound, CircuitBreakerRecord
  <2>3. c.quietFor = b.quietFor /\ b.quietFor \in 0 .. Recovery
    BY DEF Sound, CircuitBreakerRecord
  <2>4. Older(b) = [c EXCEPT !.quietFor = older(b.quietFor)]
    BY <2>3 DEF Older
  <2> HIDE DEF c, older
  <2>5. QED BY <2>1, <2>2, <2>3, <2>4, SetField, BreakerAssumption DEF CBState
<1>2. /\ Older(b).state = b.state
      /\ Older(b).failures = b.failures
      /\ Older(b).openFor = IF b.openFor < Recovery THEN b.openFor + 1 ELSE b.openFor
      /\ Older(b).quietFor = IF b.quietFor < Recovery THEN b.quietFor + 1 ELSE b.quietFor
  BY DEF Sound, Older, CircuitBreakerRecord
<1>3. QED BY <1>1, <1>2, BreakerAssumption DEF Sound, CircuitBreakerRecord
-----------------------------------------------------------------------------

\* A pool record of the right types and size.
WellFormed(p) == p \in PoolRecord /\ Len(p.keys) <= MaxKeys

\* Two pools with the same keys at the same positions.
SameKeys(p, q) ==
  /\ DOMAIN q.keys = DOMAIN p.keys
  /\ \A i \in DOMAIN p.keys : q.keys[i].id = p.keys[i].id
-----------------------------------------------------------------------------
(* The positions of a pool's keys are positions of the model.               *)
LEMMA DomainInPositions ==
  ASSUME NEW p, WellFormed(p)
  PROVE  /\ p.keys \in Seq(Entry)
         /\ DOMAIN p.keys = 1 .. Len(p.keys)
         /\ DOMAIN p.keys \subseteq Positions
         /\ \A i \in DOMAIN p.keys : p.keys[i] \in Entry
<1>1. p.keys \in Seq(Entry) /\ Len(p.keys) <= MaxKeys /\ Len(p.keys) \in Nat
  BY DEF WellFormed, PoolRecord
<1>2. QED BY <1>1, PoolAssumption DEF Positions

(* Setting the keys or the backoffs of a pool.                              *)
LEMMA SetKeys ==
  ASSUME NEW p, WellFormed(p), NEW ks \in Seq(Entry), Len(ks) <= MaxKeys
  PROVE  LET q == [p EXCEPT !.keys = ks]
         IN  WellFormed(q) /\ q.keys = ks /\ q.backoff = p.backoff
  BY DEF WellFormed, PoolRecord

LEMMA SetBackoff ==
  ASSUME NEW p, WellFormed(p), NEW bo \in [Positions -> 0 .. BackoffTicks]
  PROVE  LET q == [p EXCEPT !.backoff = bo]
         IN  WellFormed(q) /\ q.keys = p.keys /\ q.backoff = bo
  BY DEF WellFormed, PoolRecord

(* Replacing the entry of a key by one of the same key disturbs nothing.    *)
LEMMA ReplaceEntry ==
  ASSUME NEW p, WellFormed(p), NEW i \in DOMAIN p.keys,
         NEW e \in Entry, e.id = p.keys[i].id
  PROVE  LET q == [p EXCEPT !.keys[i] = e]
         IN  /\ WellFormed(q) /\ SameKeys(p, q) /\ q.backoff = p.backoff
             /\ \A j \in DOMAIN p.keys : j # i => q.keys[j] = p.keys[j]
<1> DEFINE ks == [p.keys EXCEPT ![i] = e]
           q  == [p EXCEPT !.keys = ks]
<1>1. /\ ks \in Seq(Entry)
      /\ Len(ks) = Len(p.keys)
      /\ DOMAIN ks = DOMAIN p.keys
      /\ \A j \in DOMAIN ks : ks[j].id = p.keys[j].id
      /\ \A j \in DOMAIN ks : j # i => ks[j] = p.keys[j]
  <2>1. p.keys \in Seq(Entry) /\ DOMAIN p.keys = 1 .. Len(p.keys)
    BY DomainInPositions
  <2>2. ks \in Seq(Entry) /\ Len(ks) = Len(p.keys)
    BY <2>1, ExceptSeq
  <2>3. QED BY <2>1, <2>2
<1> HIDE DEF ks
<1>2. WellFormed(q) /\ q.keys = ks /\ q.backoff = p.backoff
  BY <1>1 DEF WellFormed, PoolRecord
<1>3. SameKeys(p, q)
  BY <1>1, <1>2 DEF SameKeys
<1>4. QED BY <1>1, <1>2, <1>3 DEF ks

(* get_next_key moves the rotation counter and nothing else.                *)
LEMMA PickedSame ==
  ASSUME NEW p, WellFormed(p), NEW s
  PROVE  WellFormed(Picked(p, s)) /\ Picked(p, s).keys = p.keys
           /\ Picked(p, s).backoff = p.backoff
<1>1. p.counter \in Nat /\ (p.counter + 1) % CounterPeriod \in 0 .. CounterPeriod - 1
  BY PoolAssumption DEF WellFormed, PoolRecord
<1>2. QED BY <1>1 DEF WellFormed, PoolRecord, Picked

(* mark_error and mark_success change the entry of their index only.        *)
LEMMA MarkErrorSame ==
  ASSUME NEW p, WellFormed(p), NEW i
  PROVE  LET q == MarkError(p, i)
         IN  /\ WellFormed(q) /\ SameKeys(p, q) /\ q.backoff = p.backoff
             /\ \A j \in DOMAIN p.keys : j # i => q.keys[j] = p.keys[j]
<1>1. CASE i \notin DOMAIN p.keys
  BY <1>1 DEF MarkError, SameKeys
<1>2. CASE i \in DOMAIN p.keys
  <2> DEFINE e == p.keys[i]
             n == IF e.errors < ErrorThreshold THEN e.errors + 1 ELSE e.errors
             h == e.healthy /\ n < ErrorThreshold
             f == [e EXCEPT !.errors = n, !.healthy = h]
  <2>1. e \in Entry
    BY <1>2, DomainInPositions
  <2>2. n \in 0 .. ErrorThreshold /\ h \in BOOLEAN
    BY <2>1, PoolAssumption DEF Entry
  <2>3. MarkError(p, i) = [p EXCEPT !.keys[i] = f]
    BY <1>2 DEF MarkError
  <2>4. f \in Entry /\ f.id = e.id
    <3> HIDE DEF e, n, h
    <3>1. [e EXCEPT !.errors = n] \in Entry /\ [e EXCEPT !.errors = n].id = e.id
      BY <2>1, <2>2 DEF Entry
    <3>2. QED BY <2>1, <2>2, <3>1 DEF Entry
  <2> HIDE DEF f
  <2>5. QED BY <1>2, <2>3, <2>4, ReplaceEntry
<1>3. QED BY <1>1, <1>2

LEMMA MarkSuccessSame ==
  ASSUME NEW p, WellFormed(p), NEW i
  PROVE  LET q == MarkSuccess(p, i)
         IN  /\ WellFormed(q) /\ SameKeys(p, q) /\ q.backoff = p.backoff
             /\ \A j \in DOMAIN p.keys : j # i => q.keys[j] = p.keys[j]
<1>1. CASE i \notin DOMAIN p.keys
  BY <1>1 DEF MarkSuccess, SameKeys
<1>2. CASE i \in DOMAIN p.keys
  <2> DEFINE e == p.keys[i]
             n == IF e.usage < MaxUsage THEN e.usage + 1 ELSE e.usage
             f == [e EXCEPT !.usage = n, !.healthy = TRUE]
  <2>1. e \in Entry
    BY <1>2, DomainInPositions
  <2>2. n \in 0 .. MaxUsage
    BY <2>1, PoolAssumption DEF Entry
  <2>3. MarkSuccess(p, i) = [p EXCEPT !.keys[i] = f]
    BY <1>2 DEF MarkSuccess
  <2>4. f \in Entry /\ f.id = e.id
    <3> HIDE DEF e, n
    <3>1. QED BY <2>1, <2>2 DEF Entry
  <2> HIDE DEF f
  <2>5. QED BY <1>2, <2>3, <2>4, ReplaceEntry
<1>3. QED BY <1>1, <1>2

(* An error is counted up to the threshold, and nothing else is.            *)
LEMMA ErrorCounts ==
  ASSUME NEW p, WellFormed(p), NEW i \in DOMAIN p.keys
  PROVE  /\ MarkError(p, i).keys[i].errors =
                IF p.keys[i].errors < ErrorThreshold THEN p.keys[i].errors + 1
                ELSE p.keys[i].errors
         /\ MarkSuccess(p, i).keys[i].errors = p.keys[i].errors
<1>1. p.keys \in Seq(Entry) /\ p.keys[i] \in Entry
  BY DomainInPositions
<1>2. ASSUME NEW e \in Entry
      PROVE  [p EXCEPT !.keys[i] = e].keys[i] = e
  BY <1>1 DEF WellFormed, PoolRecord
<1> DEFINE e == p.keys[i]
           n == IF e.errors < ErrorThreshold THEN e.errors + 1 ELSE e.errors
           u == IF e.usage < MaxUsage THEN e.usage + 1 ELSE e.usage
           h == e.healthy /\ n < ErrorThreshold
           f == [e EXCEPT !.errors = n, !.healthy = h]
           g == [e EXCEPT !.usage = u, !.healthy = TRUE]
<1>3. MarkError(p, i) = [p EXCEPT !.keys[i] = f] /\ MarkSuccess(p, i) = [p EXCEPT !.keys[i] = g]
  BY DEF MarkError, MarkSuccess
<1>4. n \in 0 .. ErrorThreshold /\ u \in 0 .. MaxUsage /\ h \in BOOLEAN
  <2>1. e.errors \in 0 .. ErrorThreshold /\ e.usage \in 0 .. MaxUsage /\ e.healthy \in BOOLEAN
    BY <1>1 DEF Entry
  <2>2. ErrorThreshold \in Nat /\ MaxUsage \in Nat
    BY PoolAssumption
  <2> HIDE DEF e
  <2>3. n \in 0 .. ErrorThreshold
    BY <2>1, <2>2
  <2>4. u \in 0 .. MaxUsage
    BY <2>1, <2>2
  <2>5. h \in BOOLEAN
    BY <2>1
  <2>6. QED BY <2>3, <2>4, <2>5
<1>5. /\ f \in Entry /\ f.errors = n
      /\ g \in Entry /\ g.errors = e.errors
  <2> HIDE DEF n, u, h
  <2>1. QED BY <1>1, <1>4 DEF Entry
<1> HIDE DEF f, g
<1>6. QED BY <1>2, <1>3, <1>5

(* A 429 backs off one index; a tick takes one from every backoff.          *)
LEMMA MarkRateLimitedSame ==
  ASSUME NEW p, WellFormed(p), NEW i \in Positions
  PROVE  LET q == MarkRateLimited(p, i)
         IN  /\ WellFormed(q)
             /\ q.keys = p.keys
             /\ q.backoff = [p.backoff EXCEPT ![i] = BackoffTicks]
<1> DEFINE bo == [p.backoff EXCEPT ![i] = BackoffTicks]
<1>1. bo \in [Positions -> 0 .. BackoffTicks]
  BY PoolAssumption DEF WellFormed, PoolRecord
<1>2. MarkRateLimited(p, i) = [p EXCEPT !.backoff = bo]
  BY DEF MarkRateLimited
<1> HIDE DEF bo
<1>3. WellFormed(MarkRateLimited(p, i)) /\ MarkRateLimited(p, i).keys = p.keys
        /\ MarkRateLimited(p, i).backoff = bo
  BY <1>1, <1>2, SetBackoff
<1>4. QED BY <1>3 DEF bo

LEMMA RestedSame ==
  ASSUME NEW p, WellFormed(p)
  PROVE  LET q == Rested(p)
         IN  /\ WellFormed(q)
             /\ q.keys = p.keys
             /\ q.backoff = [i \in Positions |->
                               IF p.backoff[i] > 0 THEN p.backoff[i] - 1 ELSE 0]
<1> DEFINE bo == [i \in Positions |-> IF p.backoff[i] > 0 THEN p.backoff[i] - 1 ELSE 0]
<1>1. bo \in [Positions -> 0 .. BackoffTicks]
  BY PoolAssumption DEF WellFormed, PoolRecord
<1>2. Rested(p) = [p EXCEPT !.backoff = bo]
  BY DEF Rested
<1> HIDE DEF bo
<1>3. WellFormed(Rested(p)) /\ Rested(p).keys = p.keys /\ Rested(p).backoff = bo
  BY <1>1, <1>2, SetBackoff
<1>4. QED BY <1>3 DEF bo

(* A new key comes last, so the others keep their indexes.                  *)
LEMMA AddKeyLast ==
  ASSUME NEW p, WellFormed(p), NEW k \in KeyIds, Len(p.keys) < MaxKeys
  PROVE  LET q == AddKey(p, k)
         IN  /\ WellFormed(q)
             /\ DOMAIN q.keys = DOMAIN p.keys \cup {Len(p.keys) + 1}
             /\ \A i \in DOMAIN p.keys : q.keys[i] = p.keys[i]
             /\ q.keys[Len(p.keys) + 1] = NewEntry(k)
             /\ q.backoff = p.backoff
<1> DEFINE ks == Append(p.keys, NewEntry(k))
<1>1. NewEntry(k) \in Entry
  BY PoolAssumption DEF NewEntry, Entry
<1>2. p.keys \in Seq(Entry)
  BY DomainInPositions
<1>3. /\ ks \in Seq(Entry)
      /\ Len(ks) = Len(p.keys) + 1
      /\ \A i \in 1 .. Len(p.keys) : ks[i] = p.keys[i]
      /\ ks[Len(p.keys) + 1] = NewEntry(k)
  BY <1>1, <1>2, AppendProperties
<1>4. AddKey(p, k) = [p EXCEPT !.keys = ks]
  BY DEF AddKey
<1> HIDE DEF ks
<1>5. DOMAIN ks = 1 .. Len(p.keys) + 1 /\ DOMAIN p.keys = 1 .. Len(p.keys)
        /\ Len(p.keys) \in Nat
  BY <1>2, <1>3
<1>6. AddKey(p, k) \in PoolRecord /\ AddKey(p, k).keys = ks /\ AddKey(p, k).backoff = p.backoff
  BY <1>3, <1>4 DEF WellFormed, PoolRecord
<1>7. Len(ks) <= MaxKeys
  BY <1>3, <1>5, PoolAssumption
<1>8. DOMAIN ks = DOMAIN p.keys \cup {Len(p.keys) + 1}
  BY <1>5
<1>9. QED BY <1>3, <1>5, <1>6, <1>7, <1>8 DEF WellFormed

(* A removal leaves a well-formed pool.                                     *)
LEMMA RemoveKeyWellFormed ==
  ASSUME NEW p, WellFormed(p), NEW i \in DOMAIN p.keys
  PROVE  WellFormed(RemoveKey(p, i))
<1> DEFINE a  == SubSeq(p.keys, 1, i - 1)
           b  == SubSeq(p.keys, i + 1, Len(p.keys))
           bo == [p.backoff EXCEPT ![i] = 0]
<1>1. p.keys \in Seq(Entry) /\ i \in 1 .. Len(p.keys) /\ Len(p.keys) \in Nat
        /\ i \in Positions
  BY DomainInPositions
<1>2. a \in Seq(Entry) /\ Len(a) = i - 1
  BY <1>1, SubSeqProperties
<1>3. b \in Seq(Entry) /\ Len(b) = Len(p.keys) - i
  BY <1>1, SubSeqProperties
<1> DEFINE ks == a \o b
<1>4. bo \in [Positions -> 0 .. BackoffTicks]
  BY <1>1, PoolAssumption DEF WellFormed, PoolRecord
<1>5. ks \in Seq(Entry) /\ Len(ks) = Len(a) + Len(b)
  <2> HIDE DEF a, b
  <2>1. QED BY <1>2, <1>3, ConcatProperties
<1>6. Len(ks) <= MaxKeys
  <2> HIDE DEF ks, a, b
  <2>1. QED BY <1>1, <1>2, <1>3, <1>5, PoolAssumption DEF WellFormed
<1> DEFINE q == [p EXCEPT !.keys = ks]
<1>7. RemoveKey(p, i) = [q EXCEPT !.backoff = bo]
  BY DEF RemoveKey, RemoveAt
<1> HIDE DEF ks, bo
<1>8. WellFormed(q)
  BY <1>5, <1>6, SetKeys
<1> HIDE DEF q
<1>9. QED BY <1>4, <1>7, <1>8, SetBackoff
-----------------------------------------------------------------------------
(* The remainder that is a counter's place in a rotation.                   *)

(* A quotient and a remainder are the only ones.                            *)
LEMMA Division ==
  ASSUME NEW m \in Nat \ {0}, NEW c \in Nat
  PROVE  /\ c % m \in 0 .. m - 1
         /\ c \div m \in Nat
         /\ c = m * (c \div m) + (c % m)
         /\ \A a \in Nat, r \in 0 .. m - 1 : c = m * a + r => c % m = r
<1>1. c % m \in 0 .. m - 1 /\ c \div m \in Nat /\ c = m * (c \div m) + (c % m)
  OBVIOUS
<1>2. ASSUME NEW a \in Nat, NEW r \in 0 .. m - 1, c = m * a + r PROVE c % m = r
  BY <1>2
<1>3. QED BY <1>1, <1>2

(* The place in a rotation of m that follows a counter's.                   *)
LEMMA NextTurn ==
  ASSUME NEW m \in Nat \ {0}, NEW c \in Nat
  PROVE  (c + 1) % m = IF (c % m) + 1 = m THEN 0 ELSE (c % m) + 1
<1> DEFINE a == c \div m
           r == c % m
<1>1. r \in 0 .. m - 1 /\ a \in Nat /\ c = m * a + r
  BY Division
<1>2. \A b \in Nat, s \in 0 .. m - 1 : c + 1 = m * b + s => (c + 1) % m = s
  <2>1. c + 1 \in Nat
    OBVIOUS
  <2>2. QED BY <2>1, Division, Zenon
<1> HIDE DEF a, r
<1>3. CASE r + 1 = m
  <2>1. c + 1 = m * (a + 1) + 0
    <3>1. m * (a + 1) = m * a + m
      BY <1>1
    <3>2. QED BY <1>1, <1>3, <3>1
  <2>2. a + 1 \in Nat /\ 0 \in 0 .. m - 1
    BY <1>1
  <2>3. (c + 1) % m = 0
    BY <1>2, <2>1, <2>2
  <2>4. QED BY <1>3, <2>3 DEF r
<1>4. CASE r + 1 # m
  <2>1. c + 1 = m * a + (r + 1) /\ r + 1 \in 0 .. m - 1
    BY <1>1, <1>4
  <2>2. (c + 1) % m = r + 1
    BY <1>1, <1>2, <2>1
  <2>3. QED BY <1>4, <2>2 DEF r
<1>5. QED BY <1>3, <1>4

(* A counter below its period is its own remainder.                         *)
LEMMA Wraps ==
  ASSUME NEW m \in Nat \ {0}, NEW c \in 0 .. m - 1
  PROVE  (c + 1) % m = IF c + 1 = m THEN 0 ELSE c + 1
<1>1. c + 1 \in Nat /\ c + 1 <= m
  OBVIOUS
<1>2. CASE c + 1 = m
  BY <1>2
<1>3. CASE c + 1 # m
  <2>1. c + 1 = m * 0 + (c + 1) /\ c + 1 \in 0 .. m - 1 /\ 0 \in Nat
    BY <1>1, <1>3
  <2>2. \A a \in Nat, r \in 0 .. m - 1 : c + 1 = m * a + r => (c + 1) % m = r
    BY <1>1, Division, Zenon
  <2>3. (c + 1) % m = c + 1
    BY <2>1, <2>2, Zenon
  <2>4. QED BY <1>3, <2>3
<1>4. QED BY <1>2, <1>3

(* A rotation goes on over the wrap of the counter, whose period it divides. *)
LEMMA PickedTurn ==
  ASSUME NEW p, WellFormed(p), NEW m \in 1 .. MaxKeys
  PROVE  /\ p.counter % m \in 0 .. m - 1
         /\ Picked(p, "round_robin").counter % m =
              IF (p.counter % m) + 1 = m THEN 0 ELSE (p.counter % m) + 1
<1> DEFINE c == p.counter
           d == (c + 1) % CounterPeriod
<1>1. /\ c \in 0 .. CounterPeriod - 1
      /\ c \in Nat
      /\ m \in Nat \ {0}
      /\ CounterPeriod \in Nat \ {0}
      /\ CounterPeriod % m = 0
  <2>1. c \in 0 .. CounterPeriod - 1
    BY DEF WellFormed, PoolRecord
  <2>2. CounterPeriod \in Nat \ {0} /\ CounterPeriod % m = 0 /\ MaxKeys \in Nat \ {0}
    BY PoolAssumption, Zenon
  <2> HIDE DEF c
  <2>3. QED BY <2>1, <2>2
<1>2. Picked(p, "round_robin").counter = d
  BY DEF WellFormed, PoolRecord, Picked
<1> HIDE DEF c
<1>3. c % m \in 0 .. m - 1
  BY <1>1, Division, Zenon
<1>4. (c + 1) % m = IF (c % m) + 1 = m THEN 0 ELSE (c % m) + 1
  BY <1>1, NextTurn
<1>5. d = IF c + 1 = CounterPeriod THEN 0 ELSE c + 1
  BY <1>1, Wraps, Zenon
<1> HIDE DEF d
<1>6. CASE c + 1 = CounterPeriod
  <2>1. 0 % m = 0
    BY <1>1
  <2>2. (c + 1) % m = 0
    BY <1>1, <1>6
  <2>3. QED BY <1>1, <1>2, <1>3, <1>4, <1>5, <1>6, <2>1, <2>2 DEF c
<1>7. CASE c + 1 # CounterPeriod
  BY <1>2, <1>3, <1>4, <1>5, <1>7 DEF c
<1>8. QED BY <1>6, <1>7

(* No operator but get_next_key's moves the counter.                        *)
LEMMA CounterSame ==
  ASSUME NEW p, WellFormed(p)
  PROVE  /\ \A i : MarkError(p, i).counter = p.counter
         /\ \A i : MarkSuccess(p, i).counter = p.counter
         /\ \A i : MarkRateLimited(p, i).counter = p.counter
         /\ \A i : RemoveKey(p, i).counter = p.counter
         /\ \A k : AddKey(p, k).counter = p.counter
         /\ Rested(p).counter = p.counter
<1>1. \A i : MarkError(p, i).counter = p.counter
  BY DEF WellFormed, PoolRecord, MarkError
<1>2. \A i : MarkSuccess(p, i).counter = p.counter
  BY DEF WellFormed, PoolRecord, MarkSuccess
<1>3. \A i : MarkRateLimited(p, i).counter = p.counter
  BY DEF WellFormed, PoolRecord, MarkRateLimited
<1>4. \A i : RemoveKey(p, i).counter = p.counter
  BY DEF WellFormed, PoolRecord, RemoveKey
<1>5. \A k : AddKey(p, k).counter = p.counter
  BY DEF WellFormed, PoolRecord, AddKey
<1>6. Rested(p).counter = p.counter
  BY DEF WellFormed, PoolRecord, Rested
<1>7. QED BY <1>1, <1>2, <1>3, <1>4, <1>5, <1>6

(* The keys behind a removed one move up by one, the others stay.           *)
LEMMA RemoveKeyMovesUp ==
  ASSUME NEW p, WellFormed(p), NEW i \in DOMAIN p.keys
  PROVE  /\ DOMAIN RemoveKey(p, i).keys = 1 .. Len(p.keys) - 1
         /\ \A j \in 1 .. Len(p.keys) - 1 :
              RemoveKey(p, i).keys[j] = p.keys[IF j < i THEN j ELSE j + 1]
<1> DEFINE a == SubSeq(p.keys, 1, i - 1)
           b == SubSeq(p.keys, i + 1, Len(p.keys))
           ks == a \o b
<1>1. p.keys \in Seq(Entry) /\ i \in 1 .. Len(p.keys) /\ Len(p.keys) \in Nat
  BY DomainInPositions
<1>2. /\ a \in Seq(Entry) /\ Len(a) = i - 1
      /\ \A j \in 1 .. i - 1 : a[j] = p.keys[j]
  BY <1>1, SubSeqProperties
<1>3. /\ b \in Seq(Entry) /\ Len(b) = Len(p.keys) - i
      /\ \A j \in 1 .. Len(p.keys) - i : b[j] = p.keys[i + j]
  <2>1. /\ b \in Seq(Entry) /\ Len(b) = Len(p.keys) - i
        /\ \A j \in 1 .. Len(p.keys) - i : b[j] = p.keys[i + 1 + j - 1]
    BY <1>1, SubSeqProperties
  <2> HIDE DEF b
  <2>2. QED BY <1>1, <2>1
<1>4. RemoveKey(p, i).keys = ks
  BY DEF RemoveKey, RemoveAt, WellFormed, PoolRecord
<1> HIDE DEF a, b
<1>5. /\ Len(ks) = Len(a) + Len(b) /\ ks \in Seq(Entry)
      /\ \A j \in 1 .. Len(a) + Len(b) :
           ks[j] = IF j <= Len(a) THEN a[j] ELSE b[j - Len(a)]
  BY <1>2, <1>3, ConcatProperties
<1> HIDE DEF ks
<1>6. DOMAIN ks = 1 .. Len(p.keys) - 1
  BY <1>1, <1>2, <1>3, <1>5
<1>7. ASSUME NEW j \in 1 .. Len(p.keys) - 1
      PROVE  ks[j] = p.keys[IF j < i THEN j ELSE j + 1]
  <2>1. j \in Nat /\ i \in Nat /\ j \in 1 .. (i - 1) + (Len(p.keys) - i)
    BY <1>1
  <2>2. ks[j] = IF j <= i - 1 THEN a[j] ELSE b[j - (i - 1)]
    BY <1>2, <1>3, <1>5, <2>1
  <2>3. CASE j < i
    <3>1. j <= i - 1 /\ j \in 1 .. i - 1
      BY <2>1, <2>3
    <3>2. ks[j] = a[j] /\ a[j] = p.keys[j]
      BY <1>2, <2>2, <3>1
    <3>3. QED BY <2>3, <3>2
  <2>4. CASE ~ (j < i)
    <3>1. ~ (j <= i - 1) /\ j - (i - 1) \in 1 .. Len(p.keys) - i
      <4> DEFINE n == Len(p.keys)
      <4>1. n \in Nat /\ i \in 1 .. n /\ j \in 1 .. n - 1
        BY <1>1
      <4> HIDE DEF n
      <4>2. ~ (j <= i - 1) /\ j - (i - 1) \in 1 .. n - i
        BY <2>4, <4>1
      <4>3. QED BY <4>2 DEF n
    <3>2. i + (j - (i - 1)) = j + 1
      BY <2>1
    <3>3. ks[j] = b[j - (i - 1)]
      BY <2>2, <3>1
    <3>4. b[j - (i - 1)] = p.keys[i + (j - (i - 1))]
      BY <1>3, <3>1
    <3>5. QED BY <2>4, <3>2, <3>3, <3>4
  <2>5. QED BY <2>3, <2>4
<1>8. QED BY <1>4, <1>6, <1>7
=============================================================================
