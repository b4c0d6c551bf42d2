------------------------------ MODULE Keys_proofs ------------------------------
(***************************************************************************)
(* What key_pool.py keeps, for any number of keys, requests and workers.   *)
(* First a pool (module KeyPool), whatever its size, rotation strategy,    *)
(* error threshold and backoff: some of it as long as no key has been      *)
(* removed, the rest after a 429 up to a backoff after a removal, the      *)
(* rotation of round robin always.  Then the stored keys                   *)
(* (module KeyStore), for any number of rows and of changes of the secret: *)
(* rows are written only under the present secret, a change of secret      *)
(* finds every row under the last one, and a worker that is about to       *)
(* re-encrypt knows every row that is left to do, since nobody adds a      *)
(* stale one.                                                              *)
(***************************************************************************)
EXTENDS KeyPool, KeyStore, Parts_proofs, FiniteSetTheorems

--------------------------------------------------------------------------------
(* A pool.                                                                   *)

\* No key is in the pool twice.
Distinct(p) == \A i, j \in DOMAIN p.keys : p.keys[i].id = p.keys[j].id => i = j

\* An entry's rest is covered by the backoff of its index, but for what backoffs
\* may yet be at another's.
Covered(p, rs, a) ==
  \A i \in DOMAIN p.keys : rs[p.keys[i].id] <= p.backoff[i] \/ rs[p.keys[i].id] <= a

\* Only entries of the pool rest, but for those removed.
RestingInPool(p, rs, a) ==
  \A k \in KeyIds : rs[k] <= a \/ \E i \in DOMAIN p.keys : p.keys[i].id = k

\* Each request's index leads to the entry it took.
Aimed(p, fl) ==
  \A r \in Requests : fl[r] # Idle =>
    fl[r].pos \in DOMAIN p.keys /\ p.keys[fl[r].pos].id = fl[r].id

\* Where the backoffs are.
Backed ==
  /\ Distinct(pool)
  /\ Covered(pool, rest, astray)
  /\ RestingInPool(pool, rest, astray)

IInv == TypeOK /\ Backed /\ (removals = 0 => Aimed(pool, flight))
-----------------------------------------------------------------------------
(* Where entries are and rest depends on their places only, not             *)
(* on what their entries count.                                             *)
LEMMA SameKeysKeep ==
  ASSUME NEW p, NEW q, NEW rs, NEW a, NEW fl,
         SameKeys(p, q), q.backoff = p.backoff
  PROVE  /\ Distinct(p) => Distinct(q)
         /\ Covered(p, rs, a) => Covered(q, rs, a)
         /\ RestingInPool(p, rs, a) => RestingInPool(q, rs, a)
         /\ Aimed(p, fl) => Aimed(q, fl)
  BY DEF SameKeys, Distinct, Covered, RestingInPool, Aimed

(* A request that lets go of its key leaves the others aimed.               *)
LEMMA LetGo ==
  ASSUME NEW p, NEW r \in Requests, flight \in [Requests -> Holding \cup {Idle}],
         Aimed(p, flight)
  PROVE  Aimed(p, [flight EXCEPT ![r] = Idle])
  BY DEF Aimed

(* A lap is a set of keys.                                                  *)
LEMMA LapType ==
  ASSUME NEW p, lap \subseteq KeyIds, NEW out \in SUBSET KeyIds
  PROVE  Lap(p, out) \subseteq KeyIds
  BY DEF Lap

(* The entries that the loads make are different ones.                      *)
LEMMA LoadedKeys ==
  /\ InitialKeys \in Seq(KeyIds) /\ Len(InitialKeys) \in Nat
  /\ DOMAIN InitialKeys = 1 .. Len(InitialKeys)
  /\ \A i \in DOMAIN InitialKeys : InitialKeys[i] \in KeyIds
<1>1. InitialKeys \in Seq(KeyIds)
  BY KeyPoolAssumption, ConcatProperties DEF InitialKeys
<1>2. QED BY <1>1

(* Where nothing covers a rest, time does: after a removal, or a report that *)
(* has gone to another entry.                                                *)
LEMMA AllAstray ==
  ASSUME NEW p, WellFormed(p), NEW rs \in [KeyIds -> 0 .. BackoffTicks]
  PROVE  Covered(p, rs, BackoffTicks) /\ RestingInPool(p, rs, BackoffTicks)
<1>1. \A k \in KeyIds : rs[k] <= BackoffTicks
  BY PoolAssumption
<1>2. \A i \in DOMAIN p.keys : p.keys[i].id \in KeyIds
  BY DomainInPositions DEF Entry
<1>3. QED BY <1>1, <1>2 DEF Covered, RestingInPool

(* A removal makes no entry twice one.                                      *)
LEMMA RemoveKeyDistinct ==
  ASSUME NEW p, WellFormed(p), Distinct(p), NEW i \in DOMAIN p.keys
  PROVE  Distinct(RemoveKey(p, i))
<1> DEFINE n == Len(p.keys)
           at(j) == IF j < i THEN j ELSE j + 1
<1>1. n \in Nat /\ DOMAIN p.keys = 1 .. n /\ i \in 1 .. n
  BY DomainInPositions
<1>2. /\ DOMAIN RemoveKey(p, i).keys = 1 .. n - 1
      /\ \A j \in 1 .. n - 1 : RemoveKey(p, i).keys[j] = p.keys[at(j)]
  BY RemoveKeyMovesUp
<1>3. /\ \A j \in 1 .. n - 1 : at(j) \in DOMAIN p.keys
      /\ \A a, b \in 1 .. n - 1 : at(a) = at(b) => a = b
  BY <1>1
<1> HIDE DEF n, at
<1>4. QED BY <1>2, <1>3 DEF Distinct

(* The pool starts with its keys at rest nowhere.                           *)
LEMMA InitIInv == Init => IInv
<1> SUFFICES ASSUME Init PROVE IInv
  OBVIOUS
<1> DEFINE ks == [i \in DOMAIN InitialKeys |-> NewEntry(InitialKeys[i])]
<1>1. /\ ks \in Seq(Entry) /\ Len(ks) = Len(InitialKeys)
      /\ DOMAIN ks = DOMAIN InitialKeys
      /\ \A i \in DOMAIN ks : ks[i].id = InitialKeys[i]
  <2>1. DOMAIN InitialKeys = 1 .. Len(InitialKeys) /\ Len(InitialKeys) \in Nat
          /\ \A i \in DOMAIN InitialKeys : InitialKeys[i] \in KeyIds
    BY LoadedKeys
  <2>2. \A i \in DOMAIN InitialKeys : NewEntry(InitialKeys[i]) \in Entry
    BY <2>1, PoolAssumption DEF NewEntry, Entry
  <2>3. \A i \in 1 .. Len(InitialKeys) : ks[i] \in Entry
    BY <2>1, <2>2
  <2>4. ks \in Seq(Entry) /\ Len(ks) = Len(InitialKeys)
    BY <2>1, <2>3
  <2>5. QED BY <2>1, <2>4 DEF NewEntry
<1>2. pool = [EmptyPool EXCEPT !.keys = ks]
  BY DEF Init
<1> HIDE DEF ks
<1>3. WellFormed(pool) /\ pool.keys = ks /\ \A i \in Positions : pool.backoff[i] = 0
  <2> DEFINE none == [i \in Positions |-> 0]
  <2>1. pool = [keys |-> ks, counter |-> 0, backoff |-> none]
    BY <1>2 DEF EmptyPool
  <2>2. none \in [Positions -> 0 .. BackoffTicks] /\ 0 \in 0 .. CounterPeriod - 1
    BY PoolAssumption
  <2>3. \A i \in Positions : none[i] = 0
    OBVIOUS
  <2> HIDE DEF none
  <2>4. pool \in PoolRecord /\ pool.keys = ks /\ pool.backoff = none
    BY <1>1, <2>1, <2>2 DEF PoolRecord
  <2>5. QED BY <1>1, <2>3, <2>4, KeyPoolAssumption DEF WellFormed
<1>4. TypeOK
  BY <1>3, KeyPoolAssumption, PoolAssumption DEF Init, TypeOK, WellFormed
<1>5. Backed
  <2>1. DOMAIN pool.keys \subseteq Positions
    BY <1>3, DomainInPositions
  <2>2. Distinct(pool)
    BY <1>1, <1>3, KeyPoolAssumption DEF Distinct
  <2>3. \A i \in DOMAIN pool.keys : pool.keys[i].id \in KeyIds
    BY <1>3, DomainInPositions DEF Entry
  <2>4. Covered(pool, rest, astray) /\ RestingInPool(pool, rest, astray)
    BY <2>3 DEF Covered, RestingInPool, Init
  <2>5. QED BY <2>2, <2>4 DEF Backed
<1>6. Aimed(pool, flight)
  BY DEF Aimed, Init
<1>7. QED BY <1>4, <1>5, <1>6 DEF IInv

(* Every step keeps the invariant, a removal by giving the backoffs time.   *)
LEMMA NextIInv == IInv /\ [Next]_vars => IInv'
<1> SUFFICES ASSUME IInv, [Next]_vars PROVE IInv'
  OBVIOUS
<1>1. /\ TypeOK
      /\ WellFormed(pool)
      /\ Backed
      /\ removals = 0 => Aimed(pool, flight)
  BY DEF IInv, TypeOK, WellFormed
<1>2. \A i \in DOMAIN pool.keys : i \in Positions /\ pool.keys[i].id \in KeyIds
  BY <1>1, DomainInPositions DEF Entry
<1>3. ASSUME NEW r \in Requests, NEW i \in Positions, Take(r, i) PROVE IInv'
  <2>1. i \in DOMAIN pool.keys
    BY <1>3 DEF Take, NextKeys, RoundRobin, LeastUsed, Eligible, TypeOK, Strategies, IInv
  <2>2. WellFormed(pool') /\ pool'.keys = pool.keys /\ pool'.backoff = pool.backoff
    BY <1>1, <1>3, PickedSame DEF Take
  <2>3. [pos |-> i, id |-> pool.keys[i].id] \in Holding
    BY <1>2, <2>1 DEF Holding
  <2>4. lap' \subseteq KeyIds
    BY <1>1, <1>2, <1>3, <2>1, LapType DEF Take, TypeOK
  <2>5. TypeOK'
    BY <1>1, <1>3, <2>2, <2>3, <2>4 DEF Take, TypeOK, WellFormed
  <2>6. Backed'
    BY <1>1, <1>3, <2>2 DEF Take, Backed, Distinct, Covered, RestingInPool
  <2>7. ASSUME removals' = 0 PROVE Aimed(pool', flight')
    BY <1>1, <1>3, <2>1, <2>2, <2>7 DEF Take, Aimed, TypeOK
  <2>8. QED BY <2>5, <2>6, <2>7 DEF IInv
<1>4. ASSUME NEW r \in Requests, Succeed(r) PROVE IInv'
  <2>1. /\ WellFormed(pool')
        /\ SameKeys(pool, pool')
        /\ pool'.backoff = pool.backoff
    BY <1>1, <1>4, MarkSuccessSame DEF Succeed
  <2>3. TypeOK'
    BY <1>1, <1>4, <2>1, LapType DEF Succeed, TypeOK, WellFormed
  <2>4. Backed'
    BY <1>1, <1>4, <2>1, SameKeysKeep DEF Succeed, Backed
  <2>5. ASSUME removals' = 0 PROVE Aimed(pool', flight')
    <3>1. Aimed(pool, flight) /\ flight' = [flight EXCEPT ![r] = Idle]
      BY <1>1, <1>4, <2>5 DEF Succeed
    <3>2. Aimed(pool, flight')
      BY <1>1, <3>1, LetGo DEF TypeOK
    <3>3. QED BY <2>1, <3>2, SameKeysKeep
  <2>6. QED BY <2>3, <2>4, <2>5 DEF IInv
<1>5. ASSUME NEW r \in Requests, Fail(r) PROVE IInv'
  <2>1. /\ WellFormed(pool')
        /\ SameKeys(pool, pool')
        /\ pool'.backoff = pool.backoff
    BY <1>1, <1>5, MarkErrorSame DEF Fail
  <2>2. TypeOK'
    BY <1>1, <1>5, <2>1, LapType DEF Fail, TypeOK, WellFormed
  <2>3. Backed'
    BY <1>1, <1>5, <2>1, SameKeysKeep DEF Fail, Backed
  <2>4. ASSUME removals' = 0 PROVE Aimed(pool', flight')
    <3>1. Aimed(pool, flight) /\ flight' = [flight EXCEPT ![r] = Idle]
      BY <1>1, <1>5, <2>4 DEF Fail
    <3>2. Aimed(pool, flight')
      BY <1>1, <3>1, LetGo DEF TypeOK
    <3>3. QED BY <2>1, <3>2, SameKeysKeep
  <2>5. QED BY <2>2, <2>3, <2>4 DEF IInv
<1>6. ASSUME NEW r \in Requests, HitLimit(r) PROVE IInv'
  <2> DEFINE pos == flight[r].pos
             id  == flight[r].id
  <2>1. pos \in Positions /\ id \in KeyIds
    BY <1>1, <1>6 DEF HitLimit, TypeOK, Holding
  <2>2. /\ WellFormed(pool')
        /\ pool'.keys = pool.keys
        /\ pool'.backoff = [pool.backoff EXCEPT ![pos] = BackoffTicks]
    BY <1>1, <1>6, <2>1, MarkRateLimitedSame DEF HitLimit
  <2>3. TypeOK'
    <3>1. rest' \in [KeyIds -> 0 .. BackoffTicks]
      <4>1. BackoffTicks \in 0 .. BackoffTicks
        BY PoolAssumption
      <4>2. rest \in [KeyIds -> 0 .. BackoffTicks]
              /\ rest' = [rest EXCEPT ![id] = BackoffTicks]
        BY <1>1, <1>6 DEF HitLimit, TypeOK
      <4> HIDE DEF pos, id
      <4>3. QED BY <4>1, <4>2
    <3>2. flight' \in [Requests -> Holding \cup {Idle}]
      BY <1>1, <1>6 DEF HitLimit, TypeOK
    <3>3. lap' \subseteq KeyIds
      BY <1>1, <1>6, LapType DEF HitLimit, TypeOK
    <3> HIDE DEF pos, id
    <3>4. QED BY <1>1, <1>6, <2>2, <3>1, <3>2, <3>3 DEF HitLimit, TypeOK, WellFormed
  <2>4. pool.backoff \in [Positions -> 0 .. BackoffTicks]
          /\ rest \in [KeyIds -> 0 .. BackoffTicks]
          /\ rest' = [rest EXCEPT ![id] = BackoffTicks]
    BY <1>1, <1>6 DEF TypeOK, PoolRecord, HitLimit
  <2>5. Distinct(pool')
    BY <1>1, <2>2 DEF Backed, Distinct
  <2>6. ASSUME LeadsHome(flight[r]) PROVE Backed'
    <3>1. astray' = astray /\ pos \in DOMAIN pool.keys /\ pool.keys[pos].id = id
      BY <1>6, <2>6 DEF HitLimit, LeadsHome
    <3> HIDE DEF pos, id
    <3>2. Covered(pool', rest', astray')
      <4> SUFFICES ASSUME NEW j \in DOMAIN pool.keys
                   PROVE  \/ rest'[pool.keys[j].id] <= pool'.backoff[j]
                          \/ rest'[pool.keys[j].id] <= astray
        BY <2>2, <3>1 DEF Covered
      <4>1. CASE j = pos
        BY <1>2, <2>1, <2>2, <2>4, <3>1, <4>1, PoolAssumption
      <4>2. CASE j # pos
        <5>1. pool.keys[j].id # id
          BY <1>1, <3>1, <4>2 DEF Backed, Distinct
        <5>2. rest'[pool.keys[j].id] = rest[pool.keys[j].id] /\ pool'.backoff[j] = pool.backoff[j]
          BY <1>2, <2>1, <2>2, <2>4, <4>2, <5>1
        <5>3. QED BY <1>1, <5>2 DEF Backed, Covered
      <4>3. QED BY <4>1, <4>2
    <3>3. RestingInPool(pool', rest', astray')
      BY <1>1, <2>1, <2>2, <2>4, <3>1 DEF Backed, RestingInPool
    <3>4. QED BY <2>5, <3>2, <3>3 DEF Backed
  <2>7. ASSUME ~ LeadsHome(flight[r]) PROVE Backed'
    <3>1. astray' = BackoffTicks
      BY <1>6, <2>7 DEF HitLimit
    <3>2. rest' \in [KeyIds -> 0 .. BackoffTicks]
      BY <2>3 DEF TypeOK
    <3>3. QED BY <2>2, <2>5, <3>1, <3>2, AllAstray DEF Backed
  <2>8. ASSUME removals' = 0 PROVE Aimed(pool', flight')
    <3>1. Aimed(pool, flight) /\ flight' = [flight EXCEPT ![r] = Idle]
      BY <1>1, <1>6, <2>8 DEF HitLimit
    <3>2. Aimed(pool, flight')
      BY <1>1, <3>1, LetGo DEF TypeOK
    <3>3. QED BY <2>2, <3>2 DEF Aimed
  <2>9. QED BY <2>3, <2>5, <2>6, <2>7, <2>8 DEF IInv
<1>7. ASSUME NEW k \in KeyIds, AdminAdds(k) PROVE IInv'
  <2> DEFINE n == Len(pool.keys) + 1
  <2>1. /\ WellFormed(pool')
        /\ DOMAIN pool'.keys = DOMAIN pool.keys \cup {n}
        /\ \A i \in DOMAIN pool.keys : pool'.keys[i] = pool.keys[i]
        /\ pool'.keys[n].id = k
        /\ pool'.backoff = pool.backoff
    <3>1. pool' = AddKey(pool, k) /\ Len(pool.keys) < MaxKeys
      BY <1>7 DEF AdminAdds
    <3>2. NewEntry(k).id = k
      BY DEF NewEntry
    <3>3. QED BY <1>1, <3>1, <3>2, AddKeyLast
  <2> HIDE DEF n
  <2>2. TypeOK'
    BY <1>1, <1>7, <2>1, LapType DEF AdminAdds, TypeOK, WellFormed
  <2>3. Backed'
    <3>1. Backed /\ rest' = rest /\ astray' = astray
      BY <1>1, <1>7 DEF AdminAdds
    <3>2. \A i \in DOMAIN pool.keys : pool.keys[i].id # k
      BY <1>7 DEF AdminAdds
    <3>3. rest[k] <= astray
      BY <3>1, <3>2 DEF Backed, RestingInPool
    <3>4. Covered(pool', rest', astray')
      BY <2>1, <3>1, <3>3 DEF Backed, Covered
    <3>5. Distinct(pool')
      BY <2>1, <3>1, <3>2 DEF Backed, Distinct
    <3>6. RestingInPool(pool', rest', astray')
      BY <2>1, <3>1 DEF Backed, RestingInPool
    <3>7. QED BY <3>4, <3>5, <3>6 DEF Backed
  <2>4. ASSUME removals' = 0 PROVE Aimed(pool', flight')
    BY <1>1, <1>7, <2>1, <2>4 DEF AdminAdds, Aimed
  <2>5. QED BY <2>2, <2>3, <2>4 DEF IInv
<1>8. ASSUME NEW i \in Positions, AdminRemoves(i) PROVE IInv'
  <2>1. WellFormed(pool')
    BY <1>1, <1>8, RemoveKeyWellFormed DEF AdminRemoves
  <2>2. removals' \in 0 .. MaxRemovals /\ removals' # 0
    BY <1>1, <1>8, KeyPoolAssumption DEF AdminRemoves, TypeOK
  <2>3. TypeOK'
    BY <1>1, <1>8, <2>1, <2>2, LapType, PoolAssumption DEF AdminRemoves, TypeOK, WellFormed
  <2>4. Backed'
    <3>1. Distinct(pool')
      BY <1>1, <1>8, RemoveKeyDistinct DEF AdminRemoves, Backed
    <3>2. astray' = BackoffTicks /\ rest' \in [KeyIds -> 0 .. BackoffTicks]
      BY <1>8, <2>3 DEF AdminRemoves, TypeOK
    <3>3. QED BY <2>1, <3>1, <3>2, AllAstray DEF Backed
  <2>5. QED BY <2>2, <2>3, <2>4 DEF IInv
<1>9. CASE Tick
  <2>1. /\ WellFormed(pool')
        /\ pool'.keys = pool.keys
        /\ pool'.backoff = [i \in Positions |->
                              IF pool.backoff[i] > 0 THEN pool.backoff[i] - 1 ELSE 0]
    BY <1>1, <1>9, RestedSame DEF Tick
  <2>2. /\ rest' = [k \in KeyIds |-> IF rest[k] > 0 THEN rest[k] - 1 ELSE 0]
        /\ astray' = IF astray > 0 THEN astray - 1 ELSE 0
    BY <1>9 DEF Tick
  <2>3. /\ pool.backoff \in [Positions -> 0 .. BackoffTicks]
        /\ rest \in [KeyIds -> 0 .. BackoffTicks]
        /\ astray \in 0 .. BackoffTicks
    BY <1>1 DEF TypeOK, PoolRecord
  <2>4. rest' \in [KeyIds -> 0 .. BackoffTicks] /\ astray' \in 0 .. BackoffTicks
    BY <2>2, <2>3, PoolAssumption
  <2>5. TypeOK'
    BY <1>1, <1>9, <2>1, <2>4, LapType DEF Tick, TypeOK, WellFormed
  <2>6. Backed'
    <3>1. \A k \in KeyIds : rest[k] <= astray => rest'[k] <= astray'
      BY <2>2, <2>3, PoolAssumption
    <3>2. Covered(pool', rest', astray')
      <4> SUFFICES ASSUME NEW j \in DOMAIN pool.keys
                   PROVE  \/ rest'[pool.keys[j].id] <= pool'.backoff[j]
                          \/ rest'[pool.keys[j].id] <= astray'
        BY <2>1 DEF Covered
      <4>1. \/ rest[pool.keys[j].id] <= pool.backoff[j]
            \/ rest[pool.keys[j].id] <= astray
        BY <1>1 DEF Backed, Covered
      <4>2. ASSUME rest[pool.keys[j].id] <= pool.backoff[j]
            PROVE  rest'[pool.keys[j].id] <= pool'.backoff[j]
        BY <1>2, <2>1, <2>2, <2>3, <4>2, PoolAssumption
      <4>3. QED BY <1>2, <3>1, <4>1, <4>2
    <3>3. RestingInPool(pool', rest', astray')
      BY <1>1, <2>1, <3>1 DEF Backed, RestingInPool
    <3>4. Distinct(pool')
      BY <1>1, <2>1 DEF Backed, Distinct
    <3>5. QED BY <3>2, <3>3, <3>4 DEF Backed
  <2>7. ASSUME removals' = 0 PROVE Aimed(pool', flight')
    BY <1>1, <1>9, <2>1, <2>7 DEF Tick, Aimed
  <2>8. QED BY <2>5, <2>6, <2>7 DEF IInv
<1>10. CASE UNCHANGED vars
  BY <1>10 DEF vars, IInv, TypeOK, Backed, Distinct, Covered, RestingInPool, Aimed
<1>11. QED
  BY <1>3, <1>4, <1>5, <1>6, <1>7, <1>8, <1>9, <1>10 DEF Next
-----------------------------------------------------------------------------
(* IInv is an invariant of the specification.                               *)
THEOREM Invariance == Spec => []IInv
  BY InitIInv, NextIInv, PTL DEF Spec

(* The pool, the positions held and the histories keep their types, after   *)
(* removals too: no operation indexes past the list (key_pool.py:81-167).   *)
THEOREM TypeCorrect == Spec => []TypeOK
<1>1. IInv => TypeOK  BY DEF IInv
<1>2. QED BY <1>1, Invariance, PTL

(* Until the first removal a request's report reaches the key it used, for  *)
(* any number of requests and additions (key_pool.py:54-154).               *)
THEOREM ReportsReachTheirKeyHolds == Spec => []ReportsReachTheirKey
<1>1. IInv => ReportsReachTheirKey
  BY DEF IInv, Aimed, ReportsReachTheirKey, LeadsHome
<1>2. QED BY <1>1, Invariance, PTL

(* An entry is not handed out during a whole backoff after its last 429, and *)
(* after a removal this holds again within a backoff of the last report that *)
(* the removal misled (key_pool.py:105-117, 156-167).                        *)
THEOREM BackedOffEntryRestsHolds == Spec => []BackedOffEntryRests
<1>1. ASSUME IInv, astray = 0, NEW i \in Eligible(pool)
      PROVE  rest[pool.keys[i].id] = 0
  <2>1. i \in DOMAIN pool.keys /\ pool.backoff[i] = 0
    BY DEF Eligible
  <2>2. pool.keys[i].id \in KeyIds /\ rest \in [KeyIds -> 0 .. BackoffTicks]
    BY <1>1, <2>1, DomainInPositions DEF IInv, TypeOK, WellFormed, Entry
  <2>3. rest[pool.keys[i].id] <= 0
    BY <1>1, <2>1 DEF IInv, Backed, Covered
  <2>4. QED BY <2>2, <2>3, PoolAssumption
<1>2. IInv => BackedOffEntryRests
  BY <1>1 DEF BackedOffEntryRests
<1>3. QED BY <1>2, Invariance, PTL
-----------------------------------------------------------------------------
\* The key at position i is unhealthy and in nobody's hands.
RetiredAt(p, fl, i) ==
  /\ i \in DOMAIN p.keys
  /\ ~ p.keys[i].healthy
  /\ \A r \in Requests : fl[r] # Idle => fl[r].pos # i

(* Without a removal a retired position stays one, with the same key.       *)
LEMMA RetiredStep ==
  ASSUME IInv, [Next]_vars, removals' = 0, NEW i, RetiredAt(pool, flight, i)
  PROVE  RetiredAt(pool', flight', i) /\ pool'.keys[i].id = pool.keys[i].id
<1>1. WellFormed(pool) /\ TypeOK
  BY DEF IInv, TypeOK, WellFormed
<1>2. ASSUME NEW r \in Requests, flight' = [flight EXCEPT ![r] = Idle]
      PROVE  \A q \in Requests : flight'[q] # Idle => flight'[q].pos # i
  BY <1>1, <1>2 DEF RetiredAt, TypeOK
<1>3. ASSUME NEW r \in Requests, NEW j \in Positions, Take(r, j)
      PROVE  RetiredAt(pool', flight', i) /\ pool'.keys[i].id = pool.keys[i].id
  <2>1. j \in Eligible(pool)
    BY <1>1, <1>3 DEF Take, NextKeys, RoundRobin, LeastUsed, TypeOK, Strategies
  <2>2. j # i
    BY <2>1 DEF Eligible, RetiredAt
  <2>3. pool'.keys = pool.keys
    BY <1>1, <1>3, PickedSame DEF Take
  <2>4. QED BY <1>1, <1>3, <2>2, <2>3 DEF Take, RetiredAt, TypeOK
<1>4. ASSUME NEW r \in Requests, Succeed(r)
      PROVE  RetiredAt(pool', flight', i) /\ pool'.keys[i].id = pool.keys[i].id
  <2>1. flight[r].pos # i
    BY <1>4 DEF Succeed, RetiredAt
  <2>2. SameKeys(pool, pool') /\ pool'.keys[i] = pool.keys[i]
    BY <1>1, <1>4, <2>1, MarkSuccessSame DEF Succeed, RetiredAt
  <2>3. QED BY <1>2, <1>4, <2>2 DEF Succeed, RetiredAt, SameKeys
<1>5. ASSUME NEW r \in Requests, Fail(r)
      PROVE  RetiredAt(pool', flight', i) /\ pool'.keys[i].id = pool.keys[i].id
  <2>1. flight[r].pos # i
    BY <1>5 DEF Fail, RetiredAt
  <2>2. SameKeys(pool, pool') /\ pool'.keys[i] = pool.keys[i]
    BY <1>1, <1>5, <2>1, MarkErrorSame DEF Fail, RetiredAt
  <2>3. QED BY <1>2, <1>5, <2>2 DEF Fail, RetiredAt, SameKeys
<1>6. ASSUME NEW r \in Requests, HitLimit(r)
      PROVE  RetiredAt(pool', flight', i) /\ pool'.keys[i].id = pool.keys[i].id
  <2>1. pool'.keys = pool.keys
    BY <1>1, <1>6, MarkRateLimitedSame DEF HitLimit, TypeOK, Holding
  <2>2. QED BY <1>2, <1>6, <2>1 DEF HitLimit, RetiredAt
<1>7. ASSUME NEW k \in KeyIds, AdminAdds(k)
      PROVE  RetiredAt(pool', flight', i) /\ pool'.keys[i].id = pool.keys[i].id
  <2>1. pool' = AddKey(pool, k) /\ Len(pool.keys) < MaxKeys /\ flight' = flight
    BY <1>7 DEF AdminAdds
  <2>2. i \in DOMAIN pool'.keys /\ pool'.keys[i] = pool.keys[i]
    BY <1>1, <2>1, AddKeyLast DEF RetiredAt
  <2>3. QED BY <2>1, <2>2 DEF RetiredAt
<1>8. ASSUME NEW j \in Positions, AdminRemoves(j) PROVE FALSE
  BY <1>1, <1>8, KeyPoolAssumption DEF AdminRemoves, TypeOK
<1>9. CASE Tick
  <2>1. pool'.keys = pool.keys /\ flight' = flight
    BY <1>1, <1>9, RestedSame DEF Tick
  <2>2. QED BY <2>1 DEF RetiredAt
<1>10. CASE UNCHANGED vars
  BY <1>10 DEF vars, RetiredAt
<1>11. QED
  BY <1>3, <1>4, <1>5, <1>6, <1>7, <1>8, <1>9, <1>10 DEF Next

(* No lapse of time, no request and no addition revives a retired key       *)
(* (key_pool.py:54-103).                                                    *)
THEOREM RetiredStaysRetiredHolds == Spec => RetiredStaysRetired
<1>1. ASSUME IInv, [Next]_vars, removals' = 0, NEW k \in Retired(pool, flight)
      PROVE  k \in Retired(pool', flight')
  <2>1. PICK i : RetiredAt(pool, flight, i) /\ pool.keys[i].id = k
    BY DEF Retired, RetiredAt
  <2>2. RetiredAt(pool', flight', i) /\ pool'.keys[i].id = k
    BY <1>1, <2>1, RetiredStep
  <2>3. QED BY <2>2 DEF Retired, RetiredAt
<1>2. IInv /\ [Next]_vars
        => [removals' = 0 => Retired(pool, flight) \subseteq Retired(pool', flight')]_vars
  BY <1>1
<1>3. QED BY <1>2, Invariance, PTL DEF Spec, RetiredStaysRetired
-----------------------------------------------------------------------------
\* Key x comes before key y in the pool.
Before(p, x, y) ==
  \E i, j \in DOMAIN p.keys : i < j /\ p.keys[i].id = x /\ p.keys[j].id = y

\* How many eligible keys come before key x.
Rank(p, x) == Cardinality({y \in EligibleIds(p) : Before(p, y, x)})

\* How many keys of m have had a turn since the one at place n, if the next
\* turn is that of place q.
Ago(q, m, n) == IF n < q THEN (q - 1) - n ELSE ((q - 1) - n) + m

\* The lap l is the keys whose turns were the last ones, but not all of them.
InTurn(p, l) ==
  EligibleIds(p) # {} =>
    \E k \in 0 .. Cardinality(EligibleIds(p)) - 1 :
      \A x \in EligibleIds(p) :
        x \in l <=>
          Ago(p.counter % Cardinality(EligibleIds(p)), Cardinality(EligibleIds(p)), Rank(p, x)) < k

\* What makes a rotation of round robin, before and after removals.
Rotates ==
  /\ lap \subseteq EligibleIds(pool)
  /\ strategy = "round_robin" => InTurn(pool, lap)

\* The keys that two pools share are in the same order in both.
SameOrder(p, q) ==
  \A x, y \in IdsAt(p, DOMAIN p.keys) \cap IdsAt(q, DOMAIN q.keys) :
    Before(p, x, y) <=> Before(q, x, y)
-----------------------------------------------------------------------------
(* As many keys as places.                                                  *)
LEMMA IdsCount ==
  ASSUME NEW p, WellFormed(p), Distinct(p), NEW A \in SUBSET (DOMAIN p.keys)
  PROVE  /\ IsFiniteSet(A) /\ IsFiniteSet(IdsAt(p, A))
         /\ Cardinality(IdsAt(p, A)) = Cardinality(A)
         /\ Cardinality(A) \in 0 .. MaxKeys
<1>1. /\ A \subseteq 1 .. MaxKeys
      /\ MaxKeys \in Nat
  BY DomainInPositions, PoolAssumption DEF Positions
<1>2. IsFiniteSet(1 .. MaxKeys) /\ Cardinality(1 .. MaxKeys) = MaxKeys
  BY <1>1, FS_Interval
<1>3. IsFiniteSet(A) /\ Cardinality(A) \in Nat /\ Cardinality(A) <= MaxKeys
  BY <1>1, <1>2, FS_Subset, FS_CardinalityType
<1> DEFINE f == [i \in A |-> p.keys[i].id]
<1>4. f \in Bijection(A, IdsAt(p, A))
  <2>1. f \in [A -> IdsAt(p, A)]
    BY DEF IdsAt
  <2>2. \A i, j \in A : f[i] = f[j] => i = j
    BY DEF Distinct
  <2>3. \A x \in IdsAt(p, A) : \E i \in A : f[i] = x
    BY DEF IdsAt
  <2> HIDE DEF f
  <2>4. QED BY <2>1, <2>2, <2>3 DEF Bijection, Injection, Surjection, IsInjective
<1>5. IsFiniteSet(IdsAt(p, A)) /\ Cardinality(IdsAt(p, A)) = Cardinality(A)
  <2>1. ExistsBijection(A, IdsAt(p, A))
    BY <1>4 DEF ExistsBijection
  <2>2. QED BY <1>3, <2>1, FS_Bijection
<1>6. QED BY <1>1, <1>3, <1>5

(* A key's rank is the number of eligible places before its own.            *)
LEMMA RankOfPlace ==
  ASSUME NEW p, WellFormed(p), Distinct(p), NEW i \in Eligible(p)
  PROVE  Rank(p, p.keys[i].id) = Cardinality({j \in Eligible(p) : j < i})
<1> DEFINE A == {j \in Eligible(p) : j < i}
<1>1. Eligible(p) \subseteq DOMAIN p.keys
  BY DEF Eligible
<1>2. {y \in EligibleIds(p) : Before(p, y, p.keys[i].id)} = IdsAt(p, A)
  <2>1. ASSUME NEW y \in EligibleIds(p), Before(p, y, p.keys[i].id) PROVE y \in IdsAt(p, A)
    <3>1. PICK j \in Eligible(p) : y = p.keys[j].id
      BY DEF EligibleIds, IdsAt
    <3>2. PICK a, b \in DOMAIN p.keys : a < b /\ p.keys[a].id = y /\ p.keys[b].id = p.keys[i].id
      BY <2>1 DEF Before
    <3>3. a = j /\ b = i
      BY <1>1, <3>1, <3>2 DEF Distinct
    <3>4. QED BY <3>1, <3>2, <3>3 DEF IdsAt
  <2>2. ASSUME NEW y \in IdsAt(p, A) PROVE y \in EligibleIds(p) /\ Before(p, y, p.keys[i].id)
    <3>1. PICK j \in A : y = p.keys[j].id
      BY DEF IdsAt
    <3>2. QED BY <1>1, <3>1 DEF EligibleIds, IdsAt, Before
  <2>3. QED BY <2>1, <2>2
<1>3. A \in SUBSET DOMAIN p.keys
  BY <1>1
<1> HIDE DEF A
<1>4. QED BY <1>2, <1>3, IdsCount DEF Rank, A

(* The ranks of m eligible keys are different and below m.                  *)
LEMMA Ranks ==
  ASSUME NEW p, WellFormed(p), Distinct(p)
  PROVE  /\ Cardinality(EligibleIds(p)) = Cardinality(Eligible(p))
         /\ EligibleIds(p) # {} => Cardinality(EligibleIds(p)) \in 1 .. MaxKeys
         /\ \A x \in EligibleIds(p) : Rank(p, x) \in 0 .. Cardinality(EligibleIds(p)) - 1
         /\ \A x, y \in EligibleIds(p) : Rank(p, x) = Rank(p, y) => x = y
<1> DEFINE E == Eligible(p)
           A(i) == {j \in E : j < i}
<1>1. E \in SUBSET DOMAIN p.keys /\ EligibleIds(p) = IdsAt(p, E)
  BY DEF Eligible, EligibleIds
<1>2. E \subseteq Nat
  BY <1>1, DomainInPositions DEF Positions
<1> HIDE DEF E
<1>3. IsFiniteSet(E) /\ Cardinality(EligibleIds(p)) = Cardinality(E)
        /\ Cardinality(E) \in 0 .. MaxKeys
  BY <1>1, IdsCount
<1>4. ASSUME NEW i \in E
      PROVE  /\ IsFiniteSet(A(i))
             /\ Cardinality(A(i)) \in Nat
             /\ \A B \in SUBSET E : A(i) \cup {i} \subseteq B
                                      => Cardinality(A(i)) < Cardinality(B)
  <2>1. A(i) \in SUBSET E /\ i \notin A(i)
    BY <1>2
  <2> HIDE DEF A
  <2>2. IsFiniteSet(A(i)) /\ Cardinality(A(i)) \in Nat
    BY <1>3, <2>1, FS_Subset, FS_CardinalityType
  <2>3. IsFiniteSet(A(i) \cup {i}) /\ Cardinality(A(i) \cup {i}) = Cardinality(A(i)) + 1
    BY <2>1, <2>2, FS_AddElement
  <2>4. ASSUME NEW B \in SUBSET E, A(i) \cup {i} \subseteq B
        PROVE  Cardinality(A(i)) < Cardinality(B)
    <3>1. IsFiniteSet(B) /\ Cardinality(B) \in Nat
      BY <1>3, FS_Subset, FS_CardinalityType
    <3>2. Cardinality(A(i) \cup {i}) <= Cardinality(B)
      BY <2>4, <3>1, FS_Subset
    <3>3. QED BY <2>2, <2>3, <3>1, <3>2
  <2>5. QED BY <2>2, <2>4
<1>5. ASSUME NEW x \in EligibleIds(p)
      PROVE  \E i \in E : x = p.keys[i].id /\ Rank(p, x) = Cardinality(A(i))
  <2>1. PICK i \in E : x = p.keys[i].id
    BY <1>1 DEF IdsAt
  <2>2. Rank(p, p.keys[i].id) = Cardinality(A(i))
    BY RankOfPlace DEF E
  <2>3. QED BY <2>1, <2>2
<1>6. ASSUME NEW x \in EligibleIds(p) PROVE Rank(p, x) \in 0 .. Cardinality(E) - 1
  <2>1. PICK i \in E : Rank(p, x) = Cardinality(A(i))
    BY <1>5
  <2>2. A(i) \cup {i} \subseteq E
    OBVIOUS
  <2>3. Cardinality(A(i)) \in Nat /\ Cardinality(A(i)) < Cardinality(E)
    BY <1>4, <2>2
  <2>4. QED BY <1>3, <2>1, <2>3
<1>7. ASSUME NEW i \in E, NEW j \in E, i < j PROVE Cardinality(A(i)) < Cardinality(A(j))
  <2>1. \A k \in E : k < i => k < j
    BY <1>2, <1>7
  <2>2. A(i) \cup {i} \subseteq A(j) /\ A(j) \in SUBSET E
    BY <1>7, <2>1
  <2>3. QED BY <1>4, <2>2
<1>8. ASSUME NEW x \in EligibleIds(p), NEW y \in EligibleIds(p), Rank(p, x) = Rank(p, y)
      PROVE  x = y
  <2>1. PICK i \in E : x = p.keys[i].id /\ Rank(p, x) = Cardinality(A(i))
    BY <1>5
  <2>2. PICK j \in E : y = p.keys[j].id /\ Rank(p, y) = Cardinality(A(j))
    BY <1>5
  <2>3. Cardinality(A(i)) \in Nat /\ Cardinality(A(j)) \in Nat
    BY <1>4
  <2>4. ~ (i < j) /\ ~ (j < i)
    <3> HIDE DEF A
    <3>1. QED BY <1>7, <1>8, <2>1, <2>2, <2>3
  <2>5. i = j
    BY <1>2, <2>4
  <2>6. QED BY <2>1, <2>2, <2>5
<1>9. EligibleIds(p) # {} => Cardinality(EligibleIds(p)) \in 1 .. MaxKeys
  <2>1. EligibleIds(p) # {} => E # {}
    BY <1>1 DEF IdsAt
  <2>2. E # {} => Cardinality(E) # 0
    BY <1>3, FS_EmptySet
  <2>3. QED BY <1>3, <2>1, <2>2, PoolAssumption
<1>10. QED BY <1>3, <1>6, <1>8, <1>9 DEF E

(* Pools with the same keys in the same order rank them alike.              *)
LEMMA RankSame ==
  ASSUME NEW p, NEW q, EligibleIds(p) = EligibleIds(q), SameOrder(p, q)
  PROVE  \A x \in EligibleIds(p) : Rank(q, x) = Rank(p, x)
<1> SUFFICES ASSUME NEW x \in EligibleIds(p) PROVE Rank(q, x) = Rank(p, x)
  OBVIOUS
<1>1. EligibleIds(p) \subseteq IdsAt(p, DOMAIN p.keys) \cap IdsAt(q, DOMAIN q.keys)
  <2>1. EligibleIds(p) \subseteq IdsAt(p, DOMAIN p.keys)
          /\ EligibleIds(q) \subseteq IdsAt(q, DOMAIN q.keys)
    BY DEF EligibleIds, IdsAt, Eligible
  <2>2. QED BY <2>1
<1>2. \A y \in EligibleIds(p) : Before(p, y, x) <=> Before(q, y, x)
  BY <1>1 DEF SameOrder
<1>3. {y \in EligibleIds(p) : Before(p, y, x)} = {y \in EligibleIds(q) : Before(q, y, x)}
  BY <1>2
<1>4. QED BY <1>3 DEF Rank

(* What a request reports, a 429 and time leave the order of the keys; so   *)
(* do an addition and a removal, and no key gets in twice.                  *)
LEMMA OrderOfSameKeys ==
  ASSUME NEW p, NEW q, Distinct(p), SameKeys(p, q)
  PROVE  Distinct(q) /\ SameOrder(p, q)
<1>1. Distinct(q)
  BY DEF Distinct, SameKeys
<1>2. \A x, y : Before(p, x, y) <=> Before(q, x, y)
  BY DEF Before, SameKeys
<1>3. QED BY <1>1, <1>2 DEF SameOrder

LEMMA OrderOfMoreKeys ==
  ASSUME NEW p, WellFormed(p), Distinct(p), NEW k \in KeyIds, Len(p.keys) < MaxKeys,
         \A i \in DOMAIN p.keys : p.keys[i].id # k
  PROVE  Distinct(AddKey(p, k)) /\ SameOrder(p, AddKey(p, k))
<1> DEFINE q == AddKey(p, k)
           n == Len(p.keys) + 1
<1>1. /\ DOMAIN q.keys = DOMAIN p.keys \cup {n}
      /\ \A i \in DOMAIN p.keys : q.keys[i] = p.keys[i]
      /\ q.keys[n].id = k
  <2>1. /\ DOMAIN q.keys = DOMAIN p.keys \cup {n}
        /\ \A i \in DOMAIN p.keys : q.keys[i] = p.keys[i]
        /\ q.keys[n] = NewEntry(k)
    BY AddKeyLast
  <2>2. NewEntry(k).id = k
    BY DEF NewEntry
  <2> HIDE DEF q, n
  <2>3. QED BY <2>1, <2>2
<1> HIDE DEF q, n
<1>2. Distinct(q)
  BY <1>1 DEF Distinct
<1>3. ASSUME NEW x \in IdsAt(p, DOMAIN p.keys), NEW y \in IdsAt(p, DOMAIN p.keys)
      PROVE  Before(p, x, y) <=> Before(q, x, y)
  <2>1. x # k /\ y # k
    BY DEF IdsAt
  <2>2. QED BY <1>1, <2>1 DEF Before
<1>4. QED BY <1>2, <1>3 DEF SameOrder, q

LEMMA OrderOfFewerKeys ==
  ASSUME NEW p, WellFormed(p), Distinct(p), NEW i \in DOMAIN p.keys
  PROVE  Distinct(RemoveKey(p, i)) /\ SameOrder(p, RemoveKey(p, i))
<1> DEFINE q == RemoveKey(p, i)
           n == Len(p.keys)
           at(j) == IF j < i THEN j ELSE j + 1
<1>1. /\ n \in Nat
      /\ DOMAIN p.keys = 1 .. n
      /\ DOMAIN q.keys = 1 .. n - 1
      /\ \A j \in DOMAIN q.keys : q.keys[j].id = p.keys[at(j)].id
  <2>1. DOMAIN q.keys = 1 .. n - 1 /\ \A j \in 1 .. n - 1 : q.keys[j] = p.keys[at(j)]
    BY RemoveKeyMovesUp
  <2>2. p.keys \in Seq(Entry) /\ DOMAIN p.keys = 1 .. n
    BY DomainInPositions
  <2> HIDE DEF q, at
  <2>3. QED BY <2>1, <2>2
<1> HIDE DEF q, n
<1>2. /\ \A j \in DOMAIN q.keys : at(j) \in DOMAIN p.keys
      /\ \A a, b \in DOMAIN q.keys : a < b <=> at(a) < at(b)
      /\ \A a, b \in DOMAIN q.keys : at(a) = at(b) => a = b
  BY <1>1
<1> HIDE DEF at
<1>3. Distinct(q)
  BY RemoveKeyDistinct DEF q
<1>4. ASSUME NEW x \in IdsAt(q, DOMAIN q.keys), NEW y \in IdsAt(q, DOMAIN q.keys)
      PROVE  Before(p, x, y) <=> Before(q, x, y)
  <2>1. PICK a \in DOMAIN q.keys : x = q.keys[a].id
    BY DEF IdsAt
  <2>2. PICK b \in DOMAIN q.keys : y = q.keys[b].id
    BY DEF IdsAt
  <2>3. Before(p, x, y) <=> at(a) < at(b)
    BY <1>1, <1>2, <2>1, <2>2 DEF Before, Distinct
  <2>4. Before(q, x, y) <=> a < b
    BY <1>3, <2>1, <2>2 DEF Before, Distinct
  <2>5. QED BY <1>2, <2>3, <2>4
<1>5. QED BY <1>3, <1>4 DEF SameOrder, q

(* A turn moves everybody one turn back, who has had it comes last.         *)
LEMMA AgoNext ==
  ASSUME NEW m \in Nat \ {0}, NEW q \in 0 .. m - 1, NEW n \in 0 .. m - 1
  PROVE  /\ Ago(q, m, n) \in 0 .. m - 1
         /\ Ago(q, m, q) = m - 1
         /\ Ago(IF q + 1 = m THEN 0 ELSE q + 1, m, n) =
              IF n = q THEN 0 ELSE Ago(q, m, n) + 1
  BY DEF Ago

(* A step that hands out no key keeps the lap in turn.                      *)
LEMMA OthersRotate ==
  ASSUME IInv, IInv', Rotates, SameOrder(pool, pool'),
         pool'.counter = pool.counter, strategy' = strategy, lap' = Lap(pool', {})
  PROVE  Rotates'
<1> DEFINE S == EligibleIds(pool)
           m == Cardinality(S)
<1>1. /\ WellFormed(pool) /\ WellFormed(pool')
      /\ Distinct(pool')
      /\ pool.counter \in Nat
  BY DEF IInv, TypeOK, WellFormed, PoolRecord, Backed
<1>2. lap' \subseteq EligibleIds(pool')
  BY DEF Rotates, Lap
<1>3. ASSUME strategy = "round_robin", EligibleIds(pool') # {}
      PROVE  InTurn(pool', lap')
  <2>1. CASE lap' = {}
    <3> DEFINE T == EligibleIds(pool')
               c == Cardinality(T)
               q == pool'.counter % c
    <3>1. c \in Nat \ {0} /\ \A x \in T : Rank(pool', x) \in 0 .. c - 1
      BY <1>1, <1>3, Ranks, PoolAssumption DEF Rotates
    <3>2. q \in 0 .. c - 1
      BY <1>1, <3>1, Division
    <3> HIDE DEF T, c, q
    <3>3. 0 \in 0 .. c - 1 /\ \A x \in T : x \in lap' <=> Ago(q, c, Rank(pool', x)) < 0
      BY <2>1, <3>1, <3>2 DEF Ago
    <3>4. QED BY <3>3 DEF InTurn, T, c, q
  <2>2. CASE lap' # {}
    <3>1. lap' = lap /\ EligibleIds(pool') = S
      BY <2>2 DEF Lap
    <3>2. \A x \in S : Rank(pool', x) = Rank(pool, x)
      BY <3>1, RankSame
    <3>3. QED BY <1>3, <3>1, <3>2 DEF Rotates, InTurn
  <2>3. QED BY <2>1, <2>2
<1>4. QED BY <1>2, <1>3 DEF Rotates, InTurn

(* The key handed out has not been in the lap, and is the last of it then.  *)
LEMMA TakeRotates ==
  ASSUME IInv, IInv', Rotates, NEW r \in Requests, NEW i \in Positions, Take(r, i)
  PROVE  /\ Rotates'
         /\ strategy = "round_robin" => pool.keys[i].id \notin lap
<1>1. WellFormed(pool) /\ Distinct(pool) /\ lap \subseteq EligibleIds(pool)
  BY DEF IInv, TypeOK, WellFormed, Rotates, Backed
<1> DEFINE k0 == pool.keys[i].id
           S  == EligibleIds(pool)
           m  == Cardinality(S)
           q  == pool.counter % m
           q1 == IF q + 1 = m THEN 0 ELSE q + 1
<1>2. /\ pool' = Picked(pool, strategy)
      /\ lap' = Lap(pool', {k0})
      /\ strategy' = strategy
      /\ i \in Eligible(pool) /\ k0 \in S
  <2>1. i \in Eligible(pool)
    BY DEF Take, NextKeys, RoundRobin, LeastUsed, TypeOK, Strategies, IInv
  <2>2. QED BY <2>1 DEF Take, EligibleIds, IdsAt
<1>3. pool'.keys = pool.keys /\ pool'.backoff = pool.backoff
  BY <1>1, <1>2, PickedSame
<1>4. EligibleIds(pool') = S /\ Distinct(pool') /\ SameOrder(pool, pool')
  BY <1>1, <1>3 DEF EligibleIds, IdsAt, Eligible, Distinct, SameOrder, Before
<1>5. lap' \subseteq EligibleIds(pool')
  BY <1>1, <1>2, <1>4 DEF Lap
<1>6. CASE strategy # "round_robin"
  BY <1>2, <1>4, <1>5, <1>6 DEF Rotates
<1>7. CASE strategy = "round_robin"
  <2>1. /\ m \in 1 .. MaxKeys /\ m \in Nat \ {0}
        /\ \A x \in S : Rank(pool, x) \in 0 .. m - 1
        /\ \A x, y \in S : Rank(pool, x) = Rank(pool, y) => x = y
        /\ m = Cardinality(Eligible(pool))
    BY <1>1, <1>2, Ranks, PoolAssumption
  <2>2. q \in 0 .. m - 1 /\ pool'.counter % m = q1
    BY <1>1, <1>2, <1>7, <2>1, PickedTurn
  <2>3. Rank(pool, k0) = q
    <3>1. i \in RoundRobin(pool)
      BY <1>7 DEF Take, NextKeys
    <3>2. Rank(pool, k0) = Cardinality({j \in Eligible(pool) : j < i})
      BY <1>1, <1>2, RankOfPlace
    <3>3. QED BY <2>1, <3>1, <3>2 DEF RoundRobin
  <2>4. \A x \in S : Rank(pool', x) = Rank(pool, x)
    BY <1>4, RankSame
  <2>5. PICK k \in 0 .. m - 1 :
          \A x \in S : x \in lap <=> Ago(q, m, Rank(pool, x)) < k
    BY <1>2, <1>7 DEF Rotates, InTurn
  <2> HIDE DEF k0, S, m, q, q1
  <2>6. /\ Ago(q, m, q) = m - 1
        /\ \A x \in S :
             /\ Ago(q, m, Rank(pool, x)) \in 0 .. m - 1
             /\ Ago(q1, m, Rank(pool, x)) \in 0 .. m - 1
             /\ Ago(q1, m, Rank(pool, x)) =
                  IF Rank(pool, x) = q THEN 0 ELSE Ago(q, m, Rank(pool, x)) + 1
    <3>1. \A n \in 0 .. m - 1 :
            /\ Ago(q, m, n) \in 0 .. m - 1
            /\ Ago(q, m, q) = m - 1
            /\ Ago(q1, m, n) = IF n = q THEN 0 ELSE Ago(q, m, n) + 1
      <4>1. q1 = IF q + 1 = m THEN 0 ELSE q + 1
        BY DEF q1
      <4>2. ASSUME NEW n \in 0 .. m - 1
            PROVE  /\ Ago(q, m, n) \in 0 .. m - 1
                   /\ Ago(q, m, q) = m - 1
                   /\ Ago(q1, m, n) = IF n = q THEN 0 ELSE Ago(q, m, n) + 1
        <5>1. m \in Nat \ {0} /\ q \in 0 .. m - 1
          BY <2>1, <2>2
        <5>2. QED BY <4>1, <5>1, AgoNext
      <4>3. QED BY <4>2
    <3>2. q1 \in 0 .. m - 1
      BY <2>1, <2>2 DEF q1
    <3>3. \A n \in 0 .. m - 1 : Ago(q1, m, n) \in 0 .. m - 1
      BY <2>1, <3>2, AgoNext, Zenon
    <3>4. QED BY <2>1, <2>2, <3>1, <3>3
  <2>7. k0 \notin lap
    BY <1>2, <2>1, <2>3, <2>5, <2>6
  <2>8. \A x \in S : x \in lap \cup {k0} <=> Ago(q1, m, Rank(pool, x)) < k + 1
    <3> SUFFICES ASSUME NEW x \in S
                 PROVE  x \in lap \cup {k0} <=> Ago(q1, m, Rank(pool, x)) < k + 1
      OBVIOUS
    <3>1. CASE x = k0
      BY <2>3, <2>6, <3>1
    <3>2. CASE x # k0
      <4>1. Rank(pool, x) # q
        BY <1>2, <2>1, <2>3, <3>2
      <4>2. Ago(q1, m, Rank(pool, x)) = Ago(q, m, Rank(pool, x)) + 1
              /\ Ago(q, m, Rank(pool, x)) \in 0 .. m - 1
        BY <2>6, <4>1
      <4>3. QED BY <2>1, <2>5, <3>2, <4>2
    <3>3. QED BY <3>1, <3>2
  <2>9. \E n \in 0 .. m - 1 : \A x \in S : x \in lap' <=> Ago(q1, m, Rank(pool, x)) < n
    <3>1. CASE lap \cup {k0} = S
      <4>1. lap' = {}
        BY <1>2, <1>4, <3>1 DEF Lap
      <4>2. 0 \in 0 .. m - 1 /\ \A x \in S : ~ (Ago(q1, m, Rank(pool, x)) < 0)
        BY <2>1, <2>6
      <4>3. QED BY <4>1, <4>2
    <3>2. CASE lap \cup {k0} # S
      <4>1. lap' = lap \cup {k0}
        BY <1>2, <1>4, <1>7, <3>2 DEF Lap, S
      <4>2. PICK x \in S : x \notin lap \cup {k0}
        BY <1>1, <1>2, <3>2 DEF S
      <4>3. ~ (Ago(q1, m, Rank(pool, x)) < k + 1) /\ Rank(pool, x) # q
        BY <1>2, <2>1, <2>3, <2>8, <4>2
      <4>4. k + 1 \in 0 .. m - 1
        BY <2>1, <2>6, <4>3
      <4>5. QED BY <2>8, <4>1, <4>4
    <3>3. QED BY <3>1, <3>2
  <2>10. InTurn(pool', lap')
    BY <1>4, <2>2, <2>4, <2>9 DEF InTurn, S, m
  <2>11. QED BY <1>2, <1>4, <1>5, <2>7, <2>10 DEF Rotates, k0
<1>8. QED BY <1>6, <1>7

(* Every step keeps round robin a rotation, and hands out only keys that    *)
(* have not been in the lap.                                                *)
LEMMA InitRotates == Init /\ IInv => Rotates
<1> SUFFICES ASSUME Init, IInv PROVE Rotates
  OBVIOUS
<1>1. lap = {} /\ WellFormed(pool) /\ pool.counter \in Nat
  BY DEF Init, IInv, TypeOK, WellFormed, PoolRecord
<1>2. Distinct(pool)
  BY DEF IInv, Backed
<1>3. ASSUME EligibleIds(pool) # {} PROVE InTurn(pool, lap)
  <2> DEFINE T == EligibleIds(pool)
             c == Cardinality(T)
             q == pool.counter % c
  <2>1. c \in Nat \ {0} /\ \A x \in T : Rank(pool, x) \in 0 .. c - 1
    BY <1>1, <1>2, <1>3, Ranks, PoolAssumption
  <2>2. q \in 0 .. c - 1
    BY <1>1, <2>1, Division
  <2> HIDE DEF T, c, q
  <2>3. 0 \in 0 .. c - 1 /\ \A x \in T : x \in lap <=> Ago(q, c, Rank(pool, x)) < 0
    BY <1>1, <2>1, <2>2 DEF Ago
  <2>4. QED BY <2>3 DEF InTurn, T, c, q
<1>4. QED BY <1>1, <1>2, <1>3 DEF Rotates, InTurn

LEMMA NextRotates ==
  ASSUME IInv, IInv', Rotates, [Next]_vars
  PROVE  Rotates'
<1>1. WellFormed(pool) /\ Distinct(pool)
  BY DEF IInv, TypeOK, WellFormed, Backed
<1>2. ASSUME NEW r \in Requests, NEW i \in Positions, Take(r, i) PROVE Rotates'
  BY <1>2, TakeRotates
<1>3. ASSUME NEW r \in Requests, Succeed(r) PROVE Rotates'
  <2>1. SameKeys(pool, pool') /\ pool'.counter = pool.counter
    BY <1>1, <1>3, MarkSuccessSame, CounterSame DEF Succeed
  <2>2. QED BY <1>1, <1>3, <2>1, OrderOfSameKeys, OthersRotate DEF Succeed
<1>4. ASSUME NEW r \in Requests, Fail(r) PROVE Rotates'
  <2>1. SameKeys(pool, pool') /\ pool'.counter = pool.counter
    BY <1>1, <1>4, MarkErrorSame, CounterSame DEF Fail
  <2>2. QED BY <1>1, <1>4, <2>1, OrderOfSameKeys, OthersRotate DEF Fail
<1>5. ASSUME NEW r \in Requests, HitLimit(r) PROVE Rotates'
  <2>1. flight[r].pos \in Positions
    BY <1>5 DEF HitLimit, IInv, TypeOK, Holding
  <2>2. pool'.keys = pool.keys /\ pool'.counter = pool.counter
    BY <1>1, <1>5, <2>1, MarkRateLimitedSame, CounterSame DEF HitLimit
  <2>3. SameKeys(pool, pool')
    BY <2>2 DEF SameKeys
  <2>4. QED BY <1>1, <1>5, <2>2, <2>3, OrderOfSameKeys, OthersRotate DEF HitLimit
<1>6. ASSUME NEW k \in KeyIds, AdminAdds(k) PROVE Rotates'
  <2>1. Distinct(pool') /\ SameOrder(pool, pool') /\ pool'.counter = pool.counter
    BY <1>1, <1>6, OrderOfMoreKeys, CounterSame DEF AdminAdds
  <2>2. QED BY <1>6, <2>1, OthersRotate DEF AdminAdds
<1>7. ASSUME NEW i \in Positions, AdminRemoves(i) PROVE Rotates'
  <2>1. Distinct(pool') /\ SameOrder(pool, pool') /\ pool'.counter = pool.counter
    BY <1>1, <1>7, OrderOfFewerKeys, CounterSame DEF AdminRemoves
  <2>2. QED BY <1>7, <2>1, OthersRotate DEF AdminRemoves
<1>8. CASE Tick
  <2>1. pool'.keys = pool.keys /\ pool'.counter = pool.counter
    BY <1>1, <1>8, RestedSame, CounterSame DEF Tick
  <2>2. SameKeys(pool, pool')
    BY <2>1 DEF SameKeys
  <2>3. QED BY <1>1, <1>8, <2>1, <2>2, OrderOfSameKeys, OthersRotate DEF Tick
<1>9. CASE UNCHANGED vars
  BY <1>9 DEF vars, Rotates
<1>10. QED
  BY <1>2, <1>3, <1>4, <1>5, <1>6, <1>7, <1>8, <1>9 DEF Next

(* Only get_next_key gives a request a key.                                 *)
LEMMA OnlyTakes ==
  ASSUME IInv, [Next]_vars, NEW r \in Requests, flight[r] = Idle, flight'[r] # Idle
  PROVE  \E i \in Positions : Take(r, i) /\ flight'[r].id = pool.keys[i].id
<1>1. flight \in [Requests -> Holding \cup {Idle}]
  BY DEF IInv, TypeOK
<1>2. ASSUME NEW q \in Requests, flight' = [flight EXCEPT ![q] = Idle] PROVE FALSE
  BY <1>1, <1>2
<1>3. ASSUME NEW q \in Requests, NEW i \in Positions, Take(q, i)
      PROVE  Take(r, i) /\ flight'[r].id = pool.keys[i].id
  BY <1>1, <1>3 DEF Take
<1>4. ~ UNCHANGED vars
  BY DEF vars
<1>5. QED
  BY <1>2, <1>3, <1>4
  DEF Next, Succeed, Fail, HitLimit, AdminAdds, AdminRemoves, Tick

(* For any number of keys and of requests, with additions, removals, errors *)
(* and rests at any time, no key has a second turn before every other key   *)
(* has had one, as long as the same keys are eligible (key_pool.py:74-77).  *)
THEOREM RoundRobinTakesTurnsHolds == Spec => RoundRobinTakesTurns
<1>1. ASSUME IInv, IInv', Rotates, [Next]_vars, strategy = "round_robin",
             NEW r \in Requests, flight[r] = Idle, flight'[r] # Idle
      PROVE  flight'[r].id \notin lap
  BY <1>1, OnlyTakes, TakeRotates
<1>2. IInv /\ IInv' /\ Rotates /\ [Next]_vars
        => [strategy = "round_robin" =>
              \A r \in Requests :
                flight[r] = Idle /\ flight'[r] # Idle => flight'[r].id \notin lap]_vars
  BY <1>1
<1>3. Init /\ IInv => Rotates
  BY InitRotates
<1>4. IInv /\ IInv' /\ Rotates /\ [Next]_vars => Rotates'
  BY NextRotates
<1>5. QED BY <1>2, <1>3, <1>4, Invariance, PTL DEF Spec, RoundRobinTakesTurns
--------------------------------------------------------------------------------
(* The stored keys.                                                          *)

\* The table: ids are not used again, and at most one change of secret is behind.
RowsSound ==
    /\ Stored \subseteq spent
    /\ removed \cap Stored = {}
    /\ \A i \in Stored : rows[i].by = NoSecret \/ rows[i].by = secret \/ i \in Stale
    /\ settled => Stale = {}

\* A worker: its entries are of its own startup or its own additions, and its
\* re-encryption has found what there is to do.
WorkerSound(w) ==
    /\ garbled[w] = {}
    /\ pc[w] \in {"down", "count", "seed", "load"} => \A i \in Ids : copies[w][i] = 0
    /\ pc[w] = "load again" => \A i \in Ids : copies[w][i] \in {0, 1}
    /\ \A i \in Ids : copies[w][i] # 0 => i \in spent
    /\ pc[w] = "serving" => settled
    /\ pc[w] \in {"re-encrypt", "serving"} \/ task[w] = Nothing
    /\ task[w].does = "re-encrypt" => Stale \subseteq task[w].ids
    /\ task[w].does = "add" => \E i \in spent : task[w].ids = {i} /\ copies[w][i] = 0
    /\ task[w].does = "remove" => task[w].ids \subseteq spent

TableSound == TableTypeOK /\ RowsSound /\ \A w \in Workers : WorkerSound(w)

--------------------------------------------------------------------------------
(* An empty table and stopped workers.                                       *)
LEMMA InitTable == TableInit => TableSound
<1> SUFFICES ASSUME TableInit PROVE TableSound
  OBVIOUS
<1>1. Stored = {} /\ Stale = {}
  BY DEF TableInit, Stored, Stale
<1>2. TableTypeOK
  <2>1. secret \in 0 .. LastSecret
    BY KeyStoreAssumption DEF TableInit, NoSecret
  <2>2. /\ copies \in [Workers -> [Ids -> 0 .. 2]]
        /\ task \in [Workers -> [does : {"nothing", "re-encrypt", "add", "remove"},
                                 ids : SUBSET Ids]]
    BY DEF TableInit, None, Nothing
  <2>3. QED BY <2>1, <2>2 DEF TableInit, TableTypeOK, Lifespan
<1>3. RowsSound
  BY <1>1 DEF TableInit, RowsSound
<1>4. ASSUME NEW w \in Workers PROVE WorkerSound(w)
  BY <1>1 DEF TableInit, WorkerSound, None, Nothing
<1>5. QED BY <1>2, <1>3, <1>4 DEF TableSound

(* A worker at rest is in the middle of nothing.                              *)
LEMMA NothingDoes == Nothing.does = "nothing" /\ Nothing.ids = {}
  BY DEF Nothing

(* A worker is sound after a step that touches neither it nor the secret,    *)
(* and leaves no row stale that was not.                                     *)
LEMMA Untouched ==
  ASSUME NEW w \in Workers, WorkerSound(w),
         pc'[w] = pc[w], copies'[w] = copies[w], garbled'[w] = garbled[w], task'[w] = task[w],
         spent \subseteq spent', settled => settled', Stale' \subseteq Stale
  PROVE  WorkerSound(w)'
  BY DEF WorkerSound, Nothing

(* Where the table stays as it is, so does what is said of it.               *)
LEMMA SameRows ==
  ASSUME UNCHANGED <<rows, spent, secret, settled, removed>>
  PROVE  Stored' = Stored /\ Stale' = Stale /\ (RowsSound => RowsSound')
  BY DEF Stored, Stale, RowsSound

(* No row of a sound table is unreadable: _decrypt_key tries the secrets of  *)
(* which there is one (key_pool.py:407).                                     *)
LEMMA AllOpen ==
  ASSUME TableTypeOK, RowsSound, NEW i \in Stored
  PROVE  Opens(rows[i])
<1>1. CASE i \in Stale
  <2>1. rows[i].by # NoSecret /\ rows[i].by = secret - 1 /\ rows[i].by \in Nat /\ secret \in Nat
    BY <1>1, KeyStoreAssumption DEF Stale, TableTypeOK, Row, Stored
  <2>2. QED BY <2>1 DEF Opens, NoSecret
<1>2. CASE i \notin Stale
  BY <1>2 DEF RowsSound, Opens
<1>3. QED BY <1>1, <1>2

--------------------------------------------------------------------------------
(* Startup (main.py:98, key_pool.py:186, 229).                               *)
LEMMA StartupKeeps ==
  ASSUME TableSound, NEW w \in Workers, Startup(w)
  PROVE  TableSound'
<1> USE DEF At, Goes
<1>1. TableTypeOK /\ RowsSound /\ \A v \in Workers : WorkerSound(v)
  BY DEF TableSound
<1>2. ASSUME NEW l \in Lifespan, pc' = [pc EXCEPT ![w] = l], task[w] = Nothing,
             UNCHANGED <<rows, spent, secret, copies, garbled, task, settled, seeds, removed>>,
             l \in {"count", "seed", "load"}, pc[w] \in {"down", "count"}
      PROVE  TableSound'
  <2>1. TableTypeOK'
    BY <1>1, <1>2 DEF TableTypeOK
  <2>2. RowsSound' /\ Stale' = Stale
    BY <1>1, <1>2, SameRows
  <2>3. ASSUME NEW v \in Workers PROVE WorkerSound(v)'
    <3>1. CASE v # w
      BY <1>1, <1>2, <2>2, <3>1, Untouched DEF TableTypeOK
    <3>2. CASE v = w
      BY <1>1, <1>2, <2>2, <3>2 DEF TableTypeOK, WorkerSound, Nothing
    <3>3. QED BY <3>1, <3>2
  <2>4. QED BY <2>1, <2>2, <2>3 DEF TableSound
<1>3. task[w] = Nothing
  BY <1>1 DEF Startup, Start, CountRows, Seed, Load, WorkerSound
<1>4. CASE Start(w)
  BY <1>2, <1>3, <1>4 DEF Start, Lifespan
<1>5. CASE CountRows(w)
  BY <1>2, <1>3, <1>5 DEF CountRows, Lifespan
<1>6. CASE Seed(w)
  <2>1. PICK new \in [EnvKeys -> Ids \ spent] :
          /\ rows' = [i \in Ids |-> IF \E k \in EnvKeys : new[k] = i
                                    THEN [key |-> CHOOSE k \in EnvKeys : new[k] = i,
                                          by |-> secret]
                                    ELSE rows[i]]
          /\ spent' = spent \cup {new[k] : k \in EnvKeys}
          /\ seeds' = seeds \cup {new[k] : k \in EnvKeys}
    BY <1>6 DEF Seed
  <2>2. /\ pc[w] = "seed" /\ pc' = [pc EXCEPT ![w] = "load"]
        /\ UNCHANGED <<secret, copies, garbled, task, settled, removed>>
    BY <1>6 DEF Seed
  <2>3. {new[k] : k \in EnvKeys} \subseteq Ids
    BY <2>1
  <2>4. rows' \in [Ids -> Row \cup {NoRow}]
    BY <1>1, <2>1, KeyStoreAssumption DEF TableTypeOK, Row
  <2>5. TableTypeOK'
    BY <1>1, <2>1, <2>2, <2>3, <2>4 DEF TableTypeOK, Lifespan
  <2>6. ASSUME NEW i \in Stored'
        PROVE  \/ i \in Ids \ spent /\ i \in spent' /\ rows'[i].by = secret
               \/ i \in Stored /\ rows'[i] = rows[i]
    BY <1>1, <2>1, <2>6 DEF Stored
  <2>7. Stale' \subseteq Stale
    BY <1>1, <2>2, <2>6 DEF Stale, TableTypeOK
  <2>8. \A i \in Stale : i \in Stored' => i \in Stale'
    BY <1>1, <2>2, <2>6 DEF Stale, RowsSound
  <2>9. RowsSound'
    BY <1>1, <2>1, <2>2, <2>6, <2>7, <2>8 DEF RowsSound, TableTypeOK
  <2>10. ASSUME NEW v \in Workers PROVE WorkerSound(v)'
    <3>1. CASE v # w
      BY <1>1, <2>1, <2>2, <2>7, <3>1, Untouched DEF TableTypeOK
    <3>2. CASE v = w
      <4>1. pc'[w] = "load" /\ spent \subseteq spent'
        BY <1>1, <2>1, <2>2 DEF TableTypeOK
      <4>2. /\ WorkerSound(w) /\ pc[w] = "seed"
            /\ garbled' = garbled /\ task' = task /\ copies' = copies
        BY <1>1, <2>2
      <4>3. QED BY <1>3, <3>2, <4>1, <4>2 DEF WorkerSound, Nothing
    <3>3. QED BY <3>1, <3>2
  <2>11. QED BY <2>5, <2>9, <2>10 DEF TableSound
<1>7. CASE Load(w)
  <2>1. /\ pc[w] \in {"load", "load again"}
        /\ copies' = [copies EXCEPT ![w] = [i \in Ids |-> IF i \in Stored THEN @[i] + 1
                                                          ELSE @[i]]]
        /\ pc' = [pc EXCEPT ![w] = IF pc[w] = "load" THEN "load again" ELSE "re-encrypt"]
        /\ UNCHANGED <<rows, spent, secret, task, settled, seeds, removed>>
    BY <1>7 DEF Load
  <2>2. garbled' = garbled
    <3>1. {i \in Stored : ~Opens(rows[i])} = {}
      BY <1>1, AllOpen
    <3>2. QED BY <1>1, <1>7, <3>1 DEF Load, TableTypeOK
  <2>3. RowsSound' /\ Stale' = Stale
    BY <1>1, <2>1, SameRows
  <2>4. \A i \in Ids : /\ copies[w][i] \in {0, 1}
                       /\ pc[w] = "load" => copies[w][i] = 0
    <3>1. WorkerSound(w) /\ pc[w] \in {"load", "load again"}
      BY <1>1, <2>1
    <3>2. QED BY <3>1 DEF WorkerSound
  <2>5. [i \in Ids |-> IF i \in Stored THEN copies[w][i] + 1 ELSE copies[w][i]]
           \in [Ids -> 0 .. 2]
    BY <2>4
  <2>6. TableTypeOK'
    BY <1>1, <2>1, <2>2, <2>5 DEF TableTypeOK, Lifespan
  <2>7. ASSUME NEW v \in Workers PROVE WorkerSound(v)'
    <3>1. CASE v # w
      BY <1>1, <2>1, <2>2, <2>3, <3>1, Untouched DEF TableTypeOK
    <3>2. CASE v = w
      <4>1. \A i \in Ids : copies'[w][i] = IF i \in Stored THEN copies[w][i] + 1 ELSE copies[w][i]
        BY <1>1, <2>1 DEF TableTypeOK
      <4>2. pc'[w] = IF pc[w] = "load" THEN "load again" ELSE "re-encrypt"
        BY <1>1, <2>1 DEF TableTypeOK
      <4>3. Stored \subseteq spent
        BY <1>1 DEF RowsSound
      <4>4. /\ WorkerSound(w) /\ pc[w] \in {"load", "load again"}
            /\ garbled' = garbled /\ task' = task /\ spent' = spent
        BY <1>1, <2>1, <2>2
      <4>5. \A i \in Ids : copies'[w][i] # 0 => i \in spent
        BY <4>1, <4>3, <4>4 DEF WorkerSound
      <4>6. pc'[w] = "load again" => \A i \in Ids : copies'[w][i] \in {0, 1}
        <5>1. pc'[w] = "load again" => pc[w] = "load"
          BY <4>2
        <5>2. ASSUME NEW i \in Ids, copies[w][i] = 0 PROVE copies'[w][i] \in {0, 1}
          BY <4>1, <5>2
        <5>3. QED BY <2>4, <5>1, <5>2
      <4>7. pc'[w] \in {"load again", "re-encrypt"}
        BY <4>2
      <4>8. garbled'[w] = {} /\ task'[w] = Nothing
        BY <1>3, <4>4 DEF WorkerSound
      <4>9. task'[w].does = "nothing" /\ spent' = spent
        BY <4>4, <4>8, NothingDoes
      <4>10. WorkerSound(w)'
        BY <4>5, <4>6, <4>7, <4>8, <4>9 DEF WorkerSound
      <4>11. QED BY <3>2, <4>10
    <3>3. QED BY <3>1, <3>2
  <2>8. QED BY <2>3, <2>6, <2>7 DEF TableSound
<1>8. QED BY <1>4, <1>5, <1>6, <1>7 DEF Startup

--------------------------------------------------------------------------------
(* What every step that writes rows does to them: a row of it is new, under  *)
(* the present secret, or was there and keeps its secret or gets the present *)
(* one (key_pool.py:252, 276, 355).                                          *)
Written(i) ==
    \/ i \in Ids \ spent /\ i \in spent' /\ rows'[i].by = secret
    \/ i \in Stored /\ rows'[i].by \in {rows[i].by, secret}

LEMMA RowsKeep ==
  ASSUME TableTypeOK, RowsSound, \A i \in Stored' : Written(i),
         spent \subseteq spent', secret' = secret, settled' = settled,
         removed' \subseteq spent, removed' \cap Stored' = {}
  PROVE  RowsSound' /\ Stale' \subseteq Stale
<1>1. secret \in Int /\ secret # secret - 1
  BY KeyStoreAssumption DEF TableTypeOK
<1>2. Stale' \subseteq Stale
  BY <1>1 DEF Stale, Written
<1>3. Stored' \subseteq spent'
  BY DEF Written, RowsSound
<1>4. ASSUME NEW i \in Stored'
      PROVE  rows'[i].by = NoSecret \/ rows'[i].by = secret \/ i \in Stale'
  BY <1>4 DEF Written, RowsSound, Stale
<1>5. QED BY <1>2, <1>3, <1>4 DEF RowsSound

(* re_encrypt_stale_keys (key_pool.py:320).                                  *)
LEMMA RotationKeeps ==
  ASSUME TableSound, NEW w \in Workers, Rotation(w)
  PROVE  TableSound'
<1> USE DEF At, Goes
<1>1. TableTypeOK /\ RowsSound /\ \A v \in Workers : WorkerSound(v)
  BY DEF TableSound
<1>2. CASE FindStale(w)
  <2>1. /\ pc[w] \in {"re-encrypt", "serving"}
        /\ task' = [task EXCEPT ![w] = [does |-> "re-encrypt", ids |-> Stale]]
        /\ UNCHANGED <<rows, spent, secret, pc, copies, garbled, settled, seeds, removed>>
    BY <1>2 DEF FindStale, Does
  <2>2. RowsSound' /\ Stale' = Stale
    BY <1>1, <2>1, SameRows
  <2>3. TableTypeOK'
    BY <1>1, <2>1 DEF TableTypeOK, Stale, Stored
  <2>4. ASSUME NEW v \in Workers PROVE WorkerSound(v)'
    <3>1. CASE v # w
      BY <1>1, <2>1, <2>2, <3>1, Untouched DEF TableTypeOK
    <3>2. CASE v = w
      <4>1. task'[w] = [does |-> "re-encrypt", ids |-> Stale]
        BY <1>1, <2>1 DEF TableTypeOK
      <4>2. task'[w].does = "re-encrypt" /\ task'[w].ids = Stale
        BY <4>1
      <4>3. WorkerSound(w)
        BY <1>1
      <4>4. WorkerSound(w)'
        BY <2>1, <2>2, <4>2, <4>3 DEF WorkerSound
      <4>5. QED BY <3>2, <4>4
    <3>3. QED BY <3>1, <3>2
  <2>5. QED BY <2>2, <2>3, <2>4 DEF TableSound
<1>3. CASE Recrypt(w)
  <2>1. /\ task[w].does = "re-encrypt" /\ task[w].ids \subseteq Stored
        /\ rows' = [i \in Ids |-> IF i \in task[w].ids THEN [rows[i] EXCEPT !.by = secret]
                                  ELSE rows[i]]
        /\ task' = [task EXCEPT ![w] = Nothing]
        /\ pc' = [pc EXCEPT ![w] = "serving"]
        /\ settled' = TRUE
        /\ UNCHANGED <<spent, secret, copies, garbled, seeds, removed>>
    BY <1>3 DEF Recrypt, Rests
  <2>2. \A i \in Stored : rows[i] \in Row
    BY <1>1 DEF TableTypeOK, Stored
  <2>3. rows' \in [Ids -> Row \cup {NoRow}]
    BY <1>1, <2>1, <2>2, KeyStoreAssumption DEF TableTypeOK, Row, Stored
  <2>4. TableTypeOK'
    BY <1>1, <2>1, <2>3 DEF TableTypeOK, Lifespan, Nothing
  <2>5. ASSUME NEW i \in Stored'
        PROVE  /\ i \in Stored
               /\ i \in task[w].ids => rows'[i].by = secret
               /\ i \notin task[w].ids => rows'[i] = rows[i]
    BY <2>1, <2>2, <2>5 DEF Stored, Row
  <2>6. WorkerSound(w) /\ Stale \subseteq task[w].ids
    BY <1>1, <2>1 DEF WorkerSound
  <2>7. secret \in Int /\ secret # secret - 1
    BY <1>1, KeyStoreAssumption DEF TableTypeOK
  <2>8. Stale' = {}
    BY <2>1, <2>5, <2>6, <2>7 DEF Stale
  <2>9. \A i \in Stored' : rows'[i].by = NoSecret \/ rows'[i].by = secret
    BY <1>1, <2>5, <2>6 DEF RowsSound
  <2>10. RowsSound'
    BY <1>1, <2>1, <2>5, <2>8, <2>9 DEF RowsSound
  <2>11. ASSUME NEW v \in Workers PROVE WorkerSound(v)'
    <3>1. CASE v # w
      BY <1>1, <2>1, <2>8, <3>1, Untouched DEF TableTypeOK
    <3>2. CASE v = w
      <4>1. pc'[w] = "serving" /\ task'[w] = Nothing /\ task'[w].does = "nothing"
        BY <1>1, <2>1, NothingDoes DEF TableTypeOK
      <4>2. WorkerSound(w)'
        BY <2>1, <2>6, <4>1 DEF WorkerSound
      <4>3. QED BY <3>2, <4>2
    <3>3. QED BY <3>1, <3>2
  <2>12. QED BY <2>4, <2>10, <2>11 DEF TableSound
<1>4. CASE RecryptFails(w)
  <2>1. /\ task[w].does = "re-encrypt" /\ task' = [task EXCEPT ![w] = Nothing]
        /\ UNCHANGED <<rows, spent, secret, settled, seeds, removed>>
        /\ \/ pc[w] = "serving" /\ UNCHANGED <<pc, copies, garbled>>
           \/ /\ pc' = [pc EXCEPT ![w] = "down"]
              /\ copies' = [copies EXCEPT ![w] = None]
              /\ garbled' = [garbled EXCEPT ![w] = {}]
    BY <1>4 DEF RecryptFails, Rests
  <2>2. RowsSound' /\ Stale' = Stale
    BY <1>1, <2>1, SameRows
  <2>3. TableTypeOK'
    <3>1. task' \in [Workers -> [does : {"nothing", "re-encrypt", "add", "remove"},
                                ids : SUBSET Ids]]
      BY <1>1, <2>1 DEF TableTypeOK, Nothing
    <3>2. pc' \in [Workers -> Lifespan] /\ garbled' \in [Workers -> SUBSET Ids]
      BY <1>1, <2>1 DEF TableTypeOK, Lifespan
    <3>3. copies' \in [Workers -> [Ids -> 0 .. 2]]
      BY <1>1, <2>1 DEF TableTypeOK, None
    <3>4. QED BY <1>1, <2>1, <3>1, <3>2, <3>3 DEF TableTypeOK
  <2>4. ASSUME NEW v \in Workers PROVE WorkerSound(v)'
    <3>1. CASE v # w
      BY <1>1, <2>1, <2>2, <3>1, Untouched DEF TableTypeOK
    <3>2. CASE v = w
      <4>1. task'[w] = Nothing /\ task'[w].does = "nothing" /\ WorkerSound(w)
        BY <1>1, <2>1, NothingDoes DEF TableTypeOK
      <4>2. \/ pc'[w] = pc[w] /\ copies'[w] = copies[w] /\ garbled'[w] = garbled[w]
            \/ /\ pc'[w] = "down" /\ garbled'[w] = {}
               /\ \A i \in Ids : copies'[w][i] = 0
        BY <1>1, <2>1 DEF TableTypeOK, None
      <4>3. WorkerSound(w)'
        BY <2>1, <4>1, <4>2 DEF WorkerSound
      <4>4. QED BY <3>2, <4>3
    <3>3. QED BY <3>1, <3>2
  <2>5. QED BY <2>2, <2>3, <2>4 DEF TableSound
<1>5. QED BY <1>2, <1>3, <1>4 DEF Rotation

--------------------------------------------------------------------------------
(* The admin's endpoints (key_pool.py:266, 286).                             *)
LEMMA AdminKeeps ==
  ASSUME TableSound, NEW w \in Workers, Admin(w)
  PROVE  TableSound'
<1> USE DEF At
<1>1. TableTypeOK /\ RowsSound /\ \A v \in Workers : WorkerSound(v)
  BY DEF TableSound
<1>2. ASSUME NEW k \in Keys, AddRow(w, k) PROVE TableSound'
  <2>1. PICK i \in Ids \ spent :
          /\ rows' = [rows EXCEPT ![i] = [key |-> k, by |-> secret]]
          /\ spent' = spent \cup {i}
          /\ task' = [task EXCEPT ![w] = [does |-> "add", ids |-> {i}]]
    BY <1>2 DEF AddRow, Does
  <2>2. /\ pc[w] = "serving"
        /\ UNCHANGED <<secret, pc, copies, garbled, settled, seeds, removed>>
    BY <1>2 DEF AddRow, Free
  <2>3. TableTypeOK'
    <3>1. rows' \in [Ids -> Row \cup {NoRow}]
      BY <1>1, <2>1 DEF TableTypeOK, Row
    <3>2. QED BY <1>1, <2>1, <2>2, <3>1 DEF TableTypeOK
  <2>4. ASSUME NEW j \in Stored' PROVE Written(j)
    BY <1>1, <2>1, <2>4 DEF Written, Stored, TableTypeOK
  <2>5. removed' \cap Stored' = {}
    BY <1>1, <2>1, <2>2, <2>4 DEF Written, RowsSound, TableTypeOK
  <2>6. RowsSound' /\ Stale' \subseteq Stale
    BY <1>1, <2>1, <2>2, <2>4, <2>5, RowsKeep DEF TableTypeOK
  <2>7. ASSUME NEW v \in Workers PROVE WorkerSound(v)'
    <3>1. CASE v # w
      BY <1>1, <2>1, <2>2, <2>6, <3>1, Untouched DEF TableTypeOK
    <3>2. CASE v = w
      <4>1. task'[w].does = "add" /\ task'[w].ids = {i}
        BY <1>1, <2>1 DEF TableTypeOK
      <4>2. WorkerSound(w) /\ copies[w][i] = 0
        BY <1>1, <2>1 DEF WorkerSound
      <4>3. i \in spent' /\ spent \subseteq spent'
        BY <2>1
      <4>4. WorkerSound(w)'
        BY <2>2, <4>1, <4>2, <4>3 DEF WorkerSound
      <4>5. QED BY <3>2, <4>4
    <3>3. QED BY <3>1, <3>2
  <2>8. QED BY <2>3, <2>6, <2>7 DEF TableSound
<1>3. CASE AddEntry(w)
  <2>1. /\ task[w].does = "add" /\ task' = [task EXCEPT ![w] = Nothing]
        /\ copies' = [copies EXCEPT ![w] = [i \in Ids |-> IF i \in task[w].ids
                                                          THEN @[i] + 1 ELSE @[i]]]
        /\ UNCHANGED <<rows, spent, secret, pc, garbled, settled, seeds, removed>>
    BY <1>3 DEF AddEntry, Rests
  <2>2. PICK i \in spent : task[w].ids = {i} /\ copies[w][i] = 0
    BY <1>1, <2>1 DEF WorkerSound
  <2>3. copies' = [copies EXCEPT ![w] = [copies[w] EXCEPT ![i] = 1]]
    <3>1. [j \in Ids |-> IF j \in {i} THEN copies[w][j] + 1 ELSE copies[w][j]]
             = [copies[w] EXCEPT ![i] = 1]
      BY <1>1, <2>2 DEF TableTypeOK
    <3>2. QED BY <2>1, <2>2, <3>1
  <2>4. TableTypeOK'
    <3>1. task' \in [Workers -> [does : {"nothing", "re-encrypt", "add", "remove"},
                                ids : SUBSET Ids]]
      BY <1>1, <2>1 DEF TableTypeOK, Nothing
    <3>2. copies' \in [Workers -> [Ids -> 0 .. 2]]
      BY <1>1, <2>3 DEF TableTypeOK
    <3>3. QED BY <1>1, <2>1, <3>1, <3>2 DEF TableTypeOK
  <2>5. RowsSound' /\ Stale' = Stale
    BY <1>1, <2>1, SameRows
  <2>6. ASSUME NEW v \in Workers PROVE WorkerSound(v)'
    <3>1. CASE v # w
      BY <1>1, <2>1, <2>5, <3>1, Untouched DEF TableTypeOK
    <3>2. CASE v = w
      <4>1. /\ task'[w] = Nothing /\ task'[w].does = "nothing" /\ WorkerSound(w)
            /\ pc[w] \in {"re-encrypt", "serving"}
        BY <1>1, <2>1, NothingDoes DEF TableTypeOK, WorkerSound
      <4>2. \A j \in Ids : copies'[w][j] = IF j = i THEN 1 ELSE copies[w][j]
        BY <1>1, <2>3 DEF TableTypeOK
      <4>3. WorkerSound(w)'
        BY <2>1, <2>2, <4>1, <4>2 DEF WorkerSound
      <4>4. QED BY <3>2, <4>3
    <3>3. QED BY <3>1, <3>2
  <2>7. QED BY <2>4, <2>5, <2>6 DEF TableSound
<1>4. ASSUME NEW i \in Ids, PopEntry(w, i) PROVE TableSound'
  <2>1. /\ pc[w] = "serving" /\ copies[w][i] > 0
        /\ copies' = [copies EXCEPT ![w][i] = @ - 1]
        /\ task' = [task EXCEPT ![w] = [does |-> "remove", ids |-> {i}]]
        /\ UNCHANGED <<rows, spent, secret, pc, garbled, settled, seeds, removed>>
    BY <1>4 DEF PopEntry, Free, Does
  <2>2. copies[w][i] \in 1 .. 2
    BY <1>1, <2>1 DEF TableTypeOK
  <2>3. TableTypeOK'
    <3>1. copies' \in [Workers -> [Ids -> 0 .. 2]]
      BY <1>1, <2>1, <2>2 DEF TableTypeOK
    <3>2. QED BY <1>1, <2>1, <3>1 DEF TableTypeOK
  <2>4. RowsSound' /\ Stale' = Stale
    BY <1>1, <2>1, SameRows
  <2>5. ASSUME NEW v \in Workers PROVE WorkerSound(v)'
    <3>1. CASE v # w
      BY <1>1, <2>1, <2>4, <3>1, Untouched DEF TableTypeOK
    <3>2. CASE v = w
      <4>1. task'[w].does = "remove" /\ task'[w].ids = {i} /\ WorkerSound(w)
        BY <1>1, <2>1 DEF TableTypeOK
      <4>2. copies[w][i] # 0 /\ \A j \in Ids : copies'[w][j] # 0 => copies[w][j] # 0
        BY <1>1, <2>1, <2>2 DEF TableTypeOK
      <4>3. WorkerSound(w)'
        BY <2>1, <4>1, <4>2 DEF WorkerSound
      <4>4. QED BY <3>2, <4>3
    <3>3. QED BY <3>1, <3>2
  <2>6. QED BY <2>3, <2>4, <2>5 DEF TableSound
<1>5. CASE DeleteRow(w)
  <2>1. /\ task[w].does = "remove"
        /\ rows' = [i \in Ids |-> IF i \in task[w].ids THEN NoRow ELSE rows[i]]
        /\ removed' = removed \cup task[w].ids
        /\ task' = [task EXCEPT ![w] = Nothing]
        /\ UNCHANGED <<spent, secret, pc, copies, garbled, settled, seeds>>
    BY <1>5 DEF DeleteRow, Rests
  <2>2. Stored' \subseteq Stored /\ \A i \in Stored' : rows'[i] = rows[i] /\ i \notin task[w].ids
    BY <2>1 DEF Stored
  <2>3. TableTypeOK'
    <3>1. task' \in [Workers -> [does : {"nothing", "re-encrypt", "add", "remove"},
                                ids : SUBSET Ids]]
      BY <1>1, <2>1 DEF TableTypeOK, Nothing
    <3>2. rows' \in [Ids -> Row \cup {NoRow}]
      BY <1>1, <2>1 DEF TableTypeOK
    <3>3. task[w].ids \subseteq spent
      BY <1>1, <2>1 DEF WorkerSound
    <3>4. QED BY <1>1, <2>1, <3>1, <3>2, <3>3 DEF TableTypeOK
  <2>4. Stale' = Stale \cap Stored' /\ RowsSound'
    BY <1>1, <2>1, <2>2 DEF RowsSound, Stale
  <2>5. ASSUME NEW v \in Workers PROVE WorkerSound(v)'
    <3>1. CASE v # w
      BY <1>1, <2>1, <2>4, <3>1, Untouched DEF TableTypeOK
    <3>2. CASE v = w
      <4>1. /\ task'[w] = Nothing /\ task'[w].does = "nothing" /\ WorkerSound(w)
        BY <1>1, <2>1, NothingDoes DEF TableTypeOK
      <4>2. WorkerSound(w)'
        BY <2>1, <4>1 DEF WorkerSound
      <4>3. QED BY <3>2, <4>2
    <3>3. QED BY <3>1, <3>2
  <2>6. QED BY <2>3, <2>4, <2>5 DEF TableSound
<1>6. QED BY <1>2, <1>3, <1>4, <1>5 DEF Admin

--------------------------------------------------------------------------------
(* Every step keeps the invariant.                                           *)
LEMMA NextTable == TableSound /\ [TableNext]_tableVars => TableSound'
<1> SUFFICES ASSUME TableSound, [TableNext]_tableVars PROVE TableSound'
  OBVIOUS
<1> USE DEF At, Goes
<1>1. TableTypeOK /\ RowsSound /\ \A v \in Workers : WorkerSound(v)
  BY DEF TableSound
<1>2. ASSUME NEW w \in Workers, Crash(w) PROVE TableSound'
  <2>1. /\ pc' = [pc EXCEPT ![w] = "down"]
        /\ copies' = [copies EXCEPT ![w] = None]
        /\ garbled' = [garbled EXCEPT ![w] = {}]
        /\ task' = [task EXCEPT ![w] = Nothing]
        /\ UNCHANGED <<rows, spent, secret, settled, seeds, removed>>
    BY <1>2 DEF Crash, Rests
  <2>2. RowsSound' /\ Stale' = Stale
    BY <1>1, <2>1, SameRows
  <2>3. TableTypeOK'
    <3>1. task' \in [Workers -> [does : {"nothing", "re-encrypt", "add", "remove"},
                                ids : SUBSET Ids]]
      BY <1>1, <2>1 DEF TableTypeOK, Nothing
    <3>2. pc' \in [Workers -> Lifespan] /\ garbled' \in [Workers -> SUBSET Ids]
      BY <1>1, <2>1 DEF TableTypeOK, Lifespan
    <3>3. copies' \in [Workers -> [Ids -> 0 .. 2]]
      BY <1>1, <2>1 DEF TableTypeOK, None
    <3>4. QED BY <1>1, <2>1, <3>1, <3>2, <3>3 DEF TableTypeOK
  <2>4. ASSUME NEW v \in Workers PROVE WorkerSound(v)'
    <3>1. CASE v # w
      BY <1>1, <2>1, <2>2, <3>1, Untouched DEF TableTypeOK
    <3>2. CASE v = w
      <4>1. /\ task'[w] = Nothing /\ task'[w].does = "nothing"
            /\ pc'[w] = "down" /\ garbled'[w] = {} /\ \A i \in Ids : copies'[w][i] = 0
        BY <1>1, <2>1, NothingDoes DEF TableTypeOK, None
      <4>2. WorkerSound(w)'
        BY <4>1 DEF WorkerSound
      <4>3. QED BY <3>2, <4>2
    <3>3. QED BY <3>1, <3>2
  <2>5. QED BY <2>2, <2>3, <2>4 DEF TableSound
<1>3. CASE Rotate
  <2>1. /\ \A w \in Workers : pc[w] = "down"
        /\ settled /\ secret < LastSecret /\ secret' = secret + 1 /\ settled' = FALSE
        /\ UNCHANGED <<rows, spent, pc, copies, garbled, task, seeds, removed>>
    BY <1>3 DEF Rotate, process
  <2>2. TableTypeOK'
    <3>1. secret' \in 0 .. LastSecret
      BY <1>1, <2>1, KeyStoreAssumption DEF TableTypeOK
    <3>2. QED BY <1>1, <2>1, <3>1 DEF TableTypeOK
  <2>3. RowsSound'
    <3>1. secret \in Int /\ secret' - 1 = secret /\ secret' # secret
      BY <1>1, <2>1, KeyStoreAssumption DEF TableTypeOK
    <3>2. Stored' = Stored /\ \A i \in Stored : rows[i].by = NoSecret \/ rows[i].by = secret
      BY <1>1, <2>1 DEF RowsSound, Stored
    <3>3. QED BY <1>1, <2>1, <3>1, <3>2 DEF RowsSound, Stale
  <2>4. ASSUME NEW w \in Workers PROVE WorkerSound(w)'
    <3>1. WorkerSound(w) /\ pc[w] = "down"
      BY <1>1, <2>1
    <3>2. task[w] = Nothing /\ task[w].does = "nothing"
      BY <3>1, NothingDoes DEF WorkerSound
    <3>3. QED BY <2>1, <3>1, <3>2 DEF WorkerSound
  <2>5. QED BY <2>2, <2>3, <2>4 DEF TableSound
<1>4. CASE UNCHANGED tableVars
  <2>1. UNCHANGED <<rows, spent, secret, pc, copies, garbled, task, settled, seeds, removed>>
    BY <1>4 DEF tableVars, process
  <2>2. RowsSound' /\ Stale' = Stale
    BY <1>1, <2>1, SameRows
  <2>3. TableTypeOK'
    BY <1>1, <2>1 DEF TableTypeOK
  <2>4. \A w \in Workers : WorkerSound(w)'
    BY <1>1, <2>1, <2>2, Untouched
  <2>5. QED BY <2>2, <2>3, <2>4 DEF TableSound
<1>5. QED
  BY <1>2, <1>3, <1>4, StartupKeeps, RotationKeeps, AdminKeeps DEF TableNext

(* TableSound is an invariant of the specification.                                *)
THEOREM TableInvariance == TableSpec => []TableSound
  BY InitTable, NextTable, PTL DEF TableSpec

(* The table, the workers' tasks and the histories keep their types, and no  *)
(* worker has more than two entries of a row (key_pool.py:186, main.py:113). *)
THEOREM TableTypeCorrect == TableSpec => []TableTypeOK
<1>1. TableSound => TableTypeOK  BY DEF TableSound
<1>2. QED BY <1>1, TableInvariance, PTL

(* No worker ever uses a ciphertext as a key (key_pool.py:429), for any      *)
(* number of workers, rows and changes of the secret.                        *)
THEOREM KeysReadableHolds == TableSpec => []KeysReadable
<1>1. TableSound => KeysReadable  BY DEF TableSound, WorkerSound, KeysReadable
<1>2. QED BY <1>1, TableInvariance, PTL

(* While a worker serves, no row is under the previous secret (main.py:117,  *)
(* key_pool.py:321): it can be dropped.                                      *)
THEOREM RotatedBeforeServingHolds == TableSpec => []RotatedBeforeServing
<1>1. TableSound => RotatedBeforeServing
  BY DEF TableSound, RowsSound, WorkerSound, RotatedBeforeServing, At
<1>2. QED BY <1>1, TableInvariance, PTL

(* Entries come from rows that are stored, and from additions of one row.    *)
LEMMA EntriesComeFrom ==
  ASSUME TableSound, [TableNext]_tableVars, NEW w \in Workers, NEW i \in Ids,
         copies'[w][i] > copies[w][i]
  PROVE  i \in Stored \/ task[w] = [does |-> "add", ids |-> {i}]
<1>1. copies \in [Workers -> [Ids -> 0 .. 2]] /\ WorkerSound(w)
  BY DEF TableSound, TableTypeOK
<1>2. copies # copies'
  BY <1>1
<1>3. PICK v \in Workers : Load(v) \/ RecryptFails(v) \/ AddEntry(v) \/ Crash(v)
                          \/ \E j \in Ids : PopEntry(v, j)
  <2>1. \A v \in Workers : Start(v) \/ CountRows(v) \/ Seed(v) => copies' = copies
    BY DEF Start, CountRows, Seed
  <2>2. \A v \in Workers : FindStale(v) \/ Recrypt(v) \/ DeleteRow(v) => copies' = copies
    BY DEF FindStale, Recrypt, DeleteRow
  <2>3. \A v \in Workers, k \in Keys : AddRow(v, k) => copies' = copies
    BY DEF AddRow
  <2>4. UNCHANGED tableVars \/ Rotate => copies' = copies
    BY DEF tableVars, process, Rotate
  <2>5. QED BY <1>2, <2>1, <2>2, <2>3, <2>4 DEF TableNext, Startup, Rotation, Admin
<1>4. CASE Load(v)
  <2>1. copies' = [copies EXCEPT ![v] = [j \in Ids |-> IF j \in Stored THEN copies[v][j] + 1
                                                      ELSE copies[v][j]]]
    BY <1>4 DEF Load
  <2>2. v # w \/ i \notin Stored => copies'[w][i] = copies[w][i]
    BY <1>1, <2>1
  <2>3. copies[w][i] \in 0 .. 2
    BY <1>1
  <2>4. i \in Stored
    BY <2>2, <2>3
  <2>5. QED BY <2>4
<1>5. CASE RecryptFails(v) \/ Crash(v)
  <2>1. copies' = copies \/ copies' = [copies EXCEPT ![v] = None]
    BY <1>5 DEF RecryptFails, Crash
  <2>2. None[i] = 0 /\ copies[w][i] \in 0 .. 2
    BY <1>1 DEF None
  <2>3. copies'[w][i] = copies[w][i] \/ copies'[w][i] = 0
    BY <1>1, <2>1, <2>2
  <2>4. QED BY <2>2, <2>3
<1>6. CASE AddEntry(v)
  <2>1. v = w /\ i \in task[w].ids /\ task[w].does = "add"
    <3>1. /\ task[v].does = "add"
          /\ copies' = [copies EXCEPT ![v] = [j \in Ids |-> IF j \in task[v].ids
                                                            THEN copies[v][j] + 1
                                                            ELSE copies[v][j]]]
      BY <1>6 DEF AddEntry
    <3>2. v # w \/ i \notin task[v].ids => copies'[w][i] = copies[w][i]
      BY <1>1, <3>1
    <3>3. copies[w][i] \in 0 .. 2
      BY <1>1
    <3>4. v = w /\ i \in task[v].ids
      BY <3>2, <3>3
    <3>5. QED BY <3>1, <3>4
  <2>2. task[w].ids = {i}
    <3>1. PICK j \in spent : task[w].ids = {j}
      BY <1>1, <2>1 DEF WorkerSound
    <3>2. QED BY <2>1, <3>1
  <2>3. task[w] \in [does : {"nothing", "re-encrypt", "add", "remove"}, ids : SUBSET Ids]
    BY DEF TableSound, TableTypeOK
  <2>4. QED BY <2>1, <2>2, <2>3
<1>7. ASSUME NEW j \in Ids, PopEntry(v, j) PROVE FALSE
  <2>1. copies' = [copies EXCEPT ![v][j] = copies[v][j] - 1] /\ copies[v][j] \in 1 .. 2
    BY <1>1, <1>7 DEF PopEntry
  <2>2. QED BY <1>1, <2>1
<1>8. QED BY <1>3, <1>4, <1>5, <1>6, <1>7

(* A removed row never comes back, and no later start loads it               *)
(* (key_pool.py:286, 321).                                                   *)
THEOREM RemovedStaysRemovedHolds == TableSpec => RemovedStaysRemoved
<1> DEFINE Away == /\ removed \cap {i \in Ids : rows'[i] # NoRow} = {}
                   /\ \A w \in Workers, i \in removed :
                        copies'[w][i] > copies[w][i] => task[w] = [does |-> "add", ids |-> {i}]
<1>1. ASSUME TableSound, TableSound', [TableNext]_tableVars PROVE [Away]_tableVars
  <2>1. removed \subseteq removed'
    BY <1>1 DEF TableNext, tableVars, process, Rotate, Startup, Start, CountRows, Seed, Load, Rotation,
                FindStale, Recrypt, RecryptFails, Admin, AddRow, AddEntry, PopEntry, DeleteRow,
                Crash
  <2>2. removed' \cap {i \in Ids : rows'[i] # NoRow} = {}
    BY <1>1 DEF TableSound, RowsSound, Stored
  <2>3. ASSUME NEW w \in Workers, NEW i \in removed, copies'[w][i] > copies[w][i]
        PROVE  task[w] = [does |-> "add", ids |-> {i}]
    <3>1. i \in Ids /\ i \notin Stored
      BY <1>1 DEF TableSound, RowsSound, TableTypeOK
    <3>2. QED BY <1>1, <2>3, <3>1, EntriesComeFrom
  <2>4. QED BY <2>1, <2>2, <2>3
<1>2. QED BY <1>1, TableInvariance, PTL DEF TableSpec, RemovedStaysRemoved

--------------------------------------------------------------------------------
\* The environment's rows of a key, and the workers that will add one: each of
\* them has found the table empty, and is one of few.
SeedRows(k) == {i \in Stored \cap seeds : rows[i].key = k}
Seeding == {w \in Workers : pc[w] = "seed"}

SeedsBounded ==
    \A k \in EnvKeys : /\ IsFiniteSet(SeedRows(k))
                       /\ Cardinality(SeedRows(k)) + Cardinality(Seeding) =< Cardinality(Workers)

(* The sets that are counted are finite.                                     *)
LEMMA SeedingFinite ==
  /\ IsFiniteSet(Seeding) /\ Cardinality(Seeding) \in Nat
  /\ Cardinality(Workers) \in Nat /\ Cardinality(Seeding) =< Cardinality(Workers)
<1>1. Seeding \in SUBSET Workers
  BY DEF Seeding
<1>2. QED BY <1>1, KeyStoreAssumption, FS_Subset, FS_CardinalityType

(* A step that adds neither a row of the environment nor a worker that will  *)
(* add one keeps the bound.                                                  *)
LEMMA FewerSeeds ==
  ASSUME SeedsBounded, Seeding' \subseteq Seeding,
         \A k \in EnvKeys : SeedRows(k)' \subseteq SeedRows(k)
  PROVE  SeedsBounded'
<1> SUFFICES ASSUME NEW k \in EnvKeys
             PROVE  /\ IsFiniteSet(SeedRows(k)')
                    /\ Cardinality(SeedRows(k)') + Cardinality(Seeding')
                          =< Cardinality(Workers)
  BY DEF SeedsBounded
<1>1. /\ IsFiniteSet(SeedRows(k)) /\ Cardinality(SeedRows(k)) \in Nat
      /\ Cardinality(SeedRows(k)) + Cardinality(Seeding) =< Cardinality(Workers)
  BY FS_CardinalityType DEF SeedsBounded
<1>2. /\ IsFiniteSet(SeedRows(k)') /\ Cardinality(SeedRows(k)') \in Nat
      /\ Cardinality(SeedRows(k)') =< Cardinality(SeedRows(k))
  BY <1>1, FS_Subset, FS_CardinalityType
<1>3. Cardinality(Seeding') \in Nat /\ Cardinality(Seeding') =< Cardinality(Seeding)
  BY SeedingFinite, FS_Subset, FS_CardinalityType
<1>4. QED BY <1>1, <1>2, <1>3, SeedingFinite

(* seed_from_config (key_pool.py:229-252) keeps the bound.                   *)
LEMMA SeedKeeps ==
  ASSUME TableSound, SeedsBounded, NEW w \in Workers, Seed(w)
  PROVE  SeedsBounded'
<1> SUFFICES ASSUME NEW k \in EnvKeys
             PROVE  /\ IsFiniteSet(SeedRows(k)')
                    /\ Cardinality(SeedRows(k)') + Cardinality(Seeding')
                          =< Cardinality(Workers)
  BY DEF SeedsBounded
<1>1. PICK new \in [EnvKeys -> Ids \ spent] :
        /\ \A j, l \in EnvKeys : new[j] = new[l] => j = l
        /\ rows' = [i \in Ids |-> IF \E l \in EnvKeys : new[l] = i
                                  THEN [key |-> CHOOSE l \in EnvKeys : new[l] = i,
                                        by |-> secret]
                                  ELSE rows[i]]
        /\ seeds' = seeds \cup {new[l] : l \in EnvKeys}
  BY DEF Seed
<1>2. pc \in [Workers -> Lifespan] /\ pc[w] = "seed" /\ pc' = [pc EXCEPT ![w] = "load"]
  BY DEF TableSound, TableTypeOK, Seed, At, Goes
<1>3. SeedRows(k)' \subseteq SeedRows(k) \cup {new[k]}
  <2> SUFFICES ASSUME NEW i \in SeedRows(k)', i # new[k] PROVE i \in SeedRows(k)
    OBVIOUS
  <2>1. i \in Ids /\ rows'[i] # NoRow /\ rows'[i].key = k /\ i \in seeds'
    BY DEF SeedRows, Stored
  <2>2. ASSUME NEW l \in EnvKeys, new[l] = i PROVE FALSE
    <3>1. (CHOOSE m \in EnvKeys : new[m] = i) = l
      BY <1>1, <2>2
    <3>2. rows'[i] = [key |-> l, by |-> secret]
      BY <1>1, <2>1, <2>2, <3>1
    <3>3. QED BY <2>1, <2>2, <3>2
  <2>3. rows'[i] = rows[i] /\ i \in seeds
    BY <1>1, <2>1, <2>2
  <2>4. QED BY <2>1, <2>3 DEF SeedRows, Stored
<1>4. /\ IsFiniteSet(SeedRows(k)) /\ Cardinality(SeedRows(k)) \in Nat
      /\ Cardinality(SeedRows(k)) + Cardinality(Seeding) =< Cardinality(Workers)
  BY FS_CardinalityType DEF SeedsBounded
<1>5. /\ IsFiniteSet(SeedRows(k) \cup {new[k]})
      /\ Cardinality(SeedRows(k) \cup {new[k]}) =< Cardinality(SeedRows(k)) + 1
  <2>1. /\ IsFiniteSet(SeedRows(k) \cup {new[k]})
        /\ Cardinality(SeedRows(k) \cup {new[k]}) =
              IF new[k] \in SeedRows(k) THEN Cardinality(SeedRows(k))
              ELSE Cardinality(SeedRows(k)) + 1
    BY <1>4, FS_AddElement
  <2>2. QED BY <1>4, <2>1
<1>6. /\ IsFiniteSet(SeedRows(k)') /\ Cardinality(SeedRows(k)') \in Nat
      /\ Cardinality(SeedRows(k)') =< Cardinality(SeedRows(k) \cup {new[k]})
  BY <1>3, <1>5, FS_Subset, FS_CardinalityType
<1>7. Seeding' = Seeding \ {w} /\ w \in Seeding
  BY <1>2 DEF Seeding
<1>8. Cardinality(Seeding') = Cardinality(Seeding) - 1
  BY <1>7, SeedingFinite, FS_RemoveElement
<1>9. Cardinality(SeedRows(k) \cup {new[k]}) \in Nat
  BY <1>5, FS_CardinalityType
<1>10. QED BY <1>4, <1>5, <1>6, <1>8, <1>9, SeedingFinite

(* So does the count that comes before it.                                   *)
LEMMA CountKeeps ==
  ASSUME TableSound, SeedsBounded, NEW w \in Workers, CountRows(w)
  PROVE  SeedsBounded'
<1>1. pc \in [Workers -> Lifespan] /\ UNCHANGED <<rows, seeds>>
  BY DEF TableSound, TableTypeOK, CountRows
<1>2. \A k \in EnvKeys : SeedRows(k)' = SeedRows(k)
  BY <1>1 DEF SeedRows, Stored
<1>3. CASE Stored = {}
  <2>1. \A k \in EnvKeys : SeedRows(k)' = {}
    BY <1>2, <1>3 DEF SeedRows
  <2>2. IsFiniteSet(Seeding') /\ Cardinality(Seeding') \in Nat
        /\ Cardinality(Seeding') =< Cardinality(Workers)
    <3>1. Seeding' \in SUBSET Workers
      BY DEF Seeding
    <3>2. QED BY <3>1, KeyStoreAssumption, FS_Subset, FS_CardinalityType
  <2>3. QED BY <2>1, <2>2, FS_EmptySet DEF SeedsBounded
<1>4. CASE Stored # {}
  <2>1. pc' = [pc EXCEPT ![w] = "load"]
    BY <1>4 DEF CountRows, Goes
  <2>2. Seeding' \subseteq Seeding
    BY <1>1, <2>1 DEF Seeding
  <2>3. QED BY <1>2, <2>2, FewerSeeds
<1>5. QED BY <1>3, <1>4

(* The bound holds at the start, and every step keeps it.                    *)
LEMMA InitSeeds == TableInit => SeedsBounded
<1> SUFFICES ASSUME TableInit PROVE SeedsBounded
  OBVIOUS
<1>1. \A k \in EnvKeys : SeedRows(k) = {}
  BY DEF TableInit, SeedRows, Stored
<1>2. QED BY <1>1, SeedingFinite, FS_EmptySet DEF SeedsBounded

LEMMA NextSeeds == TableSound /\ SeedsBounded /\ [TableNext]_tableVars => SeedsBounded'
<1> SUFFICES ASSUME TableSound, SeedsBounded, [TableNext]_tableVars PROVE SeedsBounded'
  OBVIOUS
<1>1. /\ rows \in [Ids -> Row \cup {NoRow}] /\ pc \in [Workers -> Lifespan]
      /\ seeds \subseteq spent /\ spent \subseteq Ids
  BY DEF TableSound, TableTypeOK
<1>2. ASSUME seeds' = seeds, Seeding' \subseteq Seeding,
             \A i \in Stored' \cap seeds : i \in Stored /\ rows'[i].key = rows[i].key
      PROVE  SeedsBounded'
  BY <1>2, FewerSeeds DEF SeedRows
<1>3. ASSUME rows' = rows, seeds' = seeds, Seeding' \subseteq Seeding PROVE SeedsBounded'
  BY <1>2, <1>3 DEF Stored
<1>4. ASSUME NEW w \in Workers, Start(w) \/ Load(w) \/ RecryptFails(w) \/ Crash(w)
      PROVE  SeedsBounded'
  <2>1. /\ rows' = rows /\ seeds' = seeds
        /\ pc' = pc \/ \E l : l # "seed" /\ pc' = [pc EXCEPT ![w] = l]
    BY <1>4 DEF Start, Load, RecryptFails, Crash, Goes
  <2>2. QED BY <1>1, <1>3, <2>1 DEF Seeding
<1>5. ASSUME NEW w \in Workers, FindStale(w) \/ AddEntry(w) \/ (\E i \in Ids : PopEntry(w, i))
      PROVE  SeedsBounded'
  BY <1>3, <1>5 DEF FindStale, AddEntry, PopEntry, Seeding
<1>6. ASSUME NEW w \in Workers, Recrypt(w) PROVE SeedsBounded'
  <2>1. /\ task[w].ids \subseteq Stored
        /\ rows' = [i \in Ids |-> IF i \in task[w].ids THEN [rows[i] EXCEPT !.by = secret]
                                  ELSE rows[i]]
        /\ seeds' = seeds /\ pc' = [pc EXCEPT ![w] = "serving"]
    BY <1>6 DEF Recrypt, Goes
  <2>2. \A i \in Stored' : i \in Stored /\ rows'[i].key = rows[i].key
    BY <1>1, <2>1 DEF Stored, Row
  <2>3. QED BY <1>1, <1>2, <2>1, <2>2 DEF Seeding
<1>7. ASSUME NEW w \in Workers, NEW k \in Keys, AddRow(w, k) PROVE SeedsBounded'
  <2>1. PICK i \in Ids \ spent : rows' = [rows EXCEPT ![i] = [key |-> k, by |-> secret]]
    BY <1>7 DEF AddRow
  <2>2. seeds' = seeds /\ pc' = pc
    BY <1>7 DEF AddRow
  <2>3. QED BY <1>1, <1>2, <2>1, <2>2 DEF Seeding, Stored
<1>8. ASSUME NEW w \in Workers, DeleteRow(w) PROVE SeedsBounded'
  <2>1. /\ rows' = [i \in Ids |-> IF i \in task[w].ids THEN NoRow ELSE rows[i]]
        /\ seeds' = seeds /\ pc' = pc
    BY <1>8 DEF DeleteRow
  <2>2. QED BY <1>1, <1>2, <2>1 DEF Seeding, Stored
<1>9. CASE Rotate \/ UNCHANGED tableVars
  BY <1>3, <1>9 DEF Rotate, tableVars, process, Seeding
<1>10. QED
  BY <1>4, <1>5, <1>6, <1>7, <1>8, <1>9, SeedKeeps, CountKeeps
  DEF TableNext, Startup, Rotation, Admin

(* Workers that start together seed each key at most once each               *)
(* (key_pool.py:229-252), however many there are.                            *)
THEOREM SeedsAreFewHolds == TableSpec => []SeedsAreFew
<1>1. SeedsBounded => SeedsAreFew
  <2> SUFFICES ASSUME SeedsBounded, NEW k \in EnvKeys
               PROVE  Cardinality(SeedRows(k)) =< Cardinality(Workers)
    BY DEF SeedsAreFew, SeedRows
  <2>1. /\ Cardinality(SeedRows(k)) \in Nat
        /\ Cardinality(SeedRows(k)) + Cardinality(Seeding) =< Cardinality(Workers)
    BY FS_CardinalityType DEF SeedsBounded
  <2>2. QED BY <2>1, SeedingFinite
<1>2. QED BY <1>1, TableInvariance, InitSeeds, NextSeeds, PTL DEF TableSpec
================================================================================
