---------------------------- MODULE Admission_proofs ----------------------------
(***************************************************************************)
(* What the bans, the lockout and the sliding windows keep for any number  *)
(* of requests, addresses, names and windows, any thresholds and times: a  *)
(* limit is exceeded by requests in flight only, each by one, and a limit  *)
(* that is reached has its consequence.  The argument counts entries by    *)
(* their age and requests by what they are about to add.                   *)
(***************************************************************************)
EXTENDS Admission, FiniteSetTheorems, FunctionTheorems, TLAPS

\* The sets of entries that are counted: so many of each age up to a last one.
Histogram(ages, last) == last \in Nat /\ ages \in [0 .. last -> Nat]

--------------------------------------------------------------------------------
(* Counting entries by their age.                                            *)

LEMMA Positive ==
    /\ LockAt \in Nat \ {0} /\ LockTime \in Nat \ {0} /\ BanAt \in Nat \ {0}
    /\ BanTime \in Nat \ {0} /\ Window \in Nat \ {0} /\ MaxStall \in Nat
    /\ IsFiniteSet(Requests) /\ Cardinality(Requests) \in Nat
    /\ \A w \in Windows : Limit[w] \in Nat \ {0}
BY AdmissionAssumption, FS_CardinalityType

(* There are finitely many entries, however many there are of each age.      *)
LEMMA EntriesFinite ==
    ASSUME NEW ages, NEW last, Histogram(ages, last), NEW from \in Nat, NEW to \in Int,
           to =< last
    PROVE  IsFiniteSet(Entries(ages, from, to)) /\ CountIn(ages, from, to) \in Nat
<1> DEFINE of(t) == {t} \X (1 .. ages[t])
           f == [t \in from .. to |-> of(t)]
           S == {of(t) : t \in from .. to}
<1>1. IsFiniteSet(from .. to)
    BY FS_Interval
<1>2. f \in Surjection(from .. to, S)
    BY DEF Surjection
<1>3. IsFiniteSet(S)
    <2> HIDE DEF f, S
    <2>1. QED BY <1>1, <1>2, FS_Surjection
<1>4. \A T \in S : IsFiniteSet(T)
    <2>1. ASSUME NEW t \in from .. to PROVE IsFiniteSet(of(t))
        <3>1. ages[t] \in Nat
            BY <2>1 DEF Histogram
        <3>2. IsFiniteSet(1 .. ages[t])
            <4>1. 1 \in Int /\ ages[t] \in Int
                BY <3>1
            <4>2. QED BY <4>1, FS_Interval
        <3>3. IsFiniteSet({t})
            BY FS_Singleton
        <3>5. QED BY <3>2, <3>3, FS_Product
    <2> HIDE DEF of
    <2>2. QED BY <2>1
<1>5. IsFiniteSet(UNION S)
    <2> HIDE DEF S
    <2>1. QED BY <1>3, <1>4, FS_UNION
<1>6. QED BY <1>5, FS_CardinalityType DEF Entries, CountIn

(* Fewer ages, or the same number of each of them.                           *)
LEMMA CountLess ==
    ASSUME NEW ages, NEW last, Histogram(ages, last),
           NEW from \in Nat, NEW to \in Int, NEW upto \in Int, to =< upto, upto =< last
    PROVE  CountIn(ages, from, to) =< CountIn(ages, from, upto)
<1>1. Entries(ages, from, to) \in SUBSET Entries(ages, from, upto)
    BY DEF Entries
<1>2. QED BY <1>1, EntriesFinite, FS_Subset DEF CountIn

LEMMA CountFrom ==
    ASSUME NEW ages, NEW last, Histogram(ages, last),
           NEW from \in Nat, NEW since \in Nat, NEW to \in Int, since =< from, to =< last
    PROVE  CountIn(ages, from, to) =< CountIn(ages, since, to)
<1>1. Entries(ages, from, to) \in SUBSET Entries(ages, since, to)
    BY DEF Entries
<1>2. QED BY <1>1, EntriesFinite, FS_Subset DEF CountIn

LEMMA CountSame ==
    ASSUME NEW ages, NEW other, NEW from \in Nat, NEW to \in Int,
           \A t \in from .. to : other[t] = ages[t]
    PROVE  CountIn(other, from, to) = CountIn(ages, from, to)
<1>1. Entries(other, from, to) = Entries(ages, from, to)
    BY DEF Entries
<1>2. QED BY <1>1 DEF CountIn

LEMMA CountNone ==
    ASSUME NEW ages, NEW from \in Nat, NEW to \in Int,
           \A t \in from .. to : ages[t] = 0
    PROVE  CountIn(ages, from, to) = 0
<1>1. Entries(ages, from, to) = {}
    BY DEF Entries
<1>2. QED BY <1>1, FS_EmptySet DEF CountIn

(* One entry more.                                                           *)
LEMMA CountOneMore ==
    ASSUME NEW ages, NEW last, Histogram(ages, last), NEW x \in 0 .. last,
           NEW from \in Nat, NEW to \in Int, to =< last
    PROVE  /\ Histogram([ages EXCEPT ![x] = @ + 1], last)
           /\ x \in from .. to =>
                  CountIn([ages EXCEPT ![x] = @ + 1], from, to) = CountIn(ages, from, to) + 1
           /\ x \notin from .. to =>
                  CountIn([ages EXCEPT ![x] = @ + 1], from, to) = CountIn(ages, from, to)
<1> DEFINE more == [ages EXCEPT ![x] = @ + 1]
<1>1. /\ more \in [0 .. last -> Nat] /\ last \in Nat
      /\ more[x] = ages[x] + 1 /\ ages[x] \in Nat
      /\ \A t \in 0 .. last : t # x => more[t] = ages[t]
    BY DEF Histogram
<1> HIDE DEF more
<1>2. ASSUME x \in from .. to PROVE CountIn(more, from, to) = CountIn(ages, from, to) + 1
    <2> DEFINE E == Entries(ages, from, to)
               new == <<x, ages[x] + 1>>
    <2>1. new \notin E
        BY <1>1 DEF Entries
    <2>2. Entries(more, from, to) = E \cup {new}
        <3>1. \A t \in from .. to : t # x => more[t] = ages[t]
            BY <1>1
        <3>2. {x} \X (1 .. more[x]) = ({x} \X (1 .. ages[x])) \cup {new}
            BY <1>1
        <3>3. \A t \in from .. to : t # x => {t} \X (1 .. more[t]) = {t} \X (1 .. ages[t])
            BY <3>1
        <3>4. QED BY <1>2, <3>2, <3>3 DEF Entries
    <2>3. IsFiniteSet(E)
        BY EntriesFinite
    <2> HIDE DEF E, new
    <2>4. Cardinality(E \cup {new}) = Cardinality(E) + 1
        BY <2>1, <2>3, FS_AddElement
    <2>5. QED BY <1>2, <2>2, <2>4 DEF CountIn, E
<1>3. ASSUME x \notin from .. to PROVE CountIn(more, from, to) = CountIn(ages, from, to)
    <2>1. \A t \in from .. to : more[t] = ages[t]
        BY <1>1, <1>3
    <2>2. QED BY <1>3, <2>1, CountSame
<1>4. Histogram(more, last)
    BY <1>1 DEF Histogram
<1>5. QED BY <1>2, <1>3, <1>4 DEF more

(* A tick later: the entries of an age are those that were younger by one,   *)
(* and there is none without an age.                                         *)
LEMMA CountOlder ==
    ASSUME NEW ages, NEW last, Histogram(ages, last),
           NEW from \in Nat, NEW to \in Int, to < last
    PROVE  /\ Histogram(Older(ages), last)
           /\ CountIn(Older(ages), from + 1, to + 1) = CountIn(ages, from, to)
           /\ CountIn(Older(ages), 0, to + 1) = CountIn(ages, 0, to)
           /\ CountIn(Older(ages), 0, 0) = 0
<1>1. /\ DOMAIN ages = 0 .. last /\ last \in Nat
      /\ Older(ages) \in [0 .. last -> Nat]
      /\ Older(ages)[0] = 0
      /\ \A t \in 1 .. last : Older(ages)[t] = ages[t - 1]
    BY DEF Older, Histogram
<1>2. ASSUME NEW since \in Nat
      PROVE  CountIn(Older(ages), since + 1, to + 1) = CountIn(ages, since, to)
    <2> DEFINE S == Entries(ages, since, to)
               T == Entries(Older(ages), since + 1, to + 1)
               f == [e \in S |-> <<e[1] + 1, e[2]>>]
    <2>1. \A e : e \in S <=> \E t \in since .. to : \E k \in 1 .. ages[t] : e = <<t, k>>
        BY DEF Entries
    <2>2. \A e : e \in T <=>
              \E t \in since + 1 .. to + 1 : \E k \in 1 .. ages[t - 1] : e = <<t, k>>
        <3>1. \A e : e \in T <=>
                  \E t \in since + 1 .. to + 1 : \E k \in 1 .. Older(ages)[t] : e = <<t, k>>
            BY DEF Entries
        <3>2. \A t \in since + 1 .. to + 1 : Older(ages)[t] = ages[t - 1]
            BY <1>1
        <3>3. QED BY <3>1, <3>2
    <2> HIDE DEF S, T
    <2>3. \A e \in S : f[e] \in T
        <3>1. ASSUME NEW e \in S PROVE f[e] \in T
            <4>1. PICK t \in since .. to : \E k \in 1 .. ages[t] : e = <<t, k>>
                BY <2>1
            <4>0. PICK k \in 1 .. ages[t] : e = <<t, k>>
                BY <4>1
            <4>2. f[e] = <<t + 1, k>> /\ t + 1 \in since + 1 .. to + 1 /\ (t + 1) - 1 = t
                BY <4>0
            <4>3. QED BY <2>2, <4>0, <4>2
        <3>2. QED BY <3>1
    <2>4. \A e, g \in S : f[e] = f[g] => e = g
        BY <2>1
    <2>5. \A g \in T : \E e \in S : f[e] = g
        <3>1. ASSUME NEW g \in T PROVE \E e \in S : f[e] = g
            <4>1. PICK t \in since + 1 .. to + 1 : \E k \in 1 .. ages[t - 1] : g = <<t, k>>
                BY <2>2
            <4>0. PICK k \in 1 .. ages[t - 1] : g = <<t, k>>
                BY <4>1
            <4>2. t - 1 \in since .. to /\ (t - 1) + 1 = t
                BY <4>1
            <4>3. <<t - 1, k>> \in S
                BY <2>1, <4>0, <4>2
            <4>4. f[<<t - 1, k>>] = g
                BY <4>0, <4>2, <4>3
            <4>5. QED BY <4>3, <4>4
        <3>2. QED BY <3>1
    <2>6. f \in [S -> T]
        BY <2>3
    <2> HIDE DEF f
    <2>7. f \in Bijection(S, T)
        BY <2>4, <2>5, <2>6 DEF Bijection, Injection, Surjection, IsInjective
    <2>8. ExistsBijection(S, T)
        BY <2>7 DEF ExistsBijection
    <2>9. IsFiniteSet(S)
        BY <1>1, EntriesFinite DEF S
    <2>10. QED BY <2>8, <2>9, FS_Bijection DEF S, T, CountIn
<1>3. CountIn(Older(ages), 0, to + 1) = CountIn(Older(ages), 1, to + 1)
    <2>1. Entries(Older(ages), 0, to + 1) = Entries(Older(ages), 1, to + 1)
        BY <1>1 DEF Entries
    <2>2. QED BY <2>1 DEF CountIn
<1>4. CountIn(Older(ages), 0, 0) = 0
    BY <1>1, CountNone
<1>5. CountIn(Older(ages), 1, to + 1) = CountIn(ages, 0, to)
    <2>1. CountIn(Older(ages), 0 + 1, to + 1) = CountIn(ages, 0, to)
        BY <1>2
    <2>2. QED BY <2>1
<1>6. CountIn(Older(ages), from + 1, to + 1) = CountIn(ages, from, to)
    BY <1>2
<1>7. Histogram(Older(ages), last)
    BY <1>1 DEF Histogram
<1>8. QED BY <1>3, <1>4, <1>5, <1>6, <1>7

(* The entries that are young enough are kept.                               *)
LEMMA CountYoung ==
    ASSUME NEW ages, NEW last, Histogram(ages, last), NEW limit \in Nat,
           NEW from \in Nat, NEW to \in Int, to < limit, to =< last
    PROVE  /\ Histogram(Young(ages, limit), last)
           /\ CountIn(Young(ages, limit), from, to) = CountIn(ages, from, to)
<1>1. Young(ages, limit) \in [0 .. last -> Nat]
    BY DEF Young, Histogram
<1>2. \A t \in from .. to : Young(ages, limit)[t] = ages[t]
    BY DEF Young, Histogram
<1>3. CountIn(Young(ages, limit), from, to) = CountIn(ages, from, to)
    BY <1>2, CountSame, Zenon
<1>4. QED BY <1>1, <1>3 DEF Histogram

--------------------------------------------------------------------------------
(* The inductive invariant.                                                  *)

Request == [pc : Steps, ip : Addresses \cup {"none"}, name : Names \cup {"none"}, n : Nat,
            at : 0 .. Len(Chain), age : 0 .. MaxStall]

\* A request under way has an address, one that tries a password has a name, and
\* one at a window is at a place of the chain.
Placed(q) ==
    /\ q.pc # "idle" => q.ip \in Addresses
    /\ q.pc \in {"lock?", "verify", "clear", "fail", "rearm", "lock"} => q.name \in Names
    /\ q.pc \in {"trim"} \cup Stamped => q.at \in DOMAIN Chain

Typed == TypeOK /\ \A r \in Requests : Placed(req[r])

\* A request on its way to lock the name,
Locks(q, u) == q.name = u /\ ((q.pc = "rearm" /\ q.n >= LockAt) \/ q.pc = "lock")
Locking(u) == {r \in Requests : Locks(req[r], u)}

\* from the address,
Comes(q, a) == q.pc # "idle" /\ q.ip = a
Busy(a) == {r \in Requests : Comes(req[r], a)}

\* and one that has passed the window, or will as far as the entries up to an age go.
Passes(q, w, to) ==
    /\ q.pc \in Stamped /\ Chain[q.at] = w
    /\ q.pc = "hit" \/ CountIn(hits[w], q.age, to) < Limit[w]
Passing(w, to) == {r \in Requests : Passes(req[r], w, to)}

\* The tries are no more than the counter says, and those over the number that
\* locks are those of requests on their way to lock.
TriesSound(u) ==
    /\ tries[u] =< fails[u].n
    /\ fails[u].left = Gone => tries[u] = 0
    /\ tries[u] =< LockAt - 1 + Cardinality(Locking(u))

\* Enough failures up to an age leave so much of the ban as they have left to stay.
BanSound(a, t) == CountIn(failures[a], 0, t) >= BanAt => bans[a] >= BanTime - t

\* Each request from an address may still add a failure,
FailuresSound(a, t) ==
    CountIn(failures[a], 0, t) + Cardinality(Busy(a)) =< BanAt - 1 + Cardinality(Requests)

\* and each one that passes a window an entry.
WindowSound(w, t) ==
    CountIn(hits[w], 0, t) + Cardinality(Passing(w, t))
        =< Limit[w] + Cardinality(Requests) - 1

IInv ==
    /\ Typed
    /\ \A u \in Names : TriesSound(u)
    /\ \A a \in Addresses, t \in 0 .. BanTime - 1 : BanSound(a, t) /\ FailuresSound(a, t)
    /\ \A w \in Windows, t \in -1 .. Window - 1 : WindowSound(w, t)

--------------------------------------------------------------------------------
(* Moving one request.                                                       *)

\* Request r alone goes on, as q.
Becomes(r, q) ==
    /\ q \in Request /\ Placed(q)
    /\ req' \in [Requests -> Request]
    /\ req'[r] = q
    /\ \A s \in Requests : s # r => req'[s] = req[s]

LEMMA ReqType ==
    ASSUME Typed, NEW r \in Requests
    PROVE  req \in [Requests -> Request] /\ req[r] \in Request /\ Placed(req[r])
BY DEF Typed, TypeOK, Request

LEMMA Becoming ==
    ASSUME Typed, NEW r \in Requests, NEW q \in Request, Placed(q),
           req' = [req EXCEPT ![r] = q]
    PROVE  Becomes(r, q)
BY ReqType DEF Becomes

(* Setting one field of a request; several are set one after the other.      *)
LEMMA SetPc ==
    ASSUME NEW q \in Request, NEW x \in Steps
    PROVE  LET p == [q EXCEPT !.pc = x] IN
           /\ p \in Request /\ p.pc = x /\ p.ip = q.ip /\ p.name = q.name
           /\ p.n = q.n /\ p.at = q.at /\ p.age = q.age
BY DEF Request

LEMMA SetCount ==
    ASSUME NEW q \in Request, NEW x \in Nat
    PROVE  LET p == [q EXCEPT !.n = x] IN
           /\ p \in Request /\ p.pc = q.pc /\ p.ip = q.ip /\ p.name = q.name
           /\ p.n = x /\ p.at = q.at /\ p.age = q.age
BY DEF Request

LEMMA SetPlace ==
    ASSUME NEW q \in Request, NEW x \in 0 .. Len(Chain)
    PROVE  LET p == [q EXCEPT !.at = x] IN
           /\ p \in Request /\ p.pc = q.pc /\ p.ip = q.ip /\ p.name = q.name
           /\ p.n = q.n /\ p.at = x /\ p.age = q.age
BY DEF Request

LEMMA SetAge ==
    ASSUME NEW q \in Request, NEW x \in 0 .. MaxStall
    PROVE  LET p == [q EXCEPT !.age = x] IN
           /\ p \in Request /\ p.pc = q.pc /\ p.ip = q.ip /\ p.name = q.name
           /\ p.n = q.n /\ p.at = q.at /\ p.age = x
BY DEF Request

LEMMA IdleRequest ==
    Idle \in Request /\ Idle.pc = "idle" /\ Placed(Idle)
<1>1. Len(Chain) \in Nat
    BY AdmissionAssumption
<1>2. QED BY <1>1, Positive DEF Idle, Request, Steps, Placed, Stamped

LEMMA Going ==
    ASSUME Typed, NEW r \in Requests, NEW pc \in Steps, Goes(r, pc),
           Placed([req[r] EXCEPT !.pc = pc])
    PROVE  /\ Becomes(r, req'[r])
           /\ req'[r].pc = pc /\ req'[r].ip = req[r].ip /\ req'[r].name = req[r].name
           /\ req'[r].n = req[r].n /\ req'[r].at = req[r].at /\ req'[r].age = req[r].age
<1> DEFINE q == [req[r] EXCEPT !.pc = pc]
<1>1. /\ q \in Request /\ q.pc = pc /\ q.ip = req[r].ip /\ q.name = req[r].name
      /\ q.n = req[r].n /\ q.at = req[r].at /\ q.age = req[r].age
    BY ReqType, SetPc, Zenon
<1>2. req' = [req EXCEPT ![r] = q]
    BY DEF Goes
<1> HIDE DEF q
<1>3. Becomes(r, q)
    BY <1>1, <1>2, Becoming DEF q
<1>4. req'[r] = q
    BY <1>3 DEF Becomes
<1>5. QED BY <1>1, <1>3, <1>4

LEMMA Ending ==
    ASSUME Typed, NEW r \in Requests, Ends(r)
    PROVE  Becomes(r, req'[r]) /\ req'[r].pc = "idle"
<1>1. Becomes(r, Idle)
    BY IdleRequest, Becoming DEF Ends
<1>2. req'[r] = Idle
    BY <1>1 DEF Becomes
<1>3. QED BY <1>1, <1>2, IdleRequest

(* What the step makes of the sets that are counted.                         *)
LEMMA SetsOfRequests ==
    ASSUME Typed, NEW r \in Requests, NEW q, Becomes(r, q)
    PROVE  /\ \A u : Locking(u)' = IF Locks(q, u) THEN Locking(u) \cup {r}
                                                   ELSE Locking(u) \ {r}
           /\ \A a : Busy(a)' = IF Comes(q, a) THEN Busy(a) \cup {r} ELSE Busy(a) \ {r}
<1>1. /\ req'[r] = q
      /\ \A s \in Requests : s # r => req'[s] = req[s]
    BY DEF Becomes
<1>2. ASSUME NEW u
      PROVE  Locking(u)' = IF Locks(q, u) THEN Locking(u) \cup {r} ELSE Locking(u) \ {r}
    <2>1. Locking(u)' = {s \in Requests : Locks(req'[s], u)}
        BY DEF Locking, Locks
    <2>2. QED BY <1>1, <2>1 DEF Locking
<1>3. ASSUME NEW a
      PROVE  Busy(a)' = IF Comes(q, a) THEN Busy(a) \cup {r} ELSE Busy(a) \ {r}
    <2>1. Busy(a)' = {s \in Requests : Comes(req'[s], a)}
        BY DEF Busy, Comes
    <2>2. QED BY <1>1, <2>1 DEF Busy
<1>4. QED BY <1>2, <1>3

(* Sets of requests, and one with a request more or less.                    *)
LEMMA HowMany ==
    ASSUME NEW S \in SUBSET Requests
    PROVE  IsFiniteSet(S) /\ Cardinality(S) \in 0 .. Cardinality(Requests)
<1>1. IsFiniteSet(S) /\ Cardinality(S) =< Cardinality(Requests)
    BY Positive, FS_Subset
<1>2. Cardinality(S) \in Nat
    BY <1>1, FS_CardinalityType
<1>3. QED BY <1>1, <1>2, Positive

LEMMA OneMoreOrLess ==
    ASSUME NEW S \in SUBSET Requests, NEW r \in Requests
    PROVE  /\ Cardinality(S \cup {r}) =
                  IF r \in S THEN Cardinality(S) ELSE Cardinality(S) + 1
           /\ Cardinality(S \ {r}) =
                  IF r \in S THEN Cardinality(S) - 1 ELSE Cardinality(S)
<1>1. IsFiniteSet(S)
    BY HowMany
<1>2. Cardinality(S \cup {r}) =
          IF r \in S THEN Cardinality(S) ELSE Cardinality(S) + 1
    BY <1>1, FS_AddElement, Zenon
<1>3. Cardinality(S \ {r}) =
          IF r \in S THEN Cardinality(S) - 1 ELSE Cardinality(S)
    BY <1>1, FS_RemoveElement, Zenon
<1>4. QED BY <1>2, <1>3

LEMMA NoMore ==
    ASSUME NEW S \in SUBSET Requests, NEW T \in SUBSET Requests, S \subseteq T
    PROVE  Cardinality(S) =< Cardinality(T)
BY HowMany, FS_Subset

--------------------------------------------------------------------------------
(* Tries and their counter: what a step may make of them, and keep them sound. *)

\* Forgotten with the lock or the counter, left alone, or one more of them.
TriesEffect(u) ==
    /\ tries'[u] \in Nat /\ fails'[u].n \in Nat
    /\ \/ tries'[u] = 0
       \/ /\ tries'[u] = tries[u] /\ fails'[u].n = fails[u].n
          /\ fails'[u].left = Gone => fails[u].left = Gone
          /\ Locking(u) \subseteq Locking(u)'
       \/ /\ tries'[u] = tries[u] + 1 /\ fails'[u].left # Gone
          /\ fails[u].left # Gone => fails'[u].n = fails[u].n + 1
          /\ fails[u].left = Gone => fails'[u].n = 1
          /\ \E r \in Requests \ Locking(u) :
                Locking(u)' = IF fails'[u].n >= LockAt THEN Locking(u) \cup {r} ELSE Locking(u)

LEMMA TriesStep ==
    ASSUME Typed, NEW u \in Names, TriesSound(u), TriesEffect(u)
    PROVE  TriesSound(u)'
<1> DEFINE k == Cardinality(Locking(u))
           m == Cardinality(Locking(u)')
<1>1. Locking(u) \in SUBSET Requests /\ Locking(u)' \in SUBSET Requests
    BY DEF Locking
<1>2. k \in Nat /\ m \in Nat
    BY <1>1, HowMany, Positive
<1>3. /\ tries[u] \in Nat /\ fails[u].n \in Nat
      /\ tries[u] =< fails[u].n /\ (fails[u].left = Gone => tries[u] = 0)
      /\ tries[u] =< LockAt - 1 + k
    BY DEF Typed, TypeOK, TriesSound
<1>4. LockAt \in Nat \ {0}
    BY Positive
<1>5. CASE tries'[u] = 0
    <2>1. tries'[u] =< fails'[u].n /\ tries'[u] =< LockAt - 1 + m
        <3> HIDE DEF m
        <3>1. QED BY <1>2, <1>4, <1>5 DEF TriesEffect
    <2>2. QED BY <1>5, <2>1 DEF TriesSound
<1>6. CASE /\ tries'[u] = tries[u] /\ fails'[u].n = fails[u].n
           /\ fails'[u].left = Gone => fails[u].left = Gone
           /\ Locking(u) \subseteq Locking(u)'
    <2>1. k =< m
        BY <1>1, <1>6, NoMore
    <2> HIDE DEF k, m
    <2>2. tries'[u] =< LockAt - 1 + m
        BY <1>2, <1>3, <1>4, <1>6, <2>1
    <2>3. QED BY <1>3, <1>6, <2>2 DEF TriesSound, m
<1>7. CASE /\ tries'[u] = tries[u] + 1 /\ fails'[u].left # Gone
           /\ fails[u].left # Gone => fails'[u].n = fails[u].n + 1
           /\ fails[u].left = Gone => fails'[u].n = 1
           /\ \E r \in Requests \ Locking(u) :
                Locking(u)' = IF fails'[u].n >= LockAt THEN Locking(u) \cup {r}
                                                       ELSE Locking(u)
    <2>1. fails'[u].n >= LockAt => m = k + 1
        <3>1. PICK r \in Requests \ Locking(u) :
                Locking(u)' = IF fails'[u].n >= LockAt THEN Locking(u) \cup {r}
                                                       ELSE Locking(u)
            BY <1>7
        <3>2. Cardinality(Locking(u) \cup {r}) = Cardinality(Locking(u)) + 1
            BY <1>1, <3>1, OneMoreOrLess
        <3>3. QED BY <3>1, <3>2
    <2> HIDE DEF k, m
    <2>2. tries'[u] =< fails'[u].n
        BY <1>3, <1>7
    <2>3. fails'[u].n \in Nat /\ tries'[u] \in Nat
        BY DEF TriesEffect
    <2>4. tries'[u] =< LockAt - 1 + m
        BY <1>2, <1>3, <1>4, <1>7, <2>1, <2>2, <2>3
    <2>5. QED BY <1>7, <2>2, <2>4 DEF TriesSound, m
<1>8. QED BY <1>5, <1>6, <1>7 DEF TriesEffect

--------------------------------------------------------------------------------
(* Bans and the failures that lead to them.                                  *)

\* Nothing but a request less, nothing left at all, one more let in, one more
\* refused, or a tick.
BanEffect(a) ==
    \/ failures'[a] = failures[a] /\ bans'[a] = bans[a] /\ Busy(a)' \subseteq Busy(a)
    \/ failures'[a] = NoFailures
    \/ failures'[a] = failures[a] /\ ~Banned(a)
    \/ /\ failures'[a] = Recent(a)
       /\ bans'[a] = IF Failures(Recent(a)) >= BanAt THEN BanTime ELSE bans[a]
       /\ \E r \in Busy(a) : Busy(a)' = Busy(a) \ {r}
    \/ /\ failures'[a] = Older(failures[a]) /\ Busy(a)' = Busy(a)
       /\ bans'[a] = IF bans[a] > 0 THEN bans[a] - 1 ELSE bans[a]

LEMMA FailureTypes ==
    ASSUME Typed, NEW a \in Addresses, NEW t \in 0 .. BanTime - 1
    PROVE  /\ Histogram(failures[a], BanTime)
           /\ CountIn(failures[a], 0, t) \in Nat
           /\ bans[a] \in NoBan .. BanTime /\ NoBan = -1
           /\ BanTime \in Nat \ {0} /\ BanAt \in Nat \ {0}
<1>1. Histogram(failures[a], BanTime)
    BY Positive DEF Typed, TypeOK, Histogram, FailureAges
<1>2. t \in Int /\ t =< BanTime
    BY Positive
<1>3. QED BY <1>1, <1>2, EntriesFinite, Positive DEF Typed, TypeOK, NoBan

(* A failure more, the old ones gone.                                        *)
LEMMA RecentCount ==
    ASSUME Typed, NEW a \in Addresses, NEW t \in 0 .. BanTime - 1
    PROVE  /\ CountIn(Recent(a), 0, t) = CountIn(failures[a], 0, t) + 1
           /\ Histogram(Recent(a), BanTime)
           /\ CountIn(Recent(a), 0, t) \in Nat
           /\ CountIn(Recent(a), 0, t) =< Failures(Recent(a))
<1> DEFINE young == Young(failures[a], BanTime)
<1>1. Histogram(failures[a], BanTime) /\ BanTime \in Nat \ {0}
    BY FailureTypes
<1>2. /\ 0 \in Nat /\ t \in Int /\ t < BanTime /\ t =< BanTime /\ BanTime - 1 \in Int
      /\ t =< BanTime - 1 /\ BanTime - 1 =< BanTime /\ 0 \in 0 .. t /\ 0 \in 0 .. BanTime
      /\ BanTime \in Nat
    BY <1>1
<1>3. Histogram(young, BanTime) /\ CountIn(young, 0, t) = CountIn(failures[a], 0, t)
    BY <1>1, <1>2, CountYoung
<1> HIDE DEF young
<1>4. /\ Histogram([young EXCEPT ![0] = @ + 1], BanTime)
      /\ CountIn([young EXCEPT ![0] = @ + 1], 0, t) = CountIn(young, 0, t) + 1
    BY <1>2, <1>3, CountOneMore
<1>5. Recent(a) = [young EXCEPT ![0] = @ + 1]
    BY DEF Recent, young
<1>6. Histogram(Recent(a), BanTime)
    BY <1>4, <1>5
<1>7. CountIn(Recent(a), 0, t) \in Nat
    BY <1>2, <1>6, EntriesFinite
<1>8. CountIn(Recent(a), 0, t) =< CountIn(Recent(a), 0, BanTime - 1)
    BY <1>2, <1>6, CountLess
<1>9. QED BY <1>3, <1>4, <1>5, <1>6, <1>7, <1>8 DEF Failures

LEMMA BanStep ==
    ASSUME Typed, NEW a \in Addresses, BanEffect(a),
           \A t \in 0 .. BanTime - 1 : BanSound(a, t) /\ FailuresSound(a, t)
    PROVE  \A t \in 0 .. BanTime - 1 : BanSound(a, t)' /\ FailuresSound(a, t)'
<1> SUFFICES ASSUME NEW t \in 0 .. BanTime - 1
             PROVE  BanSound(a, t)' /\ FailuresSound(a, t)'
    OBVIOUS
<1> DEFINE c == CountIn(failures[a], 0, t)
           d == CountIn(failures'[a], 0, t)
           k == Cardinality(Busy(a))
           m == Cardinality(Busy(a)')
           N == Cardinality(Requests)
<1>1. Busy(a) \in SUBSET Requests /\ Busy(a)' \in SUBSET Requests
    BY DEF Busy
<1>2. k \in 0 .. N /\ m \in 0 .. N /\ N \in Nat
    BY <1>1, HowMany, Positive
<1>3. /\ Histogram(failures[a], BanTime) /\ c \in Nat /\ bans[a] \in -1 .. BanTime
      /\ BanTime \in Nat \ {0} /\ BanAt \in Nat \ {0}
    BY FailureTypes
<1>4. (c >= BanAt => bans[a] >= BanTime - t) /\ c + k =< BanAt - 1 + N
    BY DEF BanSound, FailuresSound
<1>5. SUFFICES (d >= BanAt => bans'[a] >= BanTime - t) /\ d + m =< BanAt - 1 + N
    BY DEF BanSound, FailuresSound
<1>6. CASE failures'[a] = failures[a] /\ bans'[a] = bans[a] /\ Busy(a)' \subseteq Busy(a)
    <2>1. m =< k
        BY <1>1, <1>6, NoMore
    <2>2. d = c
        BY <1>6
    <2> HIDE DEF c, d, k, m, N
    <2>3. QED BY <1>2, <1>3, <1>4, <1>6, <2>1, <2>2
<1>7. CASE failures'[a] = NoFailures
    <2>1. d = 0
        <3>1. \A x \in 0 .. t : NoFailures[x] = 0
            BY <1>3 DEF NoFailures, FailureAges
        <3>2. QED BY <1>7, <3>1, CountNone
    <2> HIDE DEF c, d, k, m, N
    <2>2. QED BY <1>2, <1>3, <2>1
<1>8. CASE failures'[a] = failures[a] /\ ~Banned(a)
    <2>1. d = c
        BY <1>8
    <2>2. ~(bans[a] > 0)
        BY <1>8 DEF Banned
    <2> HIDE DEF c, d, k, m, N
    <2>3. QED BY <1>2, <1>3, <1>4, <2>1, <2>2
<1>9. CASE /\ failures'[a] = Recent(a)
           /\ bans'[a] = IF Failures(Recent(a)) >= BanAt THEN BanTime ELSE bans[a]
           /\ \E r \in Busy(a) : Busy(a)' = Busy(a) \ {r}
    <2>1. d = c + 1 /\ d =< Failures(Recent(a))
        BY <1>9, RecentCount
    <2>2. Failures(Recent(a)) \in Nat
        <3>1. BanTime - 1 \in 0 .. BanTime - 1
            BY <1>3
        <3>2. QED BY <3>1, RecentCount DEF Failures
    <2>3. m = k - 1
        <3>1. PICK r \in Busy(a) : Busy(a)' = Busy(a) \ {r}
            BY <1>9
        <3>2. QED BY <1>1, <3>1, OneMoreOrLess
    <2> HIDE DEF c, d, k, m, N
    <2>4. QED BY <1>2, <1>3, <1>4, <1>9, <2>1, <2>2, <2>3
<1>10. CASE /\ failures'[a] = Older(failures[a]) /\ Busy(a)' = Busy(a)
            /\ bans'[a] = IF bans[a] > 0 THEN bans[a] - 1 ELSE bans[a]
    <2>1. m = k
        BY <1>10
    <2>2. CASE t = 0
        <3>1. 0 \in Nat /\ 0 \in Int /\ 0 < BanTime
            BY <1>3
        <3>2. d = 0
            BY <1>3, <1>10, <2>2, <3>1, CountOlder
        <3> HIDE DEF c, d, k, m, N
        <3>3. QED BY <1>2, <1>3, <3>2
    <2>3. CASE t # 0
        <3> DEFINE e == CountIn(failures[a], 0, t - 1)
        <3>1. t - 1 \in 0 .. BanTime - 1 /\ t - 1 \in Int /\ t - 1 < BanTime /\ (t - 1) + 1 = t
            BY <1>3, <2>3
        <3>2. d = e
            <4>1. 0 \in Nat /\ Histogram(failures[a], BanTime)
                BY <1>3
            <4>2. CountIn(Older(failures[a]), 0, (t - 1) + 1) = CountIn(failures[a], 0, t - 1)
                BY <3>1, <4>1, CountOlder, Zenon
            <4>3. QED BY <1>10, <3>1, <4>2
        <3>3. (e >= BanAt => bans[a] >= BanTime - (t - 1)) /\ e + k =< BanAt - 1 + N
            BY <3>1 DEF BanSound, FailuresSound
        <3>4. e \in Nat
            BY <3>1, FailureTypes
        <3> HIDE DEF c, d, e, k, m, N
        <3>5. QED BY <1>2, <1>3, <1>10, <2>1, <2>3, <3>2, <3>3, <3>4
    <2>4. QED BY <2>2, <2>3
<1>11. QED BY <1>6, <1>7, <1>8, <1>9, <1>10 DEF BanEffect

--------------------------------------------------------------------------------
(* The windows.                                                              *)

\* A step may add no entry and let nobody pass, or leave the window below its
\* limit, or turn one that passes into an entry, or make everything older.
WindowEffect(w, t) ==
    /\ CountIn(hits[w], 0, t)' \in Nat
    /\ \/ /\ CountIn(hits[w], 0, t)' =< CountIn(hits[w], 0, t)
          /\ Passing(w, t)' \subseteq Passing(w, t)
       \/ CountIn(hits[w], 0, t)' < Limit[w]
       \/ /\ CountIn(hits[w], 0, t)' =< CountIn(hits[w], 0, t) + 1
          /\ \E r \in Passing(w, t) : Passing(w, t)' \subseteq Passing(w, t) \ {r}
       \/ /\ t - 1 \in -1 .. Window - 1
          /\ CountIn(hits[w], 0, t)' = CountIn(hits[w], 0, t - 1)
          /\ Passing(w, t)' \subseteq Passing(w, t - 1)

LEMMA WindowTypes ==
    ASSUME Typed, NEW w \in Windows
    PROVE  /\ Histogram(hits[w], Window + MaxStall)
           /\ Limit[w] \in Nat \ {0} /\ Window \in Nat \ {0} /\ MaxStall \in Nat
           /\ \A t \in -1 .. Window - 1, s \in Nat :
                 t \in Int /\ t < Window + MaxStall /\ CountIn(hits[w], s, t) \in Nat
<1>1. Window \in Nat \ {0} /\ MaxStall \in Nat /\ Limit[w] \in Nat \ {0}
    BY Positive
<1>2. Histogram(hits[w], Window + MaxStall)
    BY <1>1 DEF Typed, TypeOK, Histogram, Ages
<1>3. ASSUME NEW t \in -1 .. Window - 1, NEW s \in Nat
      PROVE  t \in Int /\ t < Window + MaxStall /\ CountIn(hits[w], s, t) \in Nat
    <2>1. t \in Int /\ t < Window + MaxStall /\ t =< Window + MaxStall
        BY <1>1
    <2>2. QED BY <1>2, <2>1, EntriesFinite
<1>4. QED BY <1>1, <1>2, <1>3

LEMMA WindowStep ==
    ASSUME Typed, NEW w \in Windows, NEW t \in -1 .. Window - 1, WindowEffect(w, t),
           \A x \in -1 .. Window - 1 : WindowSound(w, x)
    PROVE  WindowSound(w, t)'
<1> DEFINE c == CountIn(hits[w], 0, t)
           d == CountIn(hits[w], 0, t)'
           k == Cardinality(Passing(w, t))
           m == Cardinality(Passing(w, t)')
           N == Cardinality(Requests)
<1>1. Passing(w, t) \in SUBSET Requests /\ Passing(w, t)' \in SUBSET Requests
    BY DEF Passing
<1>2. k \in 0 .. N /\ m \in 0 .. N /\ N \in Nat
    BY <1>1, HowMany, Positive
<1>3. c \in Nat /\ Limit[w] \in Nat \ {0}
    BY WindowTypes
<1>4. c + k =< Limit[w] + N - 1
    BY DEF WindowSound
<1>5. d \in Nat
    BY DEF WindowEffect
<1>6. SUFFICES d + m =< Limit[w] + N - 1
    BY DEF WindowSound
<1>7. CASE d =< c /\ Passing(w, t)' \subseteq Passing(w, t)
    <2>1. m =< k
        BY <1>1, <1>7, NoMore
    <2> HIDE DEF c, d, k, m, N
    <2>2. QED BY <1>2, <1>3, <1>4, <1>5, <1>7, <2>1
<1>8. CASE d < Limit[w]
    <2> HIDE DEF c, d, k, m, N
    <2>1. QED BY <1>2, <1>3, <1>5, <1>8
<1>9. CASE d =< c + 1 /\ \E r \in Passing(w, t) : Passing(w, t)' \subseteq Passing(w, t) \ {r}
    <2>1. PICK r \in Passing(w, t) : Passing(w, t)' \subseteq Passing(w, t) \ {r}
        BY <1>9
    <2>2. Cardinality(Passing(w, t) \ {r}) = k - 1
        BY <1>1, <2>1, OneMoreOrLess
    <2>3. m =< Cardinality(Passing(w, t) \ {r})
        <3>1. Passing(w, t) \ {r} \in SUBSET Requests
            BY <1>1
        <3>2. QED BY <1>1, <2>1, <3>1, NoMore
    <2>4. m =< k - 1
        BY <2>2, <2>3
    <2> HIDE DEF c, d, k, m, N
    <2>5. QED BY <1>2, <1>3, <1>4, <1>5, <1>9, <2>4
<1>10. CASE /\ t - 1 \in -1 .. Window - 1
            /\ d = CountIn(hits[w], 0, t - 1)
            /\ Passing(w, t)' \subseteq Passing(w, t - 1)
    <2>1. d + Cardinality(Passing(w, t - 1)) =< Limit[w] + N - 1
        BY <1>10 DEF WindowSound
    <2>2. Passing(w, t - 1) \in SUBSET Requests
        BY DEF Passing
    <2>3. m =< Cardinality(Passing(w, t - 1)) /\ Cardinality(Passing(w, t - 1)) \in 0 .. N
        BY <1>1, <1>10, <2>2, HowMany, NoMore
    <2> HIDE DEF c, d, k, m, N
    <2>4. QED BY <1>2, <1>3, <1>5, <2>1, <2>3
<1>11. QED BY <1>7, <1>8, <1>9, <1>10 DEF WindowEffect

(* A step that reads no clock and adds no entry.                             *)
LEMMA NoEntry ==
    ASSUME Typed, NEW r \in Requests, NEW q, Becomes(r, q), hits' = hits,
           NEW w \in Windows, NEW t \in -1 .. Window - 1,
           Passes(q, w, t) => Passes(req[r], w, t)
    PROVE  WindowEffect(w, t)
<1>1. hits'[w] = hits[w] /\ CountIn(hits[w], 0, t)' = CountIn(hits[w], 0, t)
    BY DEF CountIn, Entries
<1>2. CountIn(hits[w], 0, t) \in Nat
    BY WindowTypes
<1>3. Passing(w, t)' = {s \in Requests : Passes(req'[s], w, t)}
    BY DEF Passing, Passes
<1>4. Passing(w, t)' \subseteq Passing(w, t)
    BY <1>3 DEF Passing, Becomes
<1>5. QED BY <1>1, <1>2, <1>4 DEF WindowEffect

LEMMA Trimming ==
    ASSUME Typed, NEW r \in Requests, TrimWindow(r),
           Becomes(r, req'[r]), req'[r].pc = "count", req'[r].at = req[r].at, req'[r].age = 0,
           NEW w \in Windows, NEW t \in -1 .. Window - 1
    PROVE  WindowEffect(w, t)
<1>1. \A s \in Requests : s # r => req'[s] = req[s]
    BY DEF Becomes
<1>2. /\ Histogram(hits[w], Window + MaxStall) /\ Window \in Nat
      /\ t \in Int /\ t < Window /\ t =< Window + MaxStall
      /\ Window + MaxStall \in Nat
    BY WindowTypes
<1>3. hits'[w] = hits[w] \/ hits'[w] = Young(hits[w], Window)
    BY DEF TrimWindow, Typed, TypeOK
<1>4. ASSUME NEW s \in Nat
      PROVE  CountIn(hits'[w], s, t) = CountIn(hits[w], s, t) /\ CountIn(hits[w], s, t) \in Nat
    <2>1. CountIn(hits[w], s, t) \in Nat
        BY WindowTypes
    <2>2. CountIn(Young(hits[w], Window), s, t) = CountIn(hits[w], s, t)
        BY <1>2, CountYoung
    <2>3. QED BY <1>3, <2>1, <2>2
<1>5. CountIn(hits[w], 0, t)' = CountIn(hits'[w], 0, t)
    OBVIOUS
<1>6. Passing(w, t)' = {s \in Requests :
            /\ req'[s].pc \in Stamped /\ Chain[req'[s].at] = w
            /\ req'[s].pc = "hit" \/ CountIn(hits'[w], req'[s].age, t) < Limit[w]}
    BY DEF Passing, Passes
<1>7. ASSUME NEW s \in Passing(w, t)', s # r
      PROVE  s \in Passing(w, t)
    <2>1. s \in Requests /\ req'[s] = req[s] /\ req[s].age \in Nat
        BY <1>1, <1>6, <1>7, ReqType DEF Request
    <2>2. CountIn(hits'[w], req[s].age, t) = CountIn(hits[w], req[s].age, t)
        BY <1>4, <2>1
    <2>3. QED BY <1>6, <2>1, <2>2 DEF Passing, Passes
<1>8. CASE r \in Passing(w, t)'
    <2>1. CountIn(hits'[w], 0, t) < Limit[w]
        BY <1>6, <1>8
    <2>2. QED BY <1>4, <1>5, <2>1 DEF WindowEffect
<1>9. CASE r \notin Passing(w, t)'
    <2>1. Passing(w, t)' \subseteq Passing(w, t)
        BY <1>7, <1>9
    <2>2. CountIn(hits'[w], 0, t) =< CountIn(hits[w], 0, t)
        BY <1>4
    <2>3. QED BY <1>4, <1>5, <2>1, <2>2 DEF WindowEffect
<1>10. QED BY <1>8, <1>9

LEMMA Hitting ==
    ASSUME Typed, NEW r \in Requests, HitWindow(r), Becomes(r, req'[r]),
           req'[r].pc \notin Stamped, NEW w \in Windows, NEW t \in -1 .. Window - 1
    PROVE  WindowEffect(w, t)
<1> DEFINE age == req[r].age
           c == CountIn(hits[w], 0, t)
           more == [hits[w] EXCEPT ![age] = @ + 1]
<1>1. /\ Histogram(hits[w], Window + MaxStall)
      /\ t \in Int /\ t =< Window + MaxStall /\ Window + MaxStall \in Nat
    BY WindowTypes
<1>2. req[r].pc = "hit" /\ age \in 0 .. Window + MaxStall
    <2>1. age \in 0 .. MaxStall
        BY ReqType DEF Request
    <2>2. req[r].pc = "hit"
        BY DEF HitWindow, At
    <2> HIDE DEF age
    <2>3. Window \in Nat /\ MaxStall \in Nat
        BY Positive
    <2>5. QED BY <2>1, <2>2, <2>3
<1>3. hits \in [Windows -> [Ages -> Nat]]
    BY DEF Typed, TypeOK
<1>4. IF Mine(r) = w THEN hits'[w] = more ELSE hits'[w] = hits[w]
    BY <1>3 DEF HitWindow
<1> HIDE DEF age
<1>5. ASSUME NEW s \in Nat
      PROVE  /\ CountIn(hits[w], s, t) \in Nat
             /\ \/ CountIn(hits'[w], s, t) = CountIn(hits[w], s, t)
                \/ Mine(r) = w /\ CountIn(hits'[w], s, t) = CountIn(hits[w], s, t) + 1
    <2>1. CountIn(hits[w], s, t) \in Nat
        BY WindowTypes
    <2>2. \/ CountIn(more, s, t) = CountIn(hits[w], s, t)
          \/ CountIn(more, s, t) = CountIn(hits[w], s, t) + 1
        <3> DEFINE h == hits[w]
                   last == Window + MaxStall
                   plus == [h EXCEPT ![age] = @ + 1]
        <3>1. Histogram(h, last) /\ age \in 0 .. last /\ t =< last
            BY <1>1, <1>2
        <3> HIDE DEF h, last
        <3>2. /\ age \in s .. t => CountIn(plus, s, t) = CountIn(h, s, t) + 1
              /\ age \notin s .. t => CountIn(plus, s, t) = CountIn(h, s, t)
            BY <1>1, <3>1, CountOneMore
        <3>3. more = plus
            BY DEF h
        <3> HIDE DEF more, plus
        <3>5. QED BY <3>2, <3>3 DEF h
    <2> HIDE DEF more
    <2>3. QED BY <1>4, <2>1, <2>2
<1>6. CountIn(hits[w], 0, t)' = CountIn(hits'[w], 0, t)
    OBVIOUS
<1>7. Passing(w, t)' = {s \in Requests :
            /\ req'[s].pc \in Stamped /\ Chain[req'[s].at] = w
            /\ req'[s].pc = "hit" \/ CountIn(hits'[w], req'[s].age, t) < Limit[w]}
    BY DEF Passing, Passes
<1>8. Passing(w, t)' \subseteq Passing(w, t) \ {r}
    <2>1. ASSUME NEW s \in Passing(w, t)'
          PROVE  s \in Passing(w, t) \ {r}
        <3>1. s \in Requests /\ s # r /\ req'[s] = req[s] /\ req[s].age \in Nat
            <4>1. s \in Requests /\ req'[s].pc \in Stamped
                BY <1>7, <2>1
            <4>2. s # r
                BY <1>7, <2>1, <4>1
            <4>3. req'[s] = req[s]
                BY <4>1, <4>2 DEF Becomes
            <4>4. req[s].age \in Nat
                BY <4>1, ReqType DEF Request
            <4>5. QED BY <4>1, <4>2, <4>3, <4>4
        <3>2. Limit[w] \in Nat
            BY WindowTypes
        <3>3. CountIn(hits'[w], req[s].age, t) < Limit[w]
                  => CountIn(hits[w], req[s].age, t) < Limit[w]
            BY <1>5, <3>1, <3>2
        <3>5. QED BY <1>7, <3>1, <3>3 DEF Passing, Passes
    <2>2. QED BY <2>1
<1>9. CASE CountIn(hits'[w], 0, t) = CountIn(hits[w], 0, t)
    BY <1>5, <1>6, <1>8, <1>9 DEF WindowEffect
<1>10. CASE Mine(r) = w /\ CountIn(hits'[w], 0, t) = CountIn(hits[w], 0, t) + 1
    <2>1. r \in Passing(w, t)
        BY <1>2, <1>10 DEF Passing, Passes, Mine, Stamped
    <2>2. CountIn(hits'[w], 0, t) \in Nat
        BY <1>5, <1>10
    <2>3. QED BY <1>6, <1>8, <1>10, <2>1, <2>2 DEF WindowEffect
<1>11. QED BY <1>5, <1>9, <1>10

--------------------------------------------------------------------------------
(* One step at a time.                                                       *)

LEMMA Together ==
    ASSUME IInv, Typed',
           \A u \in Names : TriesEffect(u),
           \A a \in Addresses : BanEffect(a),
           \A w \in Windows, t \in -1 .. Window - 1 : WindowEffect(w, t)
    PROVE  IInv'
<1>1. Typed
    BY DEF IInv
<1>2. ASSUME NEW u \in Names PROVE TriesSound(u)'
    BY <1>1, TriesStep DEF IInv
<1>3. ASSUME NEW a \in Addresses
      PROVE  \A t \in 0 .. BanTime - 1 : BanSound(a, t)' /\ FailuresSound(a, t)'
    <2>1. \A t \in 0 .. BanTime - 1 : BanSound(a, t) /\ FailuresSound(a, t)
        BY DEF IInv
    <2>2. QED BY <1>1, <2>1, BanStep
<1>4. ASSUME NEW w \in Windows, NEW t \in -1 .. Window - 1 PROVE WindowSound(w, t)'
    <2>1. \A x \in -1 .. Window - 1 : WindowSound(w, x)
        BY DEF IInv
    <2>2. QED BY <1>1, <2>1, WindowStep
<1>5. QED BY <1>2, <1>3, <1>4 DEF IInv

LEMMA TriesAlone ==
    ASSUME Typed, Typed', NEW r \in Requests, NEW q, Becomes(r, q), NEW u \in Names,
           tries'[u] = tries[u], fails'[u].n = fails[u].n,
           fails'[u].left = Gone => fails[u].left = Gone,
           Locks(req[r], u) => Locks(q, u)
    PROVE  TriesEffect(u)
<1>1. tries'[u] \in Nat /\ fails'[u].n \in Nat
    BY DEF Typed, TypeOK
<1>2. Locking(u) \subseteq Locking(u)'
    <2>1. Locking(u)' = IF Locks(q, u) THEN Locking(u) \cup {r} ELSE Locking(u) \ {r}
        BY SetsOfRequests
    <2>2. QED BY <2>1 DEF Locking
<1>3. QED BY <1>1, <1>2 DEF TriesEffect

LEMMA BansAlone ==
    ASSUME Typed, NEW r \in Requests, NEW q, Becomes(r, q), NEW a \in Addresses,
           failures'[a] = failures[a], bans'[a] = bans[a],
           Comes(q, a) => Comes(req[r], a)
    PROVE  BanEffect(a)
<1>1. Busy(a)' = IF Comes(q, a) THEN Busy(a) \cup {r} ELSE Busy(a) \ {r}
    BY SetsOfRequests
<1>2. Busy(a)' \subseteq Busy(a)
    BY <1>1 DEF Busy
<1>3. QED BY <1>2 DEF BanEffect

LEMMA Retyped ==
    ASSUME Typed, NEW r \in Requests, NEW q, Becomes(r, q),
           bans' \in [Addresses -> NoBan .. BanTime],
           failures' \in [Addresses -> [FailureAges -> Nat]],
           fails' \in [Names -> [n : Nat, left : Forever .. LockTime]],
           locks' \in [Names -> Gone .. LockTime],
           hits' \in [Windows -> [Ages -> Nat]],
           tries' \in [Names -> Nat]
    PROVE  Typed'
<1>1. req' \in [Requests -> Request]
    BY DEF Becomes
<1>2. TypeOK'
    BY <1>1 DEF TypeOK, Request
<1>3. \A s \in Requests : Placed(req'[s])
    BY ReqType DEF Becomes
<1>4. QED BY <1>2, <1>3 DEF Typed, Placed

\* Nothing but the request itself.
LEMMA QuietStep ==
    ASSUME IInv, NEW r \in Requests, NEW q, Becomes(r, q),
           UNCHANGED <<bans, failures, fails, locks, hits, tries>>,
           req[r].pc \notin {"idle", "rearm", "lock"}, q.pc = "idle" \/ q.ip = req[r].ip,
           \A w \in Windows, t \in -1 .. Window - 1 : Passes(q, w, t) => Passes(req[r], w, t)
    PROVE  IInv'
<1>1. Typed
    BY DEF IInv
<1>2. Typed'
    BY <1>1, Retyped DEF Typed, TypeOK
<1>3. ASSUME NEW u \in Names PROVE TriesEffect(u)
    BY <1>1, <1>2, TriesAlone DEF Locks
<1>4. ASSUME NEW a \in Addresses PROVE BanEffect(a)
    BY <1>1, BansAlone DEF Comes
<1>5. ASSUME NEW w \in Windows, NEW t \in -1 .. Window - 1 PROVE WindowEffect(w, t)
    BY <1>1, NoEntry
<1>6. QED BY <1>2, <1>3, <1>4, <1>5, Together

LEMMA EnterStep ==
    ASSUME IInv, NEW r \in Requests, NEW ip \in Addresses, NEW start \in Request,
           Placed(start), start.ip = ip, start.pc \in {"lock?", "ldap", "trim"},
           Enter(r, ip, start)
    PROVE  IInv'
<1>1. Typed
    BY DEF IInv
<1>2. Becomes(r, start) /\ req[r].pc = "idle"
    BY <1>1, Becoming DEF Enter, At
<1>3. /\ bans \in [Addresses -> NoBan .. BanTime]
      /\ failures \in [Addresses -> [FailureAges -> Nat]]
    BY <1>1 DEF Typed, TypeOK
<1>4. /\ bans'[ip] = NoBan /\ ~Banned(ip)
      /\ failures'[ip] = NoFailures \/ failures'[ip] = failures[ip]
      /\ \A a \in Addresses : a # ip => bans'[a] = bans[a] /\ failures'[a] = failures[a]
    BY <1>3 DEF Enter
<1>5. NoFailures \in [FailureAges -> Nat] /\ NoBan \in NoBan .. BanTime
    BY Positive DEF NoFailures, NoBan
<1>6. /\ bans' \in [Addresses -> NoBan .. BanTime]
      /\ failures' \in [Addresses -> [FailureAges -> Nat]]
    BY <1>3, <1>5 DEF Enter
<1>7. Typed'
    BY <1>1, <1>2, <1>6, Retyped DEF Typed, TypeOK, Enter
<1>8. ASSUME NEW u \in Names PROVE TriesEffect(u)
    BY <1>1, <1>2, <1>7, TriesAlone DEF Locks, Enter
<1>9. ASSUME NEW a \in Addresses PROVE BanEffect(a)
    <2>1. CASE a = ip
        BY <1>4, <2>1 DEF BanEffect
    <2>2. CASE a # ip
        BY <1>1, <1>2, <1>4, <2>2, BansAlone DEF Comes
    <2>3. QED BY <2>1, <2>2
<1>10. ASSUME NEW w \in Windows, NEW t \in -1 .. Window - 1 PROVE WindowEffect(w, t)
    BY <1>1, <1>2, NoEntry DEF Passes, Stamped, Enter
<1>11. QED BY <1>7, <1>8, <1>9, <1>10, Together

LEMMA ArriveStep ==
    ASSUME IInv, NEW r \in Requests, Arrive(r)
    PROVE  IInv'
<1>1. PICK ip \in Addresses : (\E u \in Names : Login(r, ip, u)) \/ LdapLogin(r, ip) \/ Chat(r, ip)
    BY DEF Arrive
<1>2. Idle \in Request /\ 1 \in 0 .. Len(Chain) /\ 1 \in DOMAIN Chain
    BY IdleRequest, AdmissionAssumption
<1>3. ASSUME NEW u \in Names, Login(r, ip, u) PROVE IInv'
    <2> DEFINE i == Idle
               q == [i EXCEPT !.pc = "lock?", !.ip = ip, !.name = u]
    <2>1. Enter(r, ip, q) /\ i \in Request
        BY <1>2, <1>3 DEF Login
    <2> HIDE DEF i
    <2>2. q \in Request /\ Placed(q) /\ q.ip = ip /\ q.pc = "lock?"
        BY <1>2, <2>1 DEF Request, Placed, Steps, Stamped
    <2> HIDE DEF q
    <2>3. QED BY <2>1, <2>2, EnterStep
<1>4. ASSUME LdapLogin(r, ip) PROVE IInv'
    <2> DEFINE i == Idle
               q == [i EXCEPT !.pc = "ldap", !.ip = ip]
    <2>1. Enter(r, ip, q) /\ i \in Request
        BY <1>2, <1>4 DEF LdapLogin
    <2> HIDE DEF i
    <2>2. q \in Request /\ Placed(q) /\ q.ip = ip /\ q.pc = "ldap"
        BY <1>2, <2>1 DEF Request, Placed, Steps, Stamped
    <2> HIDE DEF q
    <2>3. QED BY <2>1, <2>2, EnterStep
<1>5. ASSUME Chat(r, ip) PROVE IInv'
    <2> DEFINE i == Idle
               q == [i EXCEPT !.pc = "trim", !.ip = ip, !.at = 1]
    <2>1. Enter(r, ip, q) /\ i \in Request
        BY <1>2, <1>5 DEF Chat
    <2> HIDE DEF i
    <2>2. q \in Request /\ Placed(q) /\ q.ip = ip /\ q.pc = "trim"
        BY <1>2, <2>1 DEF Request, Placed, Steps, Stamped
    <2> HIDE DEF q
    <2>3. QED BY <2>1, <2>2, EnterStep
<1>6. QED BY <1>1, <1>3, <1>4, <1>5

(* Only the request goes on: it looks at the lock or the password, or asks   *)
(* the directory, or counts the entries of its window.                       *)
LEMMA LookStep ==
    ASSUME IInv, NEW r \in Requests,
           \/ CheckLock(r)
           \/ \E right \in BOOLEAN : Verify(r, right) \/ LdapAnswers(r, right)
    PROVE  IInv'
<1>1. Typed
    BY DEF IInv
<1>2. UNCHANGED <<bans, failures, fails, locks, hits, tries>>
    BY DEF CheckLock, Verify, LdapAnswers
<1>3. /\ req[r].pc \in {"lock?", "verify", "ldap"} /\ req[r] \in Request /\ Placed(req[r])
      /\ req[r].pc \in {"lock?", "verify"} => req[r].name \in Names
    BY <1>1, ReqType DEF CheckLock, Verify, LdapAnswers, At, Placed
<1>4. \/ Ends(r)
      \/ Goes(r, "refused")
      \/ req[r].name \in Names /\ \E pc \in {"verify", "clear", "fail"} : Goes(r, pc)
    BY <1>3 DEF CheckLock, Verify, LdapAnswers, At
<1>5. ASSUME Ends(r) PROVE IInv'
    <2>1. Becomes(r, req'[r]) /\ req'[r].pc = "idle"
        BY <1>1, <1>5, Ending
    <2>2. QED BY <1>2, <1>3, <2>1, QuietStep DEF Passes, Stamped
<1>6. ASSUME NEW pc \in {"refused", "verify", "clear", "fail"}, Goes(r, pc),
             pc # "refused" => req[r].name \in Names
      PROVE  IInv'
    <2>1. pc \in Steps
        BY DEF Steps
    <2>2. Placed([req[r] EXCEPT !.pc = pc])
        BY <1>3, <1>6 DEF Placed, Request, Stamped
    <2>3. Becomes(r, req'[r]) /\ req'[r].pc = pc /\ req'[r].ip = req[r].ip
        BY <1>1, <1>6, <2>1, <2>2, Going
    <2>4. QED BY <1>2, <1>3, <2>3, QuietStep DEF Passes, Stamped
<1>7. QED BY <1>4, <1>5, <1>6

LEMMA CountStep ==
    ASSUME IInv, NEW r \in Requests, CountWindow(r)
    PROVE  IInv'
<1> DEFINE n == CountIn(hits[Mine(r)], req[r].age, req[r].age + Window)
<1>1. Typed
    BY DEF IInv
<1>2. /\ UNCHANGED <<bans, failures, fails, locks, hits, tries>>
      /\ req[r].pc = "count"
      /\ (n < Limit[Mine(r)] /\ Goes(r, "hit")) \/ Ends(r)
    BY DEF CountWindow, At
<1>3. /\ req[r] \in Request /\ Placed(req[r]) /\ req[r].at \in DOMAIN Chain
      /\ req[r].age \in 0 .. MaxStall
    BY <1>1, <1>2, ReqType DEF Placed, Stamped, Request
<1>4. ASSUME Ends(r) PROVE IInv'
    <2>1. Becomes(r, req'[r]) /\ req'[r].pc = "idle"
        BY <1>1, <1>4, Ending
    <2>2. QED BY <1>2, <2>1, QuietStep DEF Passes, Stamped
<1>5. ASSUME n < Limit[Mine(r)], Goes(r, "hit") PROVE IInv'
    <2> HIDE DEF n
    <2>1. Placed([req[r] EXCEPT !.pc = "hit"])
        BY <1>2, <1>3 DEF Placed, Request, Stamped
    <2>2. /\ Becomes(r, req'[r]) /\ req'[r].pc = "hit" /\ req'[r].ip = req[r].ip
          /\ req'[r].at = req[r].at
        <3>1. "hit" \in Steps
            BY DEF Steps, Stamped
        <3>2. QED BY <1>1, <1>5, <2>1, <3>1, Going
    <2>3. ASSUME NEW w \in Windows, NEW t \in -1 .. Window - 1, Passes(req'[r], w, t)
          PROVE  Passes(req[r], w, t)
        <3>1. Mine(r) = w
            BY <2>2, <2>3 DEF Passes, Mine
        <3>2. /\ Histogram(hits[w], Window + MaxStall) /\ Limit[w] \in Nat
              /\ CountIn(hits[w], req[r].age, t) \in Nat
            <4>1. req[r].age \in Nat
                BY <1>3, Positive
            <4>2. QED BY <1>1, <4>1, WindowTypes
        <3>3. /\ t \in Int /\ req[r].age + Window \in Int /\ t =< req[r].age + Window
              /\ req[r].age + Window =< Window + MaxStall /\ req[r].age \in Nat
            BY <1>3, Positive
        <3>5. CountIn(hits[w], req[r].age, t) =< n /\ n \in Nat
            BY <3>1, <3>2, <3>3, CountLess, EntriesFinite DEF n
        <3>6. CountIn(hits[w], req[r].age, t) < Limit[w]
            BY <1>5, <3>1, <3>2, <3>5
        <3>7. QED BY <1>2, <3>1, <3>6 DEF Passes, Mine, Stamped
    <2>4. QED BY <1>2, <2>2, <2>3, QuietStep
<1>6. QED BY <1>2, <1>4, <1>5

LEMMA RefusalStep ==
    ASSUME IInv, NEW r \in Requests, RecordRefusal(r)
    PROVE  IInv'
<1> DEFINE ip == req[r].ip
<1>1. Typed
    BY DEF IInv
<1>2. Becomes(r, req'[r]) /\ req'[r].pc = "idle"
    BY <1>1, Ending DEF RecordRefusal
<1>3. req[r].pc = "refused" /\ ip \in Addresses
    BY <1>1, ReqType DEF RecordRefusal, At, Placed
<1>4. /\ bans \in [Addresses -> NoBan .. BanTime]
      /\ failures \in [Addresses -> [FailureAges -> Nat]]
    BY <1>1 DEF Typed, TypeOK
<1>5. /\ failures' = [failures EXCEPT ![ip] = Recent(ip)]
      /\ bans' = IF Failures(Recent(ip)) >= BanAt THEN [bans EXCEPT ![ip] = BanTime] ELSE bans
      /\ UNCHANGED <<fails, locks, hits, tries>>
    BY DEF RecordRefusal
<1>6. Recent(ip) \in [FailureAges -> Nat]
    <2>1. 0 \in 0 .. BanTime - 1
        BY Positive
    <2>2. Histogram(Recent(ip), BanTime)
        BY <1>1, <1>3, <2>1, RecentCount
    <2>3. QED BY <2>2 DEF Histogram, FailureAges
<1>7. BanTime \in NoBan .. BanTime
    BY Positive DEF NoBan
<1>8. Typed'
    <2>1. /\ bans' \in [Addresses -> NoBan .. BanTime]
          /\ failures' \in [Addresses -> [FailureAges -> Nat]]
        BY <1>3, <1>4, <1>5, <1>6, <1>7
    <2>2. QED BY <1>1, <1>2, <1>5, <2>1, Retyped DEF Typed, TypeOK
<1>9. ASSUME NEW u \in Names PROVE TriesEffect(u)
    BY <1>1, <1>2, <1>3, <1>5, <1>8, TriesAlone DEF Locks
<1>10. ASSUME NEW a \in Addresses PROVE BanEffect(a)
    <2>1. CASE a = ip
        <3>1. /\ failures'[a] = Recent(a)
              /\ bans'[a] = IF Failures(Recent(a)) >= BanAt THEN BanTime ELSE bans[a]
            BY <1>3, <1>4, <1>5, <2>1
        <3>2. r \in Busy(a)
            BY <1>3, <2>1 DEF Busy, Comes
        <3>3. Busy(a)' = Busy(a) \ {r}
            BY <1>1, <1>2, SetsOfRequests DEF Comes
        <3>5. QED BY <3>1, <3>2, <3>3 DEF BanEffect
    <2>2. CASE a # ip
        BY <1>1, <1>2, <1>4, <1>5, <2>2, BansAlone DEF Comes
    <2>3. QED BY <2>1, <2>2
<1>11. ASSUME NEW w \in Windows, NEW t \in -1 .. Window - 1 PROVE WindowEffect(w, t)
    BY <1>1, <1>2, <1>5, NoEntry DEF Passes, Stamped
<1>12. QED BY <1>8, <1>9, <1>10, <1>11, Together

--------------------------------------------------------------------------------
(* The counter of a name and its lock.                                       *)

LEMMA CounterTypes ==
    ASSUME Typed, NEW u \in Names
    PROVE  /\ fails \in [Names -> [n : Nat, left : Forever .. LockTime]]
           /\ tries \in [Names -> Nat] /\ locks \in [Names -> Gone .. LockTime]
           /\ fails[u] \in [n : Nat, left : Forever .. LockTime]
           /\ Gone = 0 /\ Forever = -1 /\ LockTime \in Nat \ {0} /\ LockAt \in Nat \ {0}
BY Positive DEF Typed, TypeOK, Gone, Forever

LEMMA ClearStep ==
    ASSUME IInv, NEW r \in Requests, ClearFailures(r)
    PROVE  IInv'
<1> DEFINE u == req[r].name
<1>1. Typed
    BY DEF IInv
<1>2. Becomes(r, req'[r]) /\ req'[r].pc = "idle"
    BY <1>1, Ending DEF ClearFailures
<1>3. req[r].pc = "clear" /\ u \in Names
    BY <1>1, ReqType DEF ClearFailures, At, Placed
<1>4. /\ fails' = [fails EXCEPT ![u] = NoCounter] /\ tries' = [tries EXCEPT ![u] = 0]
      /\ UNCHANGED <<bans, failures, locks, hits>>
    BY DEF ClearFailures
<1>5. NoCounter \in [n : Nat, left : Forever .. LockTime] /\ NoCounter.n = 0
    BY <1>1, <1>3, CounterTypes DEF NoCounter
<1> HIDE DEF u
<1>6. Typed'
    <2>1. /\ fails' \in [Names -> [n : Nat, left : Forever .. LockTime]]
          /\ tries' \in [Names -> Nat]
        BY <1>1, <1>3, <1>4, <1>5, CounterTypes
    <2>2. QED BY <1>1, <1>2, <1>4, <2>1, Retyped DEF Typed, TypeOK
<1>7. ASSUME NEW v \in Names PROVE TriesEffect(v)
    <2>1. CASE v = u
        BY <1>1, <1>3, <1>4, <1>5, <2>1, CounterTypes DEF TriesEffect
    <2>2. CASE v # u
        <3>1. tries'[v] = tries[v] /\ fails'[v] = fails[v]
            BY <1>1, <1>4, <2>2, CounterTypes
        <3>2. QED BY <1>1, <1>2, <1>3, <1>6, <3>1, TriesAlone DEF Locks
    <2>3. QED BY <2>1, <2>2
<1>8. ASSUME NEW a \in Addresses PROVE BanEffect(a)
    BY <1>1, <1>2, <1>4, BansAlone DEF Comes
<1>9. ASSUME NEW w \in Windows, NEW t \in -1 .. Window - 1 PROVE WindowEffect(w, t)
    BY <1>1, <1>2, <1>4, NoEntry DEF Passes, Stamped
<1>10. QED BY <1>6, <1>7, <1>8, <1>9, Together

(* increment.                                                                *)
LEMMA Incremented ==
    ASSUME NEW c \in [n : Nat, left : Forever .. LockTime]
    PROVE  /\ Increment(c) \in [n : Nat, left : Forever .. LockTime]
           /\ Increment(c).left # Gone
           /\ c.left # Gone => Increment(c).n = c.n + 1
           /\ c.left = Gone => Increment(c).n = 1
BY Positive DEF Increment, Gone, Forever

(* The counter grows, and a request that reads enough is on its way to lock. *)
LEMMA CountFailureStep ==
    ASSUME IInv, NEW r \in Requests, CountFailure(r)
    PROVE  IInv'
<1> DEFINE u == req[r].name
           c == Increment(fails[u])
           p == [req[r] EXCEPT !.pc = "rearm"]
           q == [p EXCEPT !.n = c.n]
<1>1. Typed
    BY DEF IInv
<1>2. req[r].pc = "fail" /\ u \in Names /\ req[r] \in Request /\ Placed(req[r])
    BY <1>1, ReqType DEF CountFailure, At, Placed
<1>3. fails[u] \in [n : Nat, left : Forever .. LockTime]
    BY <1>1, <1>2, CounterTypes
<1>4. /\ fails' = [fails EXCEPT ![u] = c] /\ tries' = [tries EXCEPT ![u] = tries[u] + 1]
      /\ req' = [req EXCEPT ![r] = q] /\ UNCHANGED <<bans, failures, locks, hits>>
    BY <1>2, ReqType DEF CountFailure
<1>5. /\ c \in [n : Nat, left : Forever .. LockTime] /\ c.left # Gone /\ c.n \in Nat
      /\ fails[u].left # Gone => c.n = fails[u].n + 1
      /\ fails[u].left = Gone => c.n = 1
    BY <1>3, Incremented
<1>6. Becomes(r, q) /\ q.pc = "rearm" /\ q.name = u /\ q.n = c.n /\ q.ip = req[r].ip
    <2>1. "rearm" \in Steps
        BY DEF Steps
    <2>2. p \in Request /\ p.pc = "rearm" /\ p.ip = req[r].ip /\ p.name = u
        BY <1>2, <2>1, SetPc, Zenon
    <2> HIDE DEF p
    <2>3. q \in Request /\ q.pc = p.pc /\ q.ip = p.ip /\ q.name = p.name /\ q.n = c.n
        BY <1>5, <2>2, SetCount, Zenon
    <2> HIDE DEF q
    <2>4. Placed(q)
        BY <1>2, <2>2, <2>3 DEF Placed, Stamped
    <2>5. QED BY <1>1, <1>4, <2>2, <2>3, <2>4, Becoming
<1> HIDE DEF u, c, p, q
<1>7. Typed'
    <2>1. /\ fails' \in [Names -> [n : Nat, left : Forever .. LockTime]]
          /\ tries' \in [Names -> Nat]
        BY <1>1, <1>2, <1>4, <1>5, CounterTypes
    <2>2. QED BY <1>1, <1>4, <1>6, <2>1, Retyped DEF Typed, TypeOK
<1>8. ASSUME NEW v \in Names PROVE TriesEffect(v)
    <2>1. CASE v = u
        <3>1. fails'[v] = c /\ tries'[v] = tries[v] + 1 /\ tries[v] \in Nat
            BY <1>1, <1>2, <1>4, <2>1, CounterTypes
        <3>2. r \in Requests \ Locking(v)
            BY <1>2 DEF Locking, Locks
        <3>3. Locks(q, v) <=> c.n >= LockAt
            BY <1>6, <2>1 DEF Locks
        <3>5. Locking(v)' = IF Locks(q, v) THEN Locking(v) \cup {r} ELSE Locking(v) \ {r}
            BY <1>1, <1>6, SetsOfRequests
        <3>6. Locking(v)' = IF fails'[v].n >= LockAt THEN Locking(v) \cup {r} ELSE Locking(v)
            BY <3>1, <3>2, <3>3, <3>5
        <3>7. tries'[v] \in Nat /\ fails'[v].n \in Nat
            BY <1>5, <3>1
        <3>8. QED BY <1>5, <2>1, <3>1, <3>2, <3>6, <3>7 DEF TriesEffect
    <2>2. CASE v # u
        <3>1. tries'[v] = tries[v] /\ fails'[v] = fails[v]
            BY <1>1, <1>4, <2>2, CounterTypes
        <3>2. QED BY <1>1, <1>2, <1>6, <1>7, <3>1, TriesAlone DEF Locks
    <2>3. QED BY <2>1, <2>2
<1>9. ASSUME NEW a \in Addresses PROVE BanEffect(a)
    BY <1>1, <1>2, <1>4, <1>6, BansAlone DEF Comes
<1>10. ASSUME NEW w \in Windows, NEW t \in -1 .. Window - 1 PROVE WindowEffect(w, t)
    BY <1>1, <1>4, <1>6, NoEntry DEF Passes, Stamped
<1>11. QED BY <1>7, <1>8, <1>9, <1>10, Together

(* expire keeps the count, and whether there is one.                         *)
LEMMA Expired ==
    ASSUME NEW c \in [n : Nat, left : Forever .. LockTime]
    PROVE  /\ Expire(c, LockTime) \in [n : Nat, left : Forever .. LockTime]
           /\ Expire(c, LockTime).n = c.n
           /\ Expire(c, LockTime).left = Gone => c.left = Gone
BY Positive DEF Expire, Gone, Forever

LEMMA RearmStep ==
    ASSUME IInv, NEW r \in Requests, RearmFailures(r)
    PROVE  IInv'
<1> DEFINE u == req[r].name
           c == Expire(fails[u], LockTime)
           pc == IF req[r].n >= LockAt THEN "lock" ELSE "refused"
           p == [req[r] EXCEPT !.pc = pc]
           q == [p EXCEPT !.n = 0]
<1>1. Typed
    BY DEF IInv
<1>2. req[r].pc = "rearm" /\ u \in Names /\ req[r] \in Request /\ Placed(req[r])
    BY <1>1, ReqType DEF RearmFailures, At, Placed
<1>3. fails[u] \in [n : Nat, left : Forever .. LockTime]
    BY <1>1, <1>2, CounterTypes
<1>4. /\ fails' = [fails EXCEPT ![u] = c] /\ req' = [req EXCEPT ![r] = q]
      /\ UNCHANGED <<bans, failures, locks, hits, tries>>
    BY <1>2, ReqType DEF RearmFailures
<1>5. /\ c \in [n : Nat, left : Forever .. LockTime] /\ c.n = fails[u].n
      /\ c.left = Gone => fails[u].left = Gone
    BY <1>3, Expired
<1>6. pc \in {"lock", "refused"} /\ (req[r].n >= LockAt => pc = "lock") /\ pc \in Steps
    BY DEF Steps
<1> HIDE DEF u, c, pc
<1>7. Becomes(r, q) /\ q.pc = pc /\ q.name = req[r].name /\ q.ip = req[r].ip
    <2>1. p \in Request /\ p.pc = pc /\ p.ip = req[r].ip /\ p.name = req[r].name
        BY <1>2, <1>6, SetPc, Zenon
    <2> HIDE DEF p
    <2>2. 0 \in Nat
        OBVIOUS
    <2>3. q \in Request /\ q.pc = p.pc /\ q.ip = p.ip /\ q.name = p.name
        BY <2>1, <2>2, SetCount, Zenon
    <2> HIDE DEF q
    <2>5. Placed(q)
        BY <1>2, <1>6, <2>1, <2>3 DEF Placed, Stamped, u
    <2>6. QED BY <1>1, <1>4, <2>1, <2>3, <2>5, Becoming
<1> HIDE DEF p, q
<1>8. Typed'
    <2>1. fails' \in [Names -> [n : Nat, left : Forever .. LockTime]]
        BY <1>1, <1>2, <1>4, <1>5, CounterTypes
    <2>2. QED BY <1>1, <1>4, <1>7, <2>1, Retyped DEF Typed, TypeOK
<1>9. ASSUME NEW v \in Names PROVE TriesEffect(v)
    <2>1. /\ tries'[v] = tries[v] /\ fails'[v].n = fails[v].n
          /\ fails'[v].left = Gone => fails[v].left = Gone
        <3>1. CASE v = u
            BY <1>1, <1>2, <1>4, <1>5, <3>1, CounterTypes
        <3>2. CASE v # u
            BY <1>1, <1>4, <3>2, CounterTypes
        <3>3. QED BY <3>1, <3>2
    <2>2. Locks(req[r], v) => Locks(q, v)
        BY <1>2, <1>6, <1>7 DEF Locks
    <2>3. QED BY <1>1, <1>7, <1>8, <2>1, <2>2, TriesAlone
<1>10. ASSUME NEW a \in Addresses PROVE BanEffect(a)
    BY <1>1, <1>2, <1>4, <1>7, BansAlone DEF Comes
<1>11. ASSUME NEW w \in Windows, NEW t \in -1 .. Window - 1 PROVE WindowEffect(w, t)
    BY <1>1, <1>4, <1>6, <1>7, NoEntry DEF Passes, Stamped
<1>12. QED BY <1>8, <1>9, <1>10, <1>11, Together

LEMMA LockStep ==
    ASSUME IInv, NEW r \in Requests, SetLock(r)
    PROVE  IInv'
<1> DEFINE u == req[r].name
<1>1. Typed
    BY DEF IInv
<1>2. req[r].pc = "lock" /\ u \in Names /\ req[r] \in Request /\ Placed(req[r])
    BY <1>1, ReqType DEF SetLock, At, Placed
<1>3. /\ Goes(r, "refused") /\ UNCHANGED <<bans, failures, fails, hits>>
      /\ locks' = [locks EXCEPT ![u] = LockTime] /\ tries' = [tries EXCEPT ![u] = 0]
    BY DEF SetLock, SetWithTtl
<1> HIDE DEF u
<1>4. Becomes(r, req'[r]) /\ req'[r].pc = "refused" /\ req'[r].ip = req[r].ip
    <2>1. Placed([req[r] EXCEPT !.pc = "refused"])
        BY <1>2 DEF Placed, Request, Stamped
    <2>2. "refused" \in Steps
        BY DEF Steps
    <2>3. QED BY <1>1, <1>3, <2>1, <2>2, Going
<1>5. Typed'
    <2>1. locks' \in [Names -> Gone .. LockTime] /\ tries' \in [Names -> Nat]
        BY <1>1, <1>2, <1>3, CounterTypes
    <2>2. QED BY <1>1, <1>3, <1>4, <2>1, Retyped DEF Typed, TypeOK
<1>6. ASSUME NEW v \in Names PROVE TriesEffect(v)
    <2>1. CASE v = u
        BY <1>1, <1>2, <1>3, <2>1, CounterTypes DEF TriesEffect
    <2>2. CASE v # u
        <3>1. tries'[v] = tries[v]
            BY <1>1, <1>3, <2>2, CounterTypes
        <3>2. QED BY <1>1, <1>2, <1>3, <1>4, <1>5, <2>2, <3>1, TriesAlone DEF Locks, u
    <2>3. QED BY <2>1, <2>2
<1>7. ASSUME NEW a \in Addresses PROVE BanEffect(a)
    BY <1>1, <1>2, <1>3, <1>4, BansAlone DEF Comes
<1>8. ASSUME NEW w \in Windows, NEW t \in -1 .. Window - 1 PROVE WindowEffect(w, t)
    BY <1>1, <1>3, <1>4, NoEntry DEF Passes, Stamped
<1>9. QED BY <1>5, <1>6, <1>7, <1>8, Together

--------------------------------------------------------------------------------
(* The windows, one after another.                                           *)

LEMMA HitTypes ==
    ASSUME Typed, NEW r \in Requests, req[r].pc \in {"trim"} \cup Stamped
    PROVE  /\ req[r] \in Request /\ Placed(req[r]) /\ req[r].at \in DOMAIN Chain
           /\ req[r].at \in 1 .. Len(Chain) /\ Len(Chain) \in Nat
           /\ Mine(r) \in Windows
           /\ req[r].ip \in Addresses
           /\ hits \in [Windows -> [Ages -> Nat]] /\ hits[Mine(r)] \in [Ages -> Nat]
<1>1. req[r] \in Request /\ Placed(req[r]) /\ req[r].at \in DOMAIN Chain
    BY ReqType DEF Placed
<1>2. req[r].ip \in Addresses
    BY <1>1 DEF Placed, Stamped
<1>3. req[r].at \in 1 .. Len(Chain) /\ Len(Chain) \in Nat
    BY <1>1, AdmissionAssumption
<1>4. Mine(r) \in Windows
    BY <1>1 DEF Mine, Windows
<1>5. QED BY <1>1, <1>2, <1>3, <1>4 DEF Typed, TypeOK

LEMMA TrimStep ==
    ASSUME IInv, NEW r \in Requests, TrimWindow(r)
    PROVE  IInv'
<1> DEFINE p == [req[r] EXCEPT !.pc = "count"]
           q == [p EXCEPT !.age = 0]
<1>1. Typed
    BY DEF IInv
<1>2. req[r].pc = "trim"
    BY DEF TrimWindow, At
<1>3. req[r] \in Request /\ Placed(req[r]) /\ req[r].at \in DOMAIN Chain /\ req[r].ip \in Addresses
    BY <1>1, <1>2, HitTypes
<1>4. req' = [req EXCEPT ![r] = q] /\ UNCHANGED <<bans, failures, fails, locks, tries>>
    BY <1>1, ReqType DEF TrimWindow
<1>5. Becomes(r, q) /\ q.pc = "count" /\ q.age = 0 /\ q.at = req[r].at /\ q.ip = req[r].ip
    <2>1. "count" \in Steps /\ 0 \in 0 .. MaxStall
        BY Positive DEF Steps, Stamped
    <2>2. p \in Request /\ p.pc = "count" /\ p.ip = req[r].ip /\ p.at = req[r].at
        BY <1>3, <2>1, SetPc, Zenon
    <2> HIDE DEF p
    <2>3. q \in Request /\ q.pc = p.pc /\ q.ip = p.ip /\ q.at = p.at /\ q.age = 0
        BY <2>1, <2>2, SetAge, Zenon
    <2> HIDE DEF q
    <2>5. Placed(q)
        BY <1>3, <2>2, <2>3 DEF Placed, Stamped
    <2>6. QED BY <1>1, <1>4, <2>2, <2>3, <2>5, Becoming
<1> HIDE DEF p, q
<1>6. req'[r] = q
    BY <1>5 DEF Becomes
<1>7. Typed'
    <2> DEFINE young == Young(hits[Mine(r)], Window)
    <2>1. young \in [Ages -> Nat]
        BY <1>1, <1>2, HitTypes DEF Young
    <2>2. hits' = [hits EXCEPT ![Mine(r)] = young]
        BY DEF TrimWindow
    <2> HIDE DEF young
    <2>3. hits' \in [Windows -> [Ages -> Nat]]
        BY <1>1, <1>2, <2>1, <2>2, HitTypes
    <2>4. QED BY <1>1, <1>4, <1>5, <2>3, Retyped DEF Typed, TypeOK
<1>8. ASSUME NEW u \in Names PROVE TriesEffect(u)
    BY <1>1, <1>2, <1>4, <1>5, <1>7, TriesAlone DEF Locks
<1>9. ASSUME NEW a \in Addresses PROVE BanEffect(a)
    BY <1>1, <1>2, <1>4, <1>5, BansAlone DEF Comes
<1>10. ASSUME NEW w \in Windows, NEW t \in -1 .. Window - 1 PROVE WindowEffect(w, t)
    BY <1>1, <1>5, <1>6, Trimming
<1>11. QED BY <1>7, <1>8, <1>9, <1>10, Together

LEMMA HitStep ==
    ASSUME IInv, NEW r \in Requests, HitWindow(r)
    PROVE  IInv'
<1> DEFINE p == [req[r] EXCEPT !.pc = "trim"]
           o == [p EXCEPT !.at = req[r].at + 1]
           q == [o EXCEPT !.age = 0]
<1>1. Typed
    BY DEF IInv
<1>2. req[r].pc = "hit" /\ req[r].pc \in Stamped
    BY DEF HitWindow, At, Stamped
<1>3. /\ req[r] \in Request /\ Placed(req[r]) /\ req[r].at \in 1 .. Len(Chain)
      /\ Len(Chain) \in Nat /\ req[r].ip \in Addresses
    BY <1>1, <1>2, HitTypes
<1>4. UNCHANGED <<bans, failures, fails, locks, tries>>
    BY DEF HitWindow
<1>5. /\ Becomes(r, req'[r])
      /\ req'[r].pc = "idle" \/ (req'[r].pc = "trim" /\ req'[r].ip = req[r].ip)
    <2>1. CASE Ends(r)
        BY <1>1, <2>1, Ending
    <2>2. CASE req[r].at < Len(Chain) /\ req' = [req EXCEPT ![r] = q]
        <3>1. /\ "trim" \in Steps /\ 0 \in 0 .. MaxStall /\ req[r].at + 1 \in 0 .. Len(Chain)
              /\ req[r].at + 1 \in 1 .. Len(Chain)
            <4> DEFINE i == req[r].at
                       n == Len(Chain)
            <4>1. n \in Nat /\ i \in 1 .. n /\ i < n
                BY <1>3, <2>2
            <4> HIDE DEF i, n
            <4>2. i + 1 \in 0 .. n /\ i + 1 \in 1 .. n
                BY <4>1
            <4>3. "trim" \in Steps /\ 0 \in 0 .. MaxStall
                BY Positive DEF Steps
            <4>4. QED BY <4>2, <4>3 DEF i, n
        <3>2. p \in Request /\ p.pc = "trim" /\ p.ip = req[r].ip
            BY <1>3, <3>1, SetPc, Zenon
        <3> HIDE DEF p
        <3>3. o \in Request /\ o.pc = p.pc /\ o.ip = p.ip /\ o.at = req[r].at + 1
            BY <3>1, <3>2, SetPlace, Zenon
        <3> HIDE DEF o
        <3>5. q \in Request /\ q.pc = o.pc /\ q.ip = o.ip /\ q.at = o.at
            BY <3>1, <3>3, SetAge, Zenon
        <3> HIDE DEF q
        <3>6. req[r].at + 1 \in DOMAIN Chain
            BY <3>1, AdmissionAssumption
        <3>7. Placed(q)
            BY <1>3, <3>2, <3>3, <3>5, <3>6 DEF Placed, Stamped
        <3>8. Becomes(r, q)
            BY <1>1, <2>2, <3>5, <3>7, Becoming
        <3>9. req'[r] = q
            BY <3>8 DEF Becomes
        <3>10. QED BY <3>2, <3>3, <3>5, <3>8, <3>9
    <2>3. Ends(r) \/ (req[r].at < Len(Chain) /\ req' = [req EXCEPT ![r] = q])
        BY <1>1, ReqType DEF HitWindow
    <2>5. QED BY <2>1, <2>2, <2>3
<1>6. Typed'
    <2> DEFINE age == req[r].age
               more == [hits[Mine(r)] EXCEPT ![age] = @ + 1]
    <2>1. age \in Ages
        <3>1. age \in 0 .. MaxStall
            BY <1>3 DEF Request
        <3> HIDE DEF age
        <3>2. QED BY <3>1, Positive DEF Ages
    <2>2. hits \in [Windows -> [Ages -> Nat]] /\ hits[Mine(r)] \in [Ages -> Nat]
        BY <1>1, <1>2, HitTypes
    <2>3. hits' = [hits EXCEPT ![Mine(r)] = more]
        BY <1>1, <1>2, HitTypes DEF HitWindow
    <2> HIDE DEF age
    <2>5. more \in [Ages -> Nat]
        BY <2>1, <2>2
    <2> HIDE DEF more
    <2>6. hits' \in [Windows -> [Ages -> Nat]]
        BY <2>2, <2>3, <2>5
    <2>7. QED BY <1>1, <1>4, <1>5, <2>6, Retyped DEF Typed, TypeOK
<1>7. ASSUME NEW u \in Names PROVE TriesEffect(u)
    BY <1>1, <1>2, <1>4, <1>5, <1>6, TriesAlone DEF Locks
<1>8. ASSUME NEW a \in Addresses PROVE BanEffect(a)
    BY <1>1, <1>2, <1>4, <1>5, BansAlone DEF Comes
<1>9. ASSUME NEW w \in Windows, NEW t \in -1 .. Window - 1 PROVE WindowEffect(w, t)
    BY <1>1, <1>5, Hitting DEF Stamped
<1>10. QED BY <1>6, <1>7, <1>8, <1>9, Together

--------------------------------------------------------------------------------
(* The steps no request takes.                                               *)

LEMMA SameRequests ==
    ASSUME req' = req
    PROVE  (\A u : Locking(u)' = Locking(u)) /\ (\A a : Busy(a)' = Busy(a))
BY DEF Locking, Locks, Busy, Comes

LEMMA SameWindows ==
    ASSUME Typed, req' = req, hits' = hits, NEW w \in Windows, NEW t \in -1 .. Window - 1
    PROVE  WindowEffect(w, t)
<1>1. CountIn(hits[w], 0, t)' = CountIn(hits[w], 0, t)
    BY DEF CountIn, Entries
<1>2. Passing(w, t)' = Passing(w, t)
    BY DEF Passing, Passes
<1>3. CountIn(hits[w], 0, t) \in Nat
    BY WindowTypes
<1>4. QED BY <1>1, <1>2, <1>3 DEF WindowEffect

LEMMA UnbanStep ==
    ASSUME IInv, NEW ip \in Addresses, Unban(ip)
    PROVE  IInv'
<1>1. Typed
    BY DEF IInv
<1>2. /\ bans' = [bans EXCEPT ![ip] = NoBan] /\ failures' = [failures EXCEPT ![ip] = NoFailures]
      /\ UNCHANGED <<fails, locks, hits, req, tries>>
    BY DEF Unban
<1>3. /\ bans \in [Addresses -> NoBan .. BanTime]
      /\ failures \in [Addresses -> [FailureAges -> Nat]]
    BY <1>1 DEF Typed, TypeOK
<1>4. NoFailures \in [FailureAges -> Nat] /\ NoBan \in NoBan .. BanTime
    BY Positive DEF NoFailures, NoBan
<1>5. Typed'
    <2>1. /\ bans' \in [Addresses -> NoBan .. BanTime]
          /\ failures' \in [Addresses -> [FailureAges -> Nat]]
        BY <1>2, <1>3, <1>4
    <2>2. TypeOK'
        BY <1>1, <1>2, <2>1 DEF Typed, TypeOK
    <2>3. QED BY <1>1, <1>2, <2>2 DEF Typed, Placed
<1>6. ASSUME NEW u \in Names PROVE TriesEffect(u)
    <2>1. tries[u] \in Nat /\ fails[u].n \in Nat
        BY <1>1, CounterTypes
    <2>2. QED BY <1>2, <2>1, SameRequests DEF TriesEffect
<1>7. ASSUME NEW a \in Addresses PROVE BanEffect(a)
    <2>1. CASE a = ip
        BY <1>2, <1>3, <2>1 DEF BanEffect
    <2>2. CASE a # ip
        BY <1>2, <1>3, <2>2, SameRequests DEF BanEffect
    <2>3. QED BY <2>1, <2>2
<1>8. ASSUME NEW w \in Windows, NEW t \in -1 .. Window - 1 PROVE WindowEffect(w, t)
    BY <1>1, <1>2, SameWindows
<1>9. QED BY <1>5, <1>6, <1>7, <1>8, Together

LEMMA StutterStep ==
    ASSUME IInv, UNCHANGED vars
    PROVE  IInv'
<1>1. Typed
    BY DEF IInv
<1>2. UNCHANGED <<bans, failures, fails, locks, hits, req, tries>>
    BY DEF vars
<1>3. Typed'
    BY <1>1, <1>2 DEF Typed, TypeOK, Placed
<1>4. ASSUME NEW u \in Names PROVE TriesEffect(u)
    <2>1. tries[u] \in Nat /\ fails[u].n \in Nat
        BY <1>1, CounterTypes
    <2>2. QED BY <1>2, <2>1, SameRequests DEF TriesEffect
<1>5. ASSUME NEW a \in Addresses PROVE BanEffect(a)
    BY <1>2, SameRequests DEF BanEffect
<1>6. ASSUME NEW w \in Windows, NEW t \in -1 .. Window - 1 PROVE WindowEffect(w, t)
    BY <1>1, <1>2, SameWindows
<1>7. QED BY <1>3, <1>4, <1>5, <1>6, Together

(* A tick makes every request at its window, and every entry, older by one.  *)
LEMMA Aging ==
    ASSUME Typed, Tick, NEW s \in Requests
    PROVE  /\ req'[s] \in Request /\ Placed(req'[s])
           /\ req'[s].pc = req[s].pc /\ req'[s].ip = req[s].ip /\ req'[s].name = req[s].name
           /\ req'[s].n = req[s].n /\ req'[s].at = req[s].at
           /\ req[s].pc \in Stamped => req'[s].age = req[s].age + 1
<1> DEFINE q == [req[s] EXCEPT !.age = req[s].age + 1]
<1>1. req[s] \in Request /\ Placed(req[s])
    BY ReqType
<1>2. req'[s] = IF req[s].pc \in Stamped THEN q ELSE req[s]
    BY <1>1 DEF Tick
<1>3. CASE req[s].pc \in Stamped
    <2>1. req[s].age < MaxStall
        BY <1>3 DEF Tick
    <2>2. req[s].age + 1 \in 0 .. MaxStall
        <3>1. req[s].age \in 0 .. MaxStall
            BY <1>1 DEF Request
        <3>2. QED BY <2>1, <3>1, Positive
    <2>3. /\ q \in Request /\ q.pc = req[s].pc /\ q.ip = req[s].ip /\ q.name = req[s].name
          /\ q.n = req[s].n /\ q.at = req[s].at /\ q.age = req[s].age + 1
        BY <1>1, <2>2, SetAge, Zenon
    <2> HIDE DEF q
    <2>4. Placed(q)
        BY <1>1, <2>3 DEF Placed
    <2>5. QED BY <1>2, <1>3, <2>3, <2>4
<1>4. CASE req[s].pc \notin Stamped
    BY <1>1, <1>2, <1>4
<1>5. QED BY <1>3, <1>4

LEMMA TickTypes ==
    ASSUME Typed, Tick
    PROVE  Typed'
<1>1. bans' \in [Addresses -> NoBan .. BanTime]
    <2>1. \A a \in Addresses : bans[a] \in NoBan .. BanTime
        BY DEF Typed, TypeOK
    <2>2. \A a \in Addresses : (IF bans[a] > 0 THEN bans[a] - 1 ELSE bans[a]) \in NoBan .. BanTime
        BY <2>1, Positive DEF NoBan
    <2>3. QED BY <2>2 DEF Tick
<1>2. failures' \in [Addresses -> [FailureAges -> Nat]]
    <2>1. ASSUME NEW a \in Addresses PROVE Older(failures[a]) \in [FailureAges -> Nat]
        BY Positive DEF Typed, TypeOK, Older, FailureAges
    <2>2. QED BY <2>1 DEF Tick
<1>3. fails' \in [Names -> [n : Nat, left : Forever .. LockTime]]
    <2>1. ASSUME NEW u \in Names
          PROVE  AgedOr(fails[u], NoCounter) \in [n : Nat, left : Forever .. LockTime]
        BY CounterTypes DEF AgedOr, Aged, NoCounter
    <2>2. QED BY <2>1 DEF Tick
<1>4. locks' \in [Names -> Gone .. LockTime]
    <2>1. ASSUME NEW u \in Names PROVE Aged(locks[u]) \in Gone .. LockTime
        BY CounterTypes DEF Aged
    <2>2. QED BY <2>1 DEF Tick
<1>5. hits' \in [Windows -> [Ages -> Nat]]
    <2>1. ASSUME NEW w \in Windows PROVE Older(hits[w]) \in [Ages -> Nat]
        BY Positive DEF Typed, TypeOK, Older, Ages
    <2>2. QED BY <2>1 DEF Tick
<1>6. tries' \in [Names -> Nat]
    BY CounterTypes DEF Tick
<1>7. req' \in [Requests -> Request] /\ \A s \in Requests : Placed(req'[s])
    <2>1. req' = [s \in Requests |-> req'[s]]
        BY DEF Tick
    <2>2. QED BY <2>1, Aging
<1>8. TypeOK'
    BY <1>1, <1>2, <1>3, <1>4, <1>5, <1>6, <1>7 DEF TypeOK, Request
<1>9. QED BY <1>7, <1>8 DEF Typed, Placed

LEMMA TickStep ==
    ASSUME IInv, Tick
    PROVE  IInv'
<1>1. Typed /\ Typed'
    BY TickTypes DEF IInv
<1>2. ASSUME NEW u \in Names PROVE TriesEffect(u)
    <2>1. tries'[u] \in Nat /\ fails'[u].n \in Nat
        BY <1>1 DEF Typed, TypeOK
    <2>2. CASE Aged(fails[u].left) = Gone
        BY <2>1, <2>2 DEF Tick, TriesEffect
    <2>3. CASE Aged(fails[u].left) # Gone
        <3>1. tries'[u] = tries[u] /\ fails'[u] = [fails[u] EXCEPT !.left = Aged(fails[u].left)]
            BY <1>1, <2>3, CounterTypes DEF Tick, AgedOr
        <3>2. fails'[u].n = fails[u].n /\ fails'[u].left # Gone
            BY <1>1, <2>3, <3>1, CounterTypes
        <3>3. Locking(u)' = {s \in Requests : Locks(req'[s], u)}
            BY DEF Locking, Locks
        <3>4. Locking(u)' = Locking(u)
            BY <1>1, <3>3, Aging DEF Locking, Locks
        <3>5. QED BY <2>1, <3>1, <3>2, <3>4 DEF TriesEffect
    <2>4. QED BY <2>2, <2>3
<1>3. ASSUME NEW a \in Addresses PROVE BanEffect(a)
    <2>1. Busy(a)' = {s \in Requests : Comes(req'[s], a)}
        BY DEF Busy, Comes
    <2>2. Busy(a)' = Busy(a)
        BY <1>1, <2>1, Aging DEF Busy, Comes
    <2>3. QED BY <2>2 DEF BanEffect, Tick
<1>4. ASSUME NEW w \in Windows, NEW t \in -1 .. Window - 1 PROVE WindowEffect(w, t)
    <2>1. hits'[w] = Older(hits[w])
        BY DEF Tick
    <2>2. CountIn(hits[w], 0, t)' = CountIn(hits'[w], 0, t)
        OBVIOUS
    <2>3. CASE t = -1
        <3>1. CountIn(hits'[w], 0, t) = 0
            <4>1. \A x \in 0 .. t : hits'[w][x] = 0
                BY <2>3
            <4>2. 0 \in Nat /\ t \in Int
                BY <2>3
            <4>3. QED BY <4>1, <4>2, CountNone
        <3>2. 0 \in Nat /\ 0 < Limit[w]
            BY <1>1, WindowTypes
        <3>3. QED BY <2>2, <3>1, <3>2 DEF WindowEffect
    <2>4. CASE t # -1
        <3>1. /\ t - 1 \in -1 .. Window - 1 /\ t - 1 \in Int /\ (t - 1) + 1 = t
              /\ t - 1 < Window + MaxStall
            BY <1>1, <2>4, WindowTypes
        <3>2. Histogram(hits[w], Window + MaxStall) /\ CountIn(hits[w], 0, t - 1) \in Nat
            BY <1>1, <3>1, WindowTypes
        <3>3. ASSUME NEW x \in Nat
              PROVE  /\ CountIn(hits'[w], x + 1, t) = CountIn(hits[w], x, t - 1)
                     /\ CountIn(hits'[w], 0, t) = CountIn(hits[w], 0, t - 1)
            <4>1. /\ CountIn(Older(hits[w]), x + 1, (t - 1) + 1) = CountIn(hits[w], x, t - 1)
                  /\ CountIn(Older(hits[w]), 0, (t - 1) + 1) = CountIn(hits[w], 0, t - 1)
                BY <3>1, <3>2, CountOlder
            <4>2. QED BY <2>1, <3>1, <4>1
        <3>4. Passing(w, t)' = {s \in Requests :
                    /\ req'[s].pc \in Stamped /\ Chain[req'[s].at] = w
                    /\ req'[s].pc = "hit" \/ CountIn(hits'[w], req'[s].age, t) < Limit[w]}
            BY DEF Passing, Passes
        <3>5. ASSUME NEW s \in Passing(w, t)' PROVE s \in Passing(w, t - 1)
            <4>1. s \in Requests /\ req'[s].pc \in Stamped /\ Chain[req'[s].at] = w
                BY <3>4
            <4>2. /\ req'[s].pc = req[s].pc /\ req'[s].at = req[s].at
                  /\ req'[s].age = req[s].age + 1 /\ req[s].age \in Nat
                BY <1>1, <4>1, Aging, ReqType DEF Request
            <4>3. CountIn(hits'[w], req[s].age + 1, t) = CountIn(hits[w], req[s].age, t - 1)
                BY <3>3, <4>2
            <4>5. req[s].pc = "hit" \/ CountIn(hits[w], req[s].age, t - 1) < Limit[w]
                BY <3>4, <4>2, <4>3
            <4>6. QED BY <4>1, <4>2, <4>5 DEF Passing, Passes
        <3>6. CountIn(hits'[w], 0, t) = CountIn(hits[w], 0, t - 1)
            <4>1. 0 \in Nat
                OBVIOUS
            <4>2. QED BY <3>3, <4>1
        <3>7. Passing(w, t)' \subseteq Passing(w, t - 1)
            BY <3>5
        <3>8. QED BY <2>2, <3>1, <3>2, <3>6, <3>7 DEF WindowEffect
    <2>5. QED BY <2>3, <2>4
<1>5. QED BY <1>1, <1>2, <1>3, <1>4, Together

LEMMA NextIInv ==
    ASSUME IInv, [Next]_vars
    PROVE  IInv'
<1>1. ASSUME NEW r \in Requests, Arrive(r) PROVE IInv'
    BY <1>1, ArriveStep
<1>2. ASSUME NEW r \in Requests, Continue(r) PROVE IInv'
    BY <1>2, RefusalStep, LookStep, ClearStep, CountFailureStep, RearmStep, LockStep,
       TrimStep, CountStep, HitStep DEF Continue
<1>3. ASSUME NEW ip \in Addresses, Unban(ip) PROVE IInv'
    BY <1>3, UnbanStep
<1>4. QED BY <1>1, <1>2, <1>3, TickStep, StutterStep DEF Next

LEMMA InitIInv ==
    ASSUME Init
    PROVE  IInv
<1>1. \A r \in Requests : req[r] = Idle
    BY DEF Init
<1>2. Typed
    <2>1. req \in [Requests -> Request] /\ \A r \in Requests : Placed(req[r])
        BY IdleRequest DEF Init
    <2>2. TypeOK
        <3>1. NoBan \in NoBan .. BanTime /\ NoFailures \in [FailureAges -> Nat]
            BY Positive DEF NoBan, NoFailures
        <3>2. Gone \in Gone .. LockTime /\ NoCounter \in [n : Nat, left : Forever .. LockTime]
            BY Positive DEF NoCounter, Gone, Forever
        <3>3. QED BY <2>1, <3>1, <3>2 DEF Init, TypeOK, Request
    <2>3. QED BY <2>1, <2>2 DEF Typed
<1>3. ASSUME NEW u \in Names PROVE TriesSound(u)
    <2>1. tries[u] = 0 /\ fails[u].n = 0
        BY <1>3 DEF Init, NoCounter
    <2>2. Locking(u) \in SUBSET Requests
        BY DEF Locking
    <2>3. Cardinality(Locking(u)) \in Nat /\ LockAt \in Nat \ {0}
        BY <2>2, HowMany, Positive
    <2>5. QED BY <2>1, <2>3 DEF TriesSound
<1>4. ASSUME NEW a \in Addresses, NEW t \in 0 .. BanTime - 1
      PROVE  BanSound(a, t) /\ FailuresSound(a, t)
    <2>1. CountIn(failures[a], 0, t) = 0
        <3>1. \A x \in 0 .. t : failures[a][x] = 0
            BY Positive DEF Init, NoFailures, FailureAges
        <3>2. 0 \in Nat /\ t \in Int
            BY Positive
        <3>3. QED BY <3>1, <3>2, CountNone
    <2>2. Busy(a) = {}
        BY <1>1, IdleRequest DEF Busy, Comes
    <2>3. Cardinality(Busy(a)) = 0
        BY <2>2, FS_EmptySet
    <2>5. QED BY <2>1, <2>3, Positive DEF BanSound, FailuresSound
<1>5. ASSUME NEW w \in Windows, NEW t \in -1 .. Window - 1 PROVE WindowSound(w, t)
    <2>1. CountIn(hits[w], 0, t) = 0
        <3>1. \A x \in 0 .. t : hits[w][x] = 0
            BY Positive DEF Init, Ages
        <3>2. 0 \in Nat /\ t \in Int
            BY Positive
        <3>3. QED BY <3>1, <3>2, CountNone
    <2>2. Passing(w, t) = {}
        BY <1>1, IdleRequest DEF Passing, Passes, Stamped
    <2>3. Cardinality(Passing(w, t)) = 0
        BY <2>2, FS_EmptySet
    <2>5. QED BY <2>1, <2>3, Positive DEF WindowSound
<1>6. QED BY <1>2, <1>3, <1>4, <1>5 DEF IInv

(* The inductive invariant holds in every reachable state.                   *)
THEOREM Invariance == Spec => []IInv
<1>1. Init => IInv
    BY InitIInv
<1>2. IInv /\ [Next]_vars => IInv'
    BY NextIInv
<1>3. QED BY <1>1, <1>2, PTL DEF Spec

--------------------------------------------------------------------------------
(* What follows.                                                             *)

(* Every variable of the bans, the lockout and the windows keeps its type:   *)
(* no step of the middleware (security.py:264), of the logins (auth.py:404)  *)
(* or of the windows (rate_limiter.py:30) leaves it.                         *)
THEOREM TypeCorrect == Spec => []TypeOK
<1>1. IInv => TypeOK
    BY DEF IInv, Typed
<1>2. QED BY <1>1, Invariance, PTL

(* LockAt counted failures of a name are always followed by a lock: the      *)
(* request that counted the last of them is on its way (auth.py:455-462).    *)
THEOREM FullCountLocksHolds == Spec => []FullCountLocks
<1>1. IInv => FullCountLocks
    <2> SUFFICES ASSUME IInv, NEW u \in Names, tries[u] >= LockAt
                 PROVE  Locking(u) # {}
        BY DEF FullCountLocks, Locking, Locks
    <2>1. Locking(u) = {} => Cardinality(Locking(u)) = 0
        BY FS_EmptySet
    <2>2. tries[u] \in Nat /\ LockAt \in Nat /\ tries[u] =< LockAt - 1 + Cardinality(Locking(u))
        BY Positive DEF IInv, Typed, TypeOK, TriesSound
    <2>3. QED BY <2>1, <2>2
<1>2. QED BY <1>1, Invariance, PTL

(* Attempts that passed the check of the lock, of the ban or of a window before *)
(* it was set (auth.py:416, security.py:277, rate_limiter.py:43-63) exceed the  *)
(* limit by less than their number.                                             *)
THEOREM OvershootIsInFlightHolds == Spec => []OvershootIsInFlight
<1>1. IInv => OvershootIsInFlight
    <2> SUFFICES ASSUME IInv PROVE OvershootIsInFlight
        OBVIOUS
    <2>1. ASSUME NEW u \in Names PROVE tries[u] =< LockAt + Others
        <3>1. Locking(u) \in SUBSET Requests
            BY DEF Locking
        <3>2. Cardinality(Locking(u)) \in 0 .. Cardinality(Requests)
            BY <3>1, HowMany
        <3>3. tries[u] \in Nat /\ tries[u] =< LockAt - 1 + Cardinality(Locking(u))
            BY DEF IInv, Typed, TypeOK, TriesSound
        <3>5. QED BY <3>2, <3>3, Positive DEF Others
    <2>2. ASSUME NEW a \in Addresses PROVE Failures(failures[a]) =< BanAt + Others
        <3>1. BanTime - 1 \in 0 .. BanTime - 1
            BY Positive
        <3>2. /\ FailuresSound(a, BanTime - 1) /\ Failures(failures[a]) \in Nat
            BY <3>1, FailureTypes DEF IInv, Failures
        <3>3. Busy(a) \in SUBSET Requests
            BY DEF Busy
        <3>5. Cardinality(Busy(a)) \in 0 .. Cardinality(Requests)
            BY <3>3, HowMany
        <3>6. QED BY <3>2, <3>5, Positive DEF FailuresSound, Failures, Others
    <2>3. ASSUME NEW w \in Windows PROVE CountIn(hits[w], 0, Window - 1) =< Limit[w] + Others
        <3>1. Window - 1 \in -1 .. Window - 1 /\ 0 \in Nat
            BY Positive
        <3>2. WindowSound(w, Window - 1) /\ CountIn(hits[w], 0, Window - 1) \in Nat
            BY <3>1, WindowTypes DEF IInv
        <3>3. Passing(w, Window - 1) \in SUBSET Requests
            BY DEF Passing
        <3>4. Cardinality(Passing(w, Window - 1)) \in 0 .. Cardinality(Requests)
            BY <3>3, HowMany
        <3>5. QED BY <3>2, <3>4, Positive DEF WindowSound, Others
    <2>4. QED BY <2>1, <2>2, <2>3 DEF OvershootIsInFlight
<1>2. QED BY <1>1, Invariance, PTL

(* An address with enough failures in the window is banned, although the     *)
(* failures and the ban run out by clocks of their own (security.py:299, 278). *)
THEOREM BanMatchesFailuresHolds == Spec => []BanMatchesFailures
<1>1. IInv => BanMatchesFailures
    <2> SUFFICES ASSUME IInv, NEW a \in Addresses, Failures(failures[a]) >= BanAt
                 PROVE  Banned(a)
        BY DEF BanMatchesFailures
    <2>1. BanTime - 1 \in 0 .. BanTime - 1
        BY Positive
    <2>2. BanSound(a, BanTime - 1) /\ bans[a] \in NoBan .. BanTime
        BY <2>1, FailureTypes DEF IInv
    <2>3. QED BY <2>2, Positive DEF BanSound, Failures, Banned, NoBan
<1>2. QED BY <1>1, Invariance, PTL

================================================================================
