--------------------------- MODULE LLMProxy_proofs ---------------------------
(***************************************************************************)
(* What retries and fallback keep over shared pools and breakers, for any  *)
(* numbers of providers, keys, requests and retries, any rotation          *)
(* strategy and any thresholds: the request keeps its Contract, whatever   *)
(* pools and breakers answer.  A request is a record that goes through a   *)
(* few transitions; each is sound and is a step of the contract.           *)
(***************************************************************************)
EXTENDS LLMProxy, Parts_proofs, FiniteSetTheorems

\* A request that is not under way has nothing but its outcome.
Over(q) ==
  /\ q.pc \in {"new", "done"}
  /\ q.pc = "new" => q.outcome = "none"
  /\ q.at = 0 /\ q.route = << >> /\ q.calls = 0 /\ q.attempt = 0

\* One that is under way is on its route or just past it, and has called its
\* provider no more often than it has spent attempts there.
Underway(q) ==
  /\ q.pc \in {"loop", "calling", "sleeping"}
  /\ q.outcome = "none"
  /\ Len(q.route) <= Cardinality(Providers)
  /\ q.at \in 1 .. Len(q.route) + 1
  /\ q.attempt <= Tries(q.kind)
  /\ q.pc = "loop" => q.calls <= q.attempt
  /\ q.pc # "loop" => /\ q.at <= Len(q.route)
                      /\ q.attempt < Tries(q.kind)
                      /\ q.calls <= q.attempt + 1
  /\ q.pc = "calling" => q.key \in Positions

ReqSound(q) == q \in ReqRecord /\ (Over(q) \/ Underway(q))

\* What the requests share.
SharedSound ==
  /\ pools \in [Providers -> PoolRecord] /\ \A p \in Providers : WellFormed(pools[p])
  /\ breakers \in [Cells -> CircuitBreakerRecord] /\ \A c \in Cells : Sound(breakers[c])
  /\ edits \in 0 .. MaxEdits /\ inherited \subseteq Cells
  /\ BreakerCountsKeyErrors

IInv ==
  /\ SharedSound
  /\ turn \in Requests \cup {Nobody}
  /\ req \in [Requests -> ReqRecord] /\ \A r \in Requests : ReqSound(req[r])
-----------------------------------------------------------------------------
(* The routes.                                                              *)

\* A sequence of providers without repeats.
Distinct(s) ==
  s \in Seq(Providers) /\ \A i, j \in 1 .. Len(s) : s[i] = s[j] => i = j

LEMMA DistinctIsShort ==
  ASSUME NEW s, Distinct(s)
  PROVE  Len(s) \in Nat /\ Len(s) <= Cardinality(Providers)
<1>1. s \in [1 .. Len(s) -> Providers] /\ Len(s) \in Nat
  BY DEF Distinct
<1>2. s \in Injection(1 .. Len(s), Providers)
  BY <1>1 DEF Distinct, Injection, IsInjective
<1>3. Cardinality(1 .. Len(s)) <= Cardinality(Providers)
  BY <1>2, LLMProxyAssumption, FS_Injection
<1>4. Cardinality(1 .. Len(s)) = Len(s)
  <2>1. ASSUME NEW n \in Nat PROVE Cardinality(1 .. n) = n
    <3>1. 1 \in Int /\ n \in Int
      OBVIOUS
    <3>2. Cardinality(1 .. n) = IF 1 > n THEN 0 ELSE n - 1 + 1
      BY <3>1, FS_Interval, Zenon
    <3>3. QED BY <3>2
  <2>2. QED BY <1>1, <2>1
<1>5. QED BY <1>1, <1>3, <1>4

LEMMA ExtendedDistinct ==
  ASSUME NEW s, Distinct(s), NEW fb \in Providers
  PROVE  Distinct(Extended(s, fb))
<1>1. CASE Contains(s, fb)
  BY <1>1 DEF Extended
<1>2. CASE ~ Contains(s, fb)
  <2>1. \A i \in 1 .. Len(s) : s[i] # fb
    BY <1>2 DEF Contains
  <2>2. s \in Seq(Providers) /\ Len(s) \in Nat
    BY DEF Distinct
  <2>3. /\ Append(s, fb) \in Seq(Providers) /\ Len(Append(s, fb)) = Len(s) + 1
        /\ Append(s, fb)[Len(s) + 1] = fb
        /\ \A i \in 1 .. Len(s) : Append(s, fb)[i] = s[i]
    BY <2>2
  <2>4. ASSUME NEW i \in 1 .. Len(s) + 1, NEW j \in 1 .. Len(s) + 1,
               Append(s, fb)[i] = Append(s, fb)[j]
        PROVE  i = j
    <3>1. CASE i = Len(s) + 1 /\ j # Len(s) + 1
      <4>1. j \in 1 .. Len(s)
        BY <2>2, <3>1
      <4>2. QED BY <2>1, <2>3, <2>4, <3>1, <4>1
    <3>2. CASE i # Len(s) + 1 /\ j = Len(s) + 1
      <4>1. i \in 1 .. Len(s)
        BY <2>2, <3>2
      <4>2. QED BY <2>1, <2>3, <2>4, <3>2, <4>1
    <3>3. CASE i # Len(s) + 1 /\ j # Len(s) + 1
      <4>1. i \in 1 .. Len(s) /\ j \in 1 .. Len(s)
        BY <2>2, <3>3
      <4>2. QED BY <2>3, <2>4, <4>1 DEF Distinct
    <3>4. CASE i = Len(s) + 1 /\ j = Len(s) + 1
      BY <3>4
    <3>5. QED BY <3>1, <3>2, <3>3, <3>4
  <2>5. QED BY <1>2, <2>3, <2>4 DEF Extended, Distinct
<1>3. QED BY <1>1, <1>2

(* providers_to_try is what its loop makes it, one place of the chain after *)
(* another.                                                                 *)
LEMMA LoopOfRoute ==
  providers_to_try =
    [n \in 0 .. Len(FallbackChain) |->
       [p \in Providers |->
          IF n = 0 THEN <<p>> ELSE Extended(providers_to_try[n - 1][p], FallbackChain[n])]]
<1> DEFINE last == Len(FallbackChain)
           S == [Providers -> Seq(Providers)]
           base == [p \in Providers |-> <<p>>]
           step == [n \in 1 .. last |->
                      [s \in S |-> [p \in Providers |-> Extended(s[p], FallbackChain[n])]]]
           body(g) == [n \in 0 .. last |->
                         [p \in Providers |->
                            IF n = 0 THEN <<p>> ELSE Extended(g[n - 1][p], FallbackChain[n])]]
<1>1. last \in Nat /\ FallbackChain \in [1 .. last -> Providers]
  BY LLMProxyAssumption
<1>2. base \in S
  OBVIOUS
<1>3. step \in [1 .. last -> [S -> S]]
  <2>1. ASSUME NEW n \in 1 .. last, NEW s \in S, NEW p \in Providers
        PROVE  Extended(s[p], FallbackChain[n]) \in Seq(Providers)
    <3>1. s[p] \in Seq(Providers) /\ FallbackChain[n] \in Providers
      BY <1>1
    <3>2. QED BY <3>1 DEF Extended
  <2>2. QED BY <2>1
<1>4. PICK g : Built(g, last, S, base, step)
  <2> HIDE DEF last, S, base, step
  <2>1. QED BY <1>1, <1>2, <1>3, Recursion
<1>5. g = body(g)
  <2>1. g \in [0 .. last -> S] /\ g[0] = base /\ \A n \in 1 .. last : g[n] = step[n][g[n - 1]]
    BY <1>4 DEF Built
  <2>2. ASSUME NEW n \in 0 .. last PROVE g[n] = body(g)[n]
    <3>1. CASE n = 0
      BY <2>1, <3>1
    <3>2. CASE n # 0
      <4>1. n \in 1 .. last /\ n - 1 \in 0 .. last
        BY <1>1, <3>2
      <4>2. g[n] = step[n][g[n - 1]] /\ g[n - 1] \in S
        BY <2>1, <4>1
      <4>3. step[n][g[n - 1]] = [p \in Providers |-> Extended(g[n - 1][p], FallbackChain[n])]
        BY <4>1, <4>2
      <4>4. body(g)[n] = [p \in Providers |-> Extended(g[n - 1][p], FallbackChain[n])]
        BY <3>2
      <4>5. QED BY <4>2, <4>3, <4>4
    <3>3. QED BY <3>1, <3>2
  <2>3. DOMAIN g = 0 .. last /\ g = [n \in 0 .. last |-> g[n]]
    BY <2>1
  <2>4. QED BY <2>2, <2>3
<1>6. providers_to_try = CHOOSE h : h = body(h)
  BY DEF providers_to_try
<1>7. providers_to_try = body(providers_to_try)
  <2> HIDE DEF body
  <2>1. QED BY <1>5, <1>6
<1>8. QED BY <1>7

(* However long the chain, a route visits each provider at most once        *)
(* (llm_proxy.py:492).                                                      *)
LEMMA RouteOnce ==
  ASSUME NEW kind \in AllKinds, NEW p \in Providers
  PROVE  Distinct(Route(kind, p))
<1>1. Distinct(<<p>>)
  BY DEF Distinct
<1>2. Distinct(PoolOrder)
  BY LLMProxyAssumption DEF Distinct
<1>3. Distinct(FallbackRoute(p))
  <2> DEFINE last == Len(FallbackChain)
             P == {n \in Nat : n <= last => Distinct(providers_to_try[n][p])}
  <2>1. last \in Nat /\ FallbackChain \in [1 .. last -> Providers]
    BY LLMProxyAssumption
  <2>2. 0 \in P
    <3>1. 0 \in 0 .. last
      BY <2>1
    <3>2. providers_to_try[0][p] = <<p>>
      BY <3>1, LoopOfRoute
    <3>3. QED BY <1>1, <3>2
  <2>3. ASSUME NEW n \in P PROVE n + 1 \in P
    <3>1. SUFFICES ASSUME n + 1 <= last PROVE Distinct(providers_to_try[n + 1][p])
      OBVIOUS
    <3>2. n + 1 \in 1 .. last /\ n + 1 # 0 /\ (n + 1) - 1 = n /\ n <= last /\ n + 1 \in 0 .. last
      BY <2>1, <3>1
    <3>3. providers_to_try[n + 1][p] = Extended(providers_to_try[n][p], FallbackChain[n + 1])
      BY <3>2, LoopOfRoute
    <3>4. Distinct(providers_to_try[n][p]) /\ FallbackChain[n + 1] \in Providers
      BY <2>1, <2>3, <3>2
    <3>5. QED BY <3>3, <3>4, ExtendedDistinct
  <2>4. P = Nat
    <3>1. P \in SUBSET Nat
      OBVIOUS
    <3> HIDE DEF P
    <3>2. QED BY <2>2, <2>3, <3>1, Induction, Zenon
  <2>5. last \in P
    BY <2>1, <2>4
  <2>6. QED BY <2>5, <2>1 DEF FallbackRoute
<1>4. QED BY <1>1, <1>2, <1>3 DEF Route, AllKinds

LEMMA RouteBounded ==
  ASSUME NEW kind \in AllKinds, NEW p \in Providers
  PROVE  /\ Route(kind, p) \in Seq(Providers) /\ Len(Route(kind, p)) \in Nat
         /\ Len(Route(kind, p)) <= Cardinality(Providers)
<1>1. Distinct(Route(kind, p))
  BY RouteOnce
<1>2. QED BY <1>1, DistinctIsShort DEF Distinct

-----------------------------------------------------------------------------
(* The transitions of one request.                                          *)

LEMMA Bounds ==
  /\ MaxRetries \in Nat /\ MostTries \in Nat
  /\ \A kind \in AllKinds : Tries(kind) \in 0 .. MostTries
  /\ Cardinality(Providers) \in Nat
BY LLMProxyAssumption, FS_CardinalityType DEF MostTries, Tries

(* The fields of a request, as the provers need them.                       *)
LEMMA Fields ==
  ASSUME NEW q \in ReqRecord
  PROVE  /\ q.kind \in AllKinds /\ q.route \in Seq(Providers) /\ q.at \in Nat
         /\ q.attempt \in 0 .. MostTries /\ q.calls \in 0 .. MostTries
         /\ q.key \in Positions \cup {0} /\ q.outcome \in Outcomes /\ q.got \in SUBSET Providers
         /\ Len(q.route) \in Nat /\ Tries(q.kind) \in 0 .. MostTries
<1>1. q.route \in Seq(Providers) /\ q.kind \in AllKinds
  BY DEF ReqRecord
<1>2. QED BY <1>1, Bounds DEF ReqRecord

(* Several fields of a view at once.                                        *)
IsView(v) == v = [at |-> v.at, last |-> v.last, most |-> v.most, tries |-> v.tries,
                  waiting |-> v.waiting, outcome |-> v.outcome]

LEMMA ViewIsView == ASSUME NEW q PROVE IsView(View(q))
BY DEF View, IsView

LEMMA AdvanceView ==
  ASSUME NEW v, IsView(v), NEW x, NEW y
  PROVE  [v EXCEPT !.at = x, !.tries = y] =
           [at |-> x, last |-> v.last, most |-> v.most, tries |-> y,
            waiting |-> v.waiting, outcome |-> v.outcome]
<1> DEFINE a == [v EXCEPT !.at = x]
<1>1. a = [at |-> x, last |-> v.last, most |-> v.most, tries |-> v.tries,
           waiting |-> v.waiting, outcome |-> v.outcome]
  BY DEF IsView
<1>2. [v EXCEPT !.at = x, !.tries = y] = [a EXCEPT !.tries = y]
  OBVIOUS
<1> HIDE DEF a
<1>3. [a EXCEPT !.tries = y] = [at |-> x, last |-> v.last, most |-> v.most, tries |-> y,
                                waiting |-> v.waiting, outcome |-> v.outcome]
  BY <1>1
<1>4. QED BY <1>2, <1>3, Zenon

LEMMA ContactView ==
  ASSUME NEW v, IsView(v), NEW x, NEW y
  PROVE  [v EXCEPT !.tries = x, !.waiting = y] =
           [at |-> v.at, last |-> v.last, most |-> v.most, tries |-> x,
            waiting |-> y, outcome |-> v.outcome]
<1> DEFINE a == [v EXCEPT !.tries = x]
<1>1. a = [at |-> v.at, last |-> v.last, most |-> v.most, tries |-> x,
           waiting |-> v.waiting, outcome |-> v.outcome]
  BY DEF IsView
<1>2. [v EXCEPT !.tries = x, !.waiting = y] = [a EXCEPT !.waiting = y]
  OBVIOUS
<1> HIDE DEF a
<1>3. [a EXCEPT !.waiting = y] = [at |-> v.at, last |-> v.last, most |-> v.most, tries |-> x,
                                  waiting |-> y, outcome |-> v.outcome]
  BY <1>1
<1>4. QED BY <1>2, <1>3, Zenon

(* What the contract sees of a request under way.                           *)
LEMMA Viewed ==
  ASSUME NEW q, q.pc \in {"loop", "calling", "sleeping"}
  PROVE  /\ q.pc = "calling" =>
              View(q) = [at |-> q.at, last |-> Len(q.route), most |-> Tries(q.kind),
                         tries |-> q.calls, waiting |-> TRUE, outcome |-> q.outcome]
         /\ q.pc # "calling" =>
              View(q) = [at |-> q.at, last |-> Len(q.route), most |-> Tries(q.kind),
                         tries |-> q.calls, waiting |-> FALSE, outcome |-> q.outcome]
BY DEF View

(* The provider a request is at.                                            *)
LEMMA HereIsProvider ==
  ASSUME NEW q \in ReqRecord, Underway(q), q.at <= Len(q.route)
  PROVE  q.route[q.at] \in Providers
<1>1. q.route \in Seq(Providers) /\ q.at \in 1 .. Len(q.route)
  BY Fields DEF Underway
<1>2. QED BY <1>1

(* Start: the loop begins at the first provider.                            *)
LEMMA Started ==
  ASSUME NEW q, ReqSound(q), q.pc = "new", NEW kind \in AllKinds, NEW p \in Providers
  PROVE  LET n == [q EXCEPT !.pc = "loop", !.kind = kind, !.route = Route(kind, p), !.at = 1]
         IN  ReqSound(n) /\ n.pc = "loop"
             /\ View(q) = [at |-> 0, last |-> 0, most |-> 0, tries |-> 0, waiting |-> FALSE,
                           outcome |-> "none"]
             /\ View(n) = [at |-> 1, last |-> Len(Route(kind, p)), most |-> Tries(kind),
                           tries |-> 0, waiting |-> FALSE, outcome |-> "none"]
<1> DEFINE route == Route(kind, p)
           n == [q EXCEPT !.pc = "loop", !.kind = kind, !.route = route, !.at = 1]
<1>1. q \in ReqRecord /\ Over(q) /\ q.outcome = "none"
  BY DEF ReqSound, Over, Underway
<1>2. route \in Seq(Providers) /\ Len(route) <= Cardinality(Providers) /\ Len(route) \in Nat
  BY RouteBounded
<1> HIDE DEF route
<1>3. n \in ReqRecord
  BY <1>1, <1>2 DEF ReqRecord
<1>4. /\ n.pc = "loop" /\ n.kind = kind /\ n.route = route /\ n.at = 1 /\ n.outcome = "none"
      /\ n.attempt = 0 /\ n.calls = 0
  BY <1>1 DEF ReqRecord, Over
<1>5. Underway(n)
  <2> HIDE DEF n
  <2>1. QED BY <1>2, <1>4, Bounds DEF Underway
<1>6. View(q) = [at |-> 0, last |-> 0, most |-> 0, tries |-> 0, waiting |-> FALSE,
                 outcome |-> "none"]
  BY <1>1 DEF View, Over
<1>7. View(n) = [at |-> 1, last |-> Len(route), most |-> Tries(kind), tries |-> 0,
                 waiting |-> FALSE, outcome |-> "none"]
  <2> HIDE DEF n
  <2>1. QED BY <1>4 DEF View
<1>8. n.pc = "loop" /\ ReqSound(n)
  BY <1>3, <1>4, <1>5 DEF ReqSound
<1> HIDE DEF n
<1>9. QED BY <1>6, <1>7, <1>8 DEF route, n

(* Finish: nothing but the outcome is left.                                 *)
LEMMA Finished ==
  ASSUME NEW o \in Outcomes
  PROVE  LET n == [NewReq EXCEPT !.pc = "done", !.outcome = o]
         IN  ReqSound(n) /\ n.pc = "done"
             /\ View(n) = [at |-> 0, last |-> 0, most |-> 0, tries |-> 0, waiting |-> FALSE,
                           outcome |-> o]
<1> DEFINE n == [NewReq EXCEPT !.pc = "done", !.outcome = o]
<1>1. /\ n.pc = "done" /\ n.route = << >> /\ n.at = 0 /\ n.attempt = 0
      /\ n.calls = 0 /\ n.outcome = o
  BY DEF NewReq
<1>2. n \in ReqRecord
  <2>1. 0 \in 0 .. MostTries /\ << >> \in Seq(Providers) /\ "chat" \in AllKinds
          /\ "none" \in Outcomes
    BY Bounds DEF AllKinds, Outcomes
  <2>2. NewReq \in ReqRecord
    BY <2>1 DEF NewReq, ReqRecord
  <2>3. QED BY <2>2 DEF ReqRecord
<1> HIDE DEF n
<1>3. Over(n) /\ View(n) = [at |-> 0, last |-> 0, most |-> 0, tries |-> 0, waiting |-> FALSE,
                            outcome |-> o]
  BY <1>1 DEF Over, View
<1>4. n.pc = "done"
  BY <1>1
<1>5. QED BY <1>2, <1>3, <1>4 DEF ReqSound, n

(* MoveOn: the next provider, with no attempt spent there.                  *)
LEMMA MovedOn ==
  ASSUME NEW q, ReqSound(q), q.pc = "loop", q.at <= Len(q.route)
  PROVE  LET n == [q EXCEPT !.at = @ + 1, !.attempt = 0, !.key = 0, !.calls = 0]
         IN  ReqSound(n) /\ n.pc = "loop" /\ View(n) = [View(q) EXCEPT !.at = @ + 1, !.tries = 0]
<1> DEFINE n == [q EXCEPT !.at = @ + 1, !.attempt = 0, !.key = 0, !.calls = 0]
<1>1. q \in ReqRecord /\ Underway(q)
  BY DEF ReqSound, Over
<1>2. n \in ReqRecord
  <2>1. q.at + 1 \in Nat /\ 0 \in 0 .. MostTries
    BY <1>1, Fields, Bounds
  <2>2. [q EXCEPT !.at = @ + 1, !.attempt = 0] \in ReqRecord
    BY <1>1, <2>1 DEF ReqRecord
  <2>3. QED BY <2>1, <2>2 DEF ReqRecord
<1>3. /\ n.pc = "loop" /\ n.kind = q.kind /\ n.route = q.route /\ n.at = q.at + 1
      /\ n.outcome = q.outcome /\ n.attempt = 0 /\ n.calls = 0
  BY <1>1 DEF ReqRecord
<1> HIDE DEF n
<1>4. Underway(n)
  BY <1>1, <1>3, Fields, Bounds DEF Underway
<1>5. View(n) = [View(q) EXCEPT !.at = @ + 1, !.tries = 0]
  <2>1. View(n) = [at |-> q.at + 1, last |-> Len(q.route), most |-> Tries(q.kind),
                   tries |-> 0, waiting |-> FALSE, outcome |-> q.outcome]
    BY <1>3, Viewed
  <2>2. View(q) = [at |-> q.at, last |-> Len(q.route), most |-> Tries(q.kind),
                   tries |-> q.calls, waiting |-> FALSE, outcome |-> q.outcome]
    BY Viewed
  <2>3. /\ View(q).at = q.at /\ View(q).last = Len(q.route) /\ View(q).most = Tries(q.kind)
        /\ View(q).waiting = FALSE /\ View(q).outcome = q.outcome
    BY <2>2
  <2>4. [View(q) EXCEPT !.at = @ + 1, !.tries = 0] =
          [at |-> View(q).at + 1, last |-> View(q).last, most |-> View(q).most, tries |-> 0,
           waiting |-> View(q).waiting, outcome |-> View(q).outcome]
    BY ViewIsView, AdvanceView, Zenon
  <2>5. QED BY <2>1, <2>3, <2>4, Zenon
<1>6. QED BY <1>2, <1>3, <1>4, <1>5 DEF ReqSound, n

(* Skip: an attempt is spent, and no call made.                             *)
LEMMA Skipped ==
  ASSUME NEW q, ReqSound(q), q.pc = "loop", q.attempt < Tries(q.kind)
  PROVE  LET n == [q EXCEPT !.attempt = @ + 1]
         IN  ReqSound(n) /\ n.pc = "loop" /\ View(n) = View(q)
<1> DEFINE n == [q EXCEPT !.attempt = @ + 1]
<1>1. q \in ReqRecord /\ Underway(q)
  BY DEF ReqSound, Over
<1>2. q.attempt + 1 \in 0 .. MostTries
  BY <1>1, Fields, Bounds
<1>3. n \in ReqRecord
  BY <1>1, <1>2 DEF ReqRecord
<1>4. /\ n.pc = "loop" /\ n.kind = q.kind /\ n.route = q.route /\ n.at = q.at
      /\ n.outcome = q.outcome /\ n.attempt = q.attempt + 1 /\ n.calls = q.calls
  BY <1>1 DEF ReqRecord
<1> HIDE DEF n
<1>5. Underway(n)
  BY <1>1, <1>4, Fields DEF Underway
<1>6. View(n) = View(q)
  BY <1>4 DEF View
<1>7. QED BY <1>3, <1>4, <1>5, <1>6 DEF ReqSound, n

(* Dial: one more call, which the attempts spent so far allow.              *)
LEMMA Dialled ==
  ASSUME NEW q, ReqSound(q), q.pc = "loop", q.at <= Len(q.route),
         q.attempt < Tries(q.kind), NEW i \in Positions
  PROVE  LET n == [q EXCEPT !.pc = "calling", !.key = i, !.calls = @ + 1]
         IN  ReqSound(n) /\ View(q).tries < View(q).most
             /\ View(n) = [View(q) EXCEPT !.tries = @ + 1, !.waiting = TRUE]
<1> DEFINE n == [q EXCEPT !.pc = "calling", !.key = i, !.calls = @ + 1]
<1>1. q \in ReqRecord /\ Underway(q)
  BY DEF ReqSound, Over
<1>2. q.calls + 1 \in 0 .. MostTries /\ q.calls < Tries(q.kind)
  BY <1>1, Fields, Bounds DEF Underway
<1>3. n \in ReqRecord
  BY <1>1, <1>2 DEF ReqRecord
<1>4. /\ n.pc = "calling" /\ n.kind = q.kind /\ n.route = q.route /\ n.at = q.at
      /\ n.outcome = q.outcome /\ n.attempt = q.attempt /\ n.calls = q.calls + 1 /\ n.key = i
  BY <1>1 DEF ReqRecord
<1> HIDE DEF n
<1>5. Underway(n)
  BY <1>1, <1>4, Fields DEF Underway
<1>6. View(n) = [View(q) EXCEPT !.tries = @ + 1, !.waiting = TRUE]
  <2>1. View(n) = [at |-> q.at, last |-> Len(q.route), most |-> Tries(q.kind),
                   tries |-> q.calls + 1, waiting |-> TRUE, outcome |-> q.outcome]
    BY <1>4, Viewed
  <2>2. View(q) = [at |-> q.at, last |-> Len(q.route), most |-> Tries(q.kind),
                   tries |-> q.calls, waiting |-> FALSE, outcome |-> q.outcome]
    BY Viewed
  <2>3. /\ View(q).at = q.at /\ View(q).last = Len(q.route) /\ View(q).most = Tries(q.kind)
        /\ View(q).tries = q.calls /\ View(q).outcome = q.outcome
    BY <2>2
  <2>4. [View(q) EXCEPT !.tries = @ + 1, !.waiting = TRUE] =
          [at |-> View(q).at, last |-> View(q).last, most |-> View(q).most,
           tries |-> View(q).tries + 1, waiting |-> TRUE, outcome |-> View(q).outcome]
    BY ViewIsView, ContactView, Zenon
  <2>5. QED BY <2>1, <2>3, <2>4, Zenon
<1>7. View(q).tries < View(q).most
  BY <1>2 DEF View
<1>8. QED BY <1>3, <1>5, <1>6, <1>7 DEF ReqSound, n

(* TryAgain: after a call or a sleep the attempt is spent.                  *)
LEMMA TriedAgain ==
  ASSUME NEW q, ReqSound(q), q.pc \in {"calling", "sleeping"}
  PROVE  LET n == [q EXCEPT !.pc = "loop", !.attempt = @ + 1]
         IN  ReqSound(n) /\ n.pc = "loop" /\ View(n) = [View(q) EXCEPT !.waiting = FALSE]
<1> DEFINE n == [q EXCEPT !.pc = "loop", !.attempt = @ + 1]
<1>1. q \in ReqRecord /\ Underway(q)
  BY DEF ReqSound, Over
<1>2. q.attempt + 1 \in 0 .. MostTries
  BY <1>1, Fields, Bounds DEF Underway
<1>3. n \in ReqRecord
  BY <1>1, <1>2 DEF ReqRecord
<1>4. /\ n.pc = "loop" /\ n.kind = q.kind /\ n.route = q.route /\ n.at = q.at
      /\ n.outcome = q.outcome /\ n.attempt = q.attempt + 1 /\ n.calls = q.calls
  BY <1>1 DEF ReqRecord
<1> HIDE DEF n
<1>5. Underway(n)
  BY <1>1, <1>4, Fields DEF Underway
<1>6. View(n) = [View(q) EXCEPT !.waiting = FALSE]
  BY <1>1, <1>4, Viewed DEF Underway
<1>7. QED BY <1>3, <1>4, <1>5, <1>6 DEF ReqSound, n

(* The sleep before a retry.                                                *)
LEMMA FallenAsleep ==
  ASSUME NEW q, ReqSound(q), q.pc = "calling"
  PROVE  LET n == [q EXCEPT !.pc = "sleeping"]
         IN  ReqSound(n) /\ n.pc = "sleeping" /\ View(n) = [View(q) EXCEPT !.waiting = FALSE]
<1> DEFINE n == [q EXCEPT !.pc = "sleeping"]
<1>1. q \in ReqRecord /\ Underway(q)
  BY DEF ReqSound, Over
<1>2. n \in ReqRecord
  BY <1>1 DEF ReqRecord
<1>3. /\ n.pc = "sleeping" /\ n.kind = q.kind /\ n.route = q.route /\ n.at = q.at
      /\ n.outcome = q.outcome /\ n.attempt = q.attempt /\ n.calls = q.calls
  BY <1>1 DEF ReqRecord
<1> HIDE DEF n
<1>4. Underway(n)
  BY <1>1, <1>3 DEF Underway
<1>5. View(n) = [View(q) EXCEPT !.waiting = FALSE]
  BY <1>1, <1>3, Viewed DEF Underway
<1>6. QED BY <1>2, <1>3, <1>4, <1>5 DEF ReqSound, n

(* A chunk is noted.                                                        *)
LEMMA ChunkNoted ==
  ASSUME NEW q, ReqSound(q), q.pc = "calling"
  PROVE  LET n == [q EXCEPT !.got = @ \cup {q.route[q.at]}]
         IN  /\ ReqSound(n) /\ View(n) = View(q)
             /\ n.pc = q.pc /\ n.kind = q.kind /\ n.route = q.route /\ n.at = q.at /\ n.key = q.key
<1> DEFINE n == [q EXCEPT !.got = @ \cup {q.route[q.at]}]
<1>1. q \in ReqRecord /\ Underway(q)
  BY DEF ReqSound, Over
<1>2. q.route[q.at] \in Providers
  BY <1>1, HereIsProvider DEF Underway
<1>3. n \in ReqRecord
  BY <1>1, <1>2 DEF ReqRecord
<1>4. /\ n.pc = q.pc /\ n.kind = q.kind /\ n.route = q.route /\ n.at = q.at /\ n.key = q.key
      /\ n.outcome = q.outcome /\ n.attempt = q.attempt /\ n.calls = q.calls
  BY <1>1 DEF ReqRecord
<1> HIDE DEF n
<1>5. Underway(n)
  BY <1>1, <1>4 DEF Underway
<1>6. View(n) = View(q)
  BY <1>4 DEF View
<1>7. QED BY <1>3, <1>4, <1>5, <1>6 DEF ReqSound, n
-----------------------------------------------------------------------------
(* The pools and breakers.                                                  *)

(* Both counts of a key, within what they are frozen at.                    *)
LEMMA Counts ==
  ASSUME SharedSound, NEW p \in Providers, NEW i \in DOMAIN pools[p].keys
  PROVE  /\ i \in Positions /\ <<p, i>> \in Cells
         /\ breakers[<<p, i>>].failures \in 0 .. MaxFailures
         /\ pools[p].keys[i].errors \in 0 .. ErrorThreshold
         /\ \/ <<p, i>> \in inherited
            \/ breakers[<<p, i>>].failures <= pools[p].keys[i].errors
<1>1. i \in Positions /\ pools[p].keys[i] \in Entry
  BY DomainInPositions DEF SharedSound
<1>2. <<p, i>> \in Cells
  BY <1>1 DEF Cells
<1>3. breakers[<<p, i>>] \in CircuitBreakerRecord
  BY <1>2 DEF SharedSound
<1>4. QED BY <1>1, <1>2, <1>3 DEF SharedSound, BreakerCountsKeyErrors, Entry, CircuitBreakerRecord

LEMMA CountsAreNat ==
  ASSUME SharedSound
  PROVE  /\ \A p \in Providers : \A i \in DOMAIN pools[p].keys : pools[p].keys[i].errors \in Nat
         /\ \A c \in Cells : breakers[c].failures \in Nat
<1>1. ASSUME NEW p \in Providers, NEW i \in DOMAIN pools[p].keys
      PROVE  pools[p].keys[i].errors \in Nat
  <2>1. pools[p].keys[i].errors \in 0 .. ErrorThreshold
    BY Counts
  <2>2. QED BY <2>1, PoolAssumption
<1>2. ASSUME NEW c \in Cells
      PROVE  breakers[c].failures \in Nat
  <2>1. breakers[c] \in CircuitBreakerRecord
    BY DEF SharedSound
  <2>2. breakers[c].failures \in 0 .. MaxFailures
    BY <2>1 DEF CircuitBreakerRecord
  <2>3. QED BY <2>2, BreakerAssumption
<1>3. QED BY <1>1, <1>2

(* A step after which each key has at least the failures that its breaker  *)
(* has counted on it, where it had so before.                               *)
LEMMA AgreementKept ==
  ASSUME SharedSound, Forgets,
         pools' \in [Providers -> PoolRecord], breakers' \in [Cells -> CircuitBreakerRecord],
         \A p \in Providers : WellFormed(pools'[p]) /\ SameKeys(pools[p], pools'[p]),
         \A c \in Cells : Sound(breakers'[c]),
         \A p \in Providers : \A i \in DOMAIN pools[p].keys :
            breakers[<<p, i>>].failures <= pools[p].keys[i].errors
              => breakers'[<<p, i>>].failures <= pools'[p].keys[i].errors
  PROVE  SharedSound'
<1>1. ASSUME NEW p \in Providers, NEW i \in DOMAIN pools'[p].keys, <<p, i>> \notin inherited'
      PROVE  breakers'[<<p, i>>].failures <= pools'[p].keys[i].errors
  <2>1. i \in DOMAIN pools[p].keys
    BY <1>1 DEF SameKeys
  <2>2. <<p, i>> \in Cells
    BY <2>1, Counts
  <2>3. CASE <<p, i>> \in inherited
    <3>1. breakers'[<<p, i>>].failures = 0
      BY <1>1, <2>3 DEF Forgets
    <3>2. pools'[p].keys[i].errors \in 0 .. ErrorThreshold
      BY <1>1, DomainInPositions DEF Entry
    <3>3. QED BY <3>1, <3>2, PoolAssumption
  <2>4. CASE <<p, i>> \notin inherited
    BY <2>1, <2>4, Counts
  <2>5. QED BY <2>3, <2>4
<1>2. BreakerCountsKeyErrors'
  BY <1>1 DEF BreakerCountsKeyErrors
<1>3. edits' \in 0 .. MaxEdits /\ inherited' \subseteq Cells
  BY DEF Forgets, SharedSound
<1>4. QED BY <1>2, <1>3 DEF SharedSound

(* A step that keeps records sound, forgets no error and counts no failure.  *)
LEMMA QuietStep ==
  ASSUME SharedSound, Forgets,
         pools' = [p \in Providers |-> pools'[p]], breakers' = [c \in Cells |-> breakers'[c]],
         \A p \in Providers : WellFormed(pools'[p]) /\ SameKeys(pools[p], pools'[p]),
         \A p \in Providers : \A i \in DOMAIN pools[p].keys :
            pools'[p].keys[i].errors >= pools[p].keys[i].errors,
         \A c \in Cells : Sound(breakers'[c]) /\ breakers'[c].failures <= breakers[c].failures
  PROVE  SharedSound'
<1>1. /\ pools' \in [Providers -> PoolRecord]
      /\ breakers' \in [Cells -> CircuitBreakerRecord]
  BY DEF WellFormed, Sound
<1>2. ASSUME NEW p \in Providers, NEW i \in DOMAIN pools[p].keys,
             breakers[<<p, i>>].failures <= pools[p].keys[i].errors
      PROVE  breakers'[<<p, i>>].failures <= pools'[p].keys[i].errors
  <2>1. i \in DOMAIN pools'[p].keys /\ <<p, i>> \in Cells
    BY Counts DEF SameKeys
  <2>2. /\ pools[p].keys[i].errors \in Nat /\ breakers[<<p, i>>].failures \in Nat
        /\ pools'[p].keys[i].errors >= pools[p].keys[i].errors
        /\ breakers'[<<p, i>>].failures <= breakers[<<p, i>>].failures
    BY <2>1, CountsAreNat
  <2>3. pools'[p].keys[i].errors \in Nat
    <3>1. pools'[p].keys[i].errors \in 0 .. ErrorThreshold
      BY <2>1, DomainInPositions DEF Entry
    <3>2. QED BY <3>1, PoolAssumption
  <2>4. breakers'[<<p, i>>].failures \in Nat
    <3>1. breakers'[<<p, i>>].failures \in 0 .. MaxFailures
      BY <2>1 DEF Sound, CircuitBreakerRecord
    <3>2. QED BY <3>1, BreakerAssumption
  <2>5. QED BY <1>2, <2>2, <2>3, <2>4
<1>3. QED BY <1>1, <1>2, AgreementKept

(* The calls of Skip and Dial, and of an answer or a 429.                   *)
LEMMA PickShared ==
  ASSUME SharedSound, Forgets, NEW p \in Providers, NEW c \in Cells,
         pools' = [pools EXCEPT ![p] = Picked(@, KeyRotation)],
         breakers' = breakers \/ breakers' = [breakers EXCEPT ![c] = ReadState(@)]
  PROVE  SharedSound'
<1>1. \A q \in Providers : /\ WellFormed(pools'[q]) /\ SameKeys(pools[q], pools'[q])
                           /\ pools'[q].keys = pools[q].keys
  BY PickedSame DEF SharedSound, SameKeys
<1>2. \A d \in Cells : Sound(breakers'[d]) /\ breakers'[d].failures = breakers[d].failures
  BY ReadStateSound DEF SharedSound
<1>3. \A d \in Cells : breakers[d].failures \in Nat
  BY CountsAreNat
<1>4. \A q \in Providers : \A i \in DOMAIN pools[q].keys : pools[q].keys[i].errors \in Nat
  BY CountsAreNat
<1>5. /\ pools' = [q \in Providers |-> pools'[q]] /\ breakers' = [d \in Cells |-> breakers'[d]]
      /\ \A q \in Providers : \A j \in DOMAIN pools[q].keys :
            pools'[q].keys[j].errors >= pools[q].keys[j].errors
  <2>1. pools' = [q \in Providers |-> pools'[q]] /\ breakers' = [d \in Cells |-> breakers'[d]]
    BY DEF SharedSound
  <2>2. QED BY <1>1, <1>4, <2>1
<1>6. \A d \in Cells : Sound(breakers'[d]) /\ breakers'[d].failures <= breakers[d].failures
  BY <1>2, <1>3
<1>7. QED BY <1>1, <1>5, <1>6, QuietStep

LEMMA AnswerShared ==
  ASSUME SharedSound, Forgets, NEW p \in Providers, NEW i \in Positions,
         pools' = [pools EXCEPT ![p] = MarkSuccess(@, i)],
         breakers' = breakers \/ breakers' = [breakers EXCEPT ![<<p, i>>] = RecordSuccess(@)]
  PROVE  SharedSound'
<1>1. \A q \in Providers : WellFormed(pools'[q]) /\ SameKeys(pools[q], pools'[q])
  BY MarkSuccessSame DEF SharedSound, SameKeys
<1>2. \A q \in Providers : \A j \in DOMAIN pools[q].keys :
         pools'[q].keys[j].errors = pools[q].keys[j].errors
  BY MarkSuccessSame, ErrorCounts DEF SharedSound
<1>3. \A d \in Cells : breakers[d].failures \in Nat
  BY CountsAreNat
<1>4. \A d \in Cells : Sound(breakers'[d]) /\ breakers'[d].failures <= breakers[d].failures
  <2>1. \A b : Sound(b) => RecordSuccess(b).failures = b.failures \/ RecordSuccess(b).failures = 0
    BY DEF RecordSuccess, Sound, CircuitBreakerRecord
  <2>2. QED BY <1>3, <2>1, RecordSuccessSound DEF SharedSound
<1>5. \A q \in Providers : \A j \in DOMAIN pools[q].keys : pools[q].keys[j].errors \in Nat
  BY CountsAreNat
<1>6. /\ pools' = [q \in Providers |-> pools'[q]] /\ breakers' = [d \in Cells |-> breakers'[d]]
      /\ \A q \in Providers : \A j \in DOMAIN pools[q].keys :
            pools'[q].keys[j].errors >= pools[q].keys[j].errors
  <2>1. pools' = [q \in Providers |-> pools'[q]] /\ breakers' = [d \in Cells |-> breakers'[d]]
    BY DEF SharedSound
  <2>2. QED BY <1>2, <1>5, <2>1
<1>7. QED BY <1>1, <1>4, <1>6, QuietStep

LEMMA RateLimitShared ==
  ASSUME SharedSound, Forgets, NEW p \in Providers, NEW i \in Positions,
         pools' = [pools EXCEPT ![p] = MarkRateLimited(@, i)], breakers' = breakers
  PROVE  SharedSound'
<1>1. \A q \in Providers : /\ WellFormed(pools'[q]) /\ SameKeys(pools[q], pools'[q])
                           /\ pools'[q].keys = pools[q].keys
  <2>1. \A q \in Providers : WellFormed(pools[q])
    BY DEF SharedSound
  <2>2. /\ pools'[p] = MarkRateLimited(pools[p], i)
        /\ \A q \in Providers \ {p} : pools'[q] = pools[q]
    BY DEF SharedSound
  <2>3. WellFormed(MarkRateLimited(pools[p], i)) /\ MarkRateLimited(pools[p], i).keys = pools[p].keys
    BY <2>1, MarkRateLimitedSame
  <2>4. \A q \in Providers : WellFormed(pools'[q]) /\ pools'[q].keys = pools[q].keys
    BY <2>1, <2>2, <2>3, Zenon
  <2>5. QED BY <2>4 DEF SameKeys
<1>2. \A d \in Cells : Sound(breakers'[d]) /\ breakers'[d].failures <= breakers[d].failures
  <2>1. \A d \in Cells : breakers[d].failures \in Nat
    BY CountsAreNat
  <2>2. QED BY <2>1 DEF SharedSound
<1>3. \A q \in Providers : \A j \in DOMAIN pools[q].keys : pools[q].keys[j].errors \in Nat
  BY CountsAreNat
<1>4. /\ pools' = [q \in Providers |-> pools'[q]] /\ breakers' = [d \in Cells |-> breakers'[d]]
      /\ \A q \in Providers : \A j \in DOMAIN pools[q].keys :
            pools'[q].keys[j].errors >= pools[q].keys[j].errors
  <2>1. pools' = [q \in Providers |-> pools'[q]] /\ breakers' = [d \in Cells |-> breakers'[d]]
    BY DEF SharedSound
  <2>2. QED BY <1>1, <1>3, <2>1
<1>5. QED BY <1>1, <1>2, <1>4, QuietStep

(* An error is counted by the pool, and by the breaker if at all.           *)
LEMMA ErrorShared ==
  ASSUME SharedSound, Forgets, NEW p \in Providers, NEW i \in Positions,
         pools' = [pools EXCEPT ![p] = MarkError(@, i)],
         breakers' = breakers \/ breakers' = [breakers EXCEPT ![<<p, i>>] = RecordFailure(@)]
  PROVE  SharedSound'
<1>1. \A q \in Providers : WellFormed(pools'[q]) /\ SameKeys(pools[q], pools'[q])
  BY MarkErrorSame DEF SharedSound, SameKeys
<1>2. \A d \in Cells : Sound(breakers'[d])
  BY RecordFailureSound DEF SharedSound
<1>3. /\ pools' \in [Providers -> PoolRecord]
      /\ breakers' \in [Cells -> CircuitBreakerRecord]
  BY <1>1, <1>2 DEF WellFormed, Sound, SharedSound
<1>4. ASSUME NEW q \in Providers, NEW j \in DOMAIN pools[q].keys,
             breakers[<<q, j>>].failures <= pools[q].keys[j].errors
      PROVE  breakers'[<<q, j>>].failures <= pools'[q].keys[j].errors
  <2>1. <<q, j>> \in Cells /\ <<p, i>> \in Cells
    BY Counts DEF Cells
  <2> DEFINE f == breakers[<<q, j>>].failures
             e == pools[q].keys[j].errors
  <2>2. f \in 0 .. MaxFailures /\ e \in 0 .. ErrorThreshold /\ f <= e
    BY <1>4, Counts
  <2>3. CASE q = p /\ j = i
    <3>1. pools'[q].keys[j].errors = IF e < ErrorThreshold THEN e + 1 ELSE e
      BY <2>1, <2>3, ErrorCounts DEF SharedSound
    <3>2. \/ breakers'[<<q, j>>].failures = f
          \/ breakers'[<<q, j>>].failures = IF f < MaxFailures THEN f + 1 ELSE f
      BY <2>1, <2>3, RecordFailureSound DEF SharedSound
    <3> HIDE DEF e, f
    <3>3. QED BY <2>2, <3>1, <3>2, LLMProxyBounds, BreakerAssumption, PoolAssumption
  <2>4. CASE ~(q = p /\ j = i)
    <3>1. pools'[q].keys[j] = pools[q].keys[j]
      BY <2>1, <2>4, MarkErrorSame DEF SharedSound
    <3>2. breakers'[<<q, j>>] = breakers[<<q, j>>]
      BY <2>1, <2>4 DEF SharedSound
    <3>3. QED BY <2>2, <3>1, <3>2
  <2>5. QED BY <2>3, <2>4
<1>5. QED BY <1>1, <1>2, <1>3, <1>4, AgreementKept

(* The admin and time.                                                      *)
LEMMA OutsideShared ==
  ASSUME SharedSound, Outside
  PROVE  SharedSound'
<1>0. Forgets /\ ((\E p \in Providers : Reset(p)) \/ Observe \/ Tick)
  BY DEF Outside
<1>1. \A d \in Cells : breakers[d].failures \in Nat
  BY CountsAreNat
<1>2. \A q \in Providers : \A j \in DOMAIN pools[q].keys : pools[q].keys[j].errors \in Nat
  BY CountsAreNat
<1>3. \A q \in Providers : /\ WellFormed(pools'[q]) /\ SameKeys(pools[q], pools'[q])
                           /\ pools'[q].keys = pools[q].keys
  <2>1. CASE pools' = pools
    BY <2>1 DEF SharedSound, SameKeys
  <2>2. CASE Tick
    BY <2>2, RestedSame DEF Tick, SharedSound, SameKeys
  <2>3. QED BY <1>0, <2>1, <2>2 DEF Reset, Observe
<1>4. \A d \in Cells : Sound(breakers'[d]) /\ breakers'[d].failures <= breakers[d].failures
  BY <1>0, <1>1, ReadStateSound, ResetBreakerSound, OlderSound DEF Reset, Observe, Tick, SharedSound
<1>5. /\ pools' = [q \in Providers |-> pools'[q]]
      /\ breakers' = [d \in Cells |-> breakers'[d]]
  BY <1>0 DEF Reset, Observe, Tick, SharedSound
<1>6. \A q \in Providers : \A j \in DOMAIN pools[q].keys :
         pools'[q].keys[j].errors >= pools[q].keys[j].errors
  BY <1>2, <1>3
<1>7. QED BY <1>0, <1>3, <1>4, <1>5, <1>6, QuietStep

(* A key that is added, perhaps to a cell whose breaker has a past.         *)
LEMMA AdditionShared ==
  ASSUME SharedSound, NEW p \in Providers, NEW k \in KeyIds, AdminAdds(p, k)
  PROVE  SharedSound'
<1> DEFINE last == Len(pools[p].keys) + 1
<1>1. WellFormed(pools[p]) /\ Len(pools[p].keys) \in Nat /\ <<p, last>> \in Cells
  BY DomainInPositions DEF SharedSound, AdminAdds
<1>2. Len(pools[p].keys) < MaxKeys
  BY <1>1, PoolAssumption DEF Cells, Positions
<1>3. /\ pools' = [pools EXCEPT ![p] = AddKey(pools[p], k)]
      /\ breakers' = breakers /\ edits < MaxEdits /\ edits' = edits + 1
      /\ inherited' = inherited \cup {d \in {<<p, last>>} : breakers[d].failures # 0}
  BY DEF AdminAdds, Edit
<1>4. /\ WellFormed(AddKey(pools[p], k))
      /\ DOMAIN AddKey(pools[p], k).keys = DOMAIN pools[p].keys \cup {last}
      /\ \A i \in DOMAIN pools[p].keys : AddKey(pools[p], k).keys[i] = pools[p].keys[i]
      /\ AddKey(pools[p], k).keys[last] = NewEntry(k)
  BY <1>1, <1>2, AddKeyLast
<1> HIDE DEF last
<1>5. /\ pools'[p] = AddKey(pools[p], k)
      /\ \A q \in Providers \ {p} : pools'[q] = pools[q]
  BY <1>3 DEF SharedSound
<1>6. \A q \in Providers : WellFormed(pools'[q])
  BY <1>4, <1>5 DEF SharedSound
<1>7. pools' \in [Providers -> PoolRecord]
  BY <1>3, <1>6 DEF SharedSound, WellFormed
<1>8. ASSUME NEW q \in Providers, NEW j \in DOMAIN pools'[q].keys, <<q, j>> \notin inherited'
      PROVE  breakers'[<<q, j>>].failures <= pools'[q].keys[j].errors
  <2>1. CASE j \in DOMAIN pools[q].keys
    <3>1. pools'[q].keys[j] = pools[q].keys[j]
      BY <1>4, <1>5, <2>1
    <3>2. <<q, j>> \notin inherited
      BY <1>3, <1>8
    <3>3. QED BY <1>3, <2>1, <3>1, <3>2, Counts
  <2>2. CASE j \notin DOMAIN pools[q].keys
    <3>1. q = p /\ j = last
      BY <1>4, <1>5, <1>8, <2>2
    <3>2. breakers'[<<q, j>>].failures = 0
      BY <1>3, <1>8, <3>1
    <3>3. pools'[q].keys[j].errors \in 0 .. ErrorThreshold
      BY <1>6, <1>8, DomainInPositions DEF Entry
    <3>4. QED BY <3>2, <3>3, PoolAssumption
  <2>3. QED BY <2>1, <2>2
<1>9. edits' \in 0 .. MaxEdits /\ inherited' \subseteq Cells
  <2>1. edits' \in 0 .. MaxEdits
    BY <1>3, LLMProxyAssumption DEF SharedSound
  <2>2. inherited' \subseteq Cells
    BY <1>1, <1>3 DEF SharedSound
  <2>3. QED BY <2>1, <2>2
<1>10. QED BY <1>3, <1>6, <1>7, <1>8, <1>9 DEF SharedSound, BreakerCountsKeyErrors

(* A key that is removed: those behind it come to the breakers of others.   *)
LEMMA RemovalShared ==
  ASSUME SharedSound, NEW p \in Providers, NEW i \in Positions, AdminRemoves(p, i)
  PROVE  SharedSound'
<1>1. i \in DOMAIN pools[p].keys /\ WellFormed(pools[p])
  BY DEF AdminRemoves, SharedSound
<1>2. /\ pools' = [pools EXCEPT ![p] = RemoveKey(pools[p], i)]
      /\ breakers' = breakers /\ edits < MaxEdits /\ edits' = edits + 1
      /\ inherited' = inherited \cup
            {c \in Cells : c[1] = p /\ c[2] >= i /\ breakers[c].failures # 0}
  BY DEF AdminRemoves, Edit
<1>3. /\ pools'[p] = RemoveKey(pools[p], i)
      /\ \A q \in Providers \ {p} : pools'[q] = pools[q]
  BY <1>2 DEF SharedSound
<1>4. WellFormed(RemoveKey(pools[p], i))
  BY <1>1, RemoveKeyWellFormed
<1>5. \A q \in Providers : WellFormed(pools'[q])
  BY <1>3, <1>4 DEF SharedSound
<1>6. pools' \in [Providers -> PoolRecord]
  BY <1>2, <1>5 DEF SharedSound, WellFormed
<1>7. ASSUME NEW q \in Providers, NEW j \in DOMAIN pools'[q].keys, <<q, j>> \notin inherited'
      PROVE  breakers'[<<q, j>>].failures <= pools'[q].keys[j].errors
  <2>1. <<q, j>> \notin inherited
    BY <1>2, <1>7
  <2>2. CASE q # p
    <3>1. pools'[q] = pools[q]
      BY <1>3, <2>2
    <3>2. QED BY <1>2, <1>7, <2>1, <3>1, Counts
  <2>3. CASE q = p
    <3>1. /\ j \in 1 .. Len(pools[p].keys) - 1 /\ Len(pools[p].keys) \in Nat
          /\ DOMAIN pools[p].keys = 1 .. Len(pools[p].keys)
          /\ pools'[p].keys[j] = pools[p].keys[IF j < i THEN j ELSE j + 1]
      <4>1. Len(pools[p].keys) \in Nat /\ DOMAIN pools[p].keys = 1 .. Len(pools[p].keys)
        BY <1>1, DomainInPositions
      <4>2. j \in DOMAIN RemoveKey(pools[p], i).keys
        BY <1>3, <1>7, <2>3
      <4>3. j \in 1 .. Len(pools[p].keys) - 1
        BY <1>1, <4>2, RemoveKeyMovesUp
      <4>4. RemoveKey(pools[p], i).keys[j] = pools[p].keys[IF j < i THEN j ELSE j + 1]
        BY <1>1, <4>3, RemoveKeyMovesUp
      <4>5. QED BY <1>3, <4>1, <4>3, <4>4
    <3>2. j \in DOMAIN pools[p].keys /\ i \in Nat /\ j \in Nat
      BY <1>1, <3>1
    <3>3. CASE j < i
      <4>1. pools'[p].keys[j] = pools[p].keys[j]
        BY <3>1, <3>3
      <4>2. QED BY <1>2, <2>1, <2>3, <3>2, <4>1, Counts
    <3>4. CASE j >= i
      <4>1. <<p, j>> \in Cells
        BY <3>2, Counts
      <4>2. breakers[<<p, j>>].failures = 0
        BY <1>2, <1>7, <2>3, <3>4, <4>1
      <4>3. pools'[q].keys[j].errors \in 0 .. ErrorThreshold
        BY <1>5, <1>7, DomainInPositions DEF Entry
      <4>4. QED BY <1>2, <2>3, <4>2, <4>3, PoolAssumption
    <3>5. QED BY <3>2, <3>3, <3>4
  <2>4. QED BY <2>2, <2>3
<1>8. edits' \in 0 .. MaxEdits /\ inherited' \subseteq Cells
  BY <1>2, LLMProxyAssumption DEF SharedSound
<1>9. QED BY <1>2, <1>5, <1>6, <1>7, <1>8 DEF SharedSound, BreakerCountsKeyErrors
-----------------------------------------------------------------------------
(* The actions.                                                             *)

\* A step of the contract, on the view of the request that takes it.
StepsTo(v, w) ==
  \/ w = v
  \/ /\ v = Contract!Ended("none")
     /\ \E last \in 0 .. Cardinality(Providers), most \in 0 .. MostTries :
          w = [at |-> 1, last |-> last, most |-> most, tries |-> 0, waiting |-> FALSE,
               outcome |-> "none"]
  \/ /\ Contract!Open(v) /\ v.tries < v.most
     /\ w = [v EXCEPT !.tries = @ + 1, !.waiting = TRUE]
  \/ v.waiting /\ w = [v EXCEPT !.waiting = FALSE]
  \/ Contract!Open(v) /\ w = [v EXCEPT !.at = @ + 1, !.tries = 0]
  \/ v.waiting /\ \E o \in {"ok", "rejected", "left"} : w = Contract!Ended(o)
  \/ v.at = v.last + 1 /\ \E o \in {"ok", "unavailable"} : w = Contract!Ended(o)

\* A call that waits was waiting before, or does not heed its breaker, or
\* finds it not OPEN.
LetThrough(q, n) ==
  n.pc = "calling" =>
    \/ /\ q.pc = "calling"
       /\ n.kind = q.kind /\ n.route = q.route /\ n.at = q.at /\ n.key = q.key
    \/ ~ HeedsBreaker(n.kind)
    \/ breakers'[<<n.route[n.at], n.key>>].state # "open"

\* Request r alone takes a step, to n.
Goes(r, n) ==
  /\ ReqSound(n)
  /\ req' = [req EXCEPT ![r] = n]
  /\ turn' \in Requests \cup {Nobody}
  /\ StepsTo(View(req[r]), View(n))
  /\ LetThrough(req[r], n)

(* What the contract sees of a request in its loop, and of one asleep.      *)
LEMMA LoopView ==
  ASSUME NEW q, q.pc = "loop"
  PROVE  /\ View(q).at = q.at /\ View(q).last = Len(q.route) /\ View(q).waiting = FALSE
         /\ q.at \in 1 .. Len(q.route) => Contract!Open(View(q))
<1>1. View(q).at = q.at /\ View(q).last = Len(q.route)
  BY DEF View
<1>2. View(q).waiting = FALSE
  BY DEF View
<1>3. QED BY <1>1, <1>2 DEF Contract!Open

LEMMA SleepView ==
  ASSUME NEW q, q.pc = "sleeping"
  PROVE  [View(q) EXCEPT !.waiting = FALSE] = View(q)
<1>1. ASSUME NEW v, NEW y, IsView(v), v.waiting = y
      PROVE  [v EXCEPT !.waiting = y] = v
  BY <1>1 DEF IsView
<1>2. View(q).waiting = FALSE
  BY DEF View
<1>3. QED BY <1>1, <1>2, ViewIsView, Zenon

(* A request in its loop, with a provider left.                             *)
LEMMA Looping ==
  ASSUME IInv, NEW r \in Requests, Running(r)
  PROVE  /\ ReqSound(req[r]) /\ Underway(req[r]) /\ req[r] \in ReqRecord /\ req[r].at \in Nat
         /\ Len(req[r].route) \in Nat
         /\ View(req[r]).at = req[r].at /\ View(req[r]).last = Len(req[r].route)
         /\ Under(r) => Here(r) \in Providers /\ Contract!Open(View(req[r]))
<1>1. ReqSound(req[r]) /\ req[r].pc = "loop"
  BY DEF IInv, Running
<1>2. Underway(req[r]) /\ req[r] \in ReqRecord
  BY <1>1 DEF ReqSound, Over
<1>3. req[r].at \in Nat /\ Len(req[r].route) \in Nat
  BY <1>2, Fields
<1>4. /\ View(req[r]).at = req[r].at /\ View(req[r]).last = Len(req[r].route)
      /\ req[r].at \in 1 .. Len(req[r].route) => Contract!Open(View(req[r]))
  BY <1>1, LoopView, Zenon
<1>5. ASSUME Under(r)
      PROVE  Here(r) \in Providers /\ Contract!Open(View(req[r]))
  <2>1. Here(r) \in Providers
    BY <1>2, <1>5, HereIsProvider DEF Here, Under
  <2>2. req[r].at \in 1 .. Len(req[r].route)
    BY <1>2, <1>3, <1>5 DEF Under, Underway
  <2>3. QED BY <1>4, <2>1, <2>2
<1>6. QED BY <1>1, <1>2, <1>3, <1>4, <1>5

(* A request whose call is under way.                                       *)
LEMMA Calling ==
  ASSUME IInv, NEW r \in Requests, req[r].pc = "calling"
  PROVE  /\ ReqSound(req[r]) /\ Here(r) \in Providers /\ req[r].key \in Positions
         /\ View(req[r]).waiting
<1>1. ReqSound(req[r])
  BY DEF IInv
<1>2. Underway(req[r]) /\ req[r] \in ReqRecord
  BY <1>1 DEF ReqSound, Over
<1>3. View(req[r]).waiting
  BY DEF View
<1>4. QED BY <1>1, <1>2, <1>3, HereIsProvider DEF Here, Underway

(* A key the pool hands out.                                                *)
LEMMA HandedOut ==
  ASSUME SharedSound, NEW p \in Providers, NEW i \in NextKeys(pools[p], KeyRotation)
  PROVE  i \in Positions /\ <<p, i>> \in Cells
<1>1. i \in DOMAIN pools[p].keys
  BY LLMProxyAssumption DEF NextKeys, RoundRobin, LeastUsed, Eligible, Strategies
<1>2. QED BY <1>1, Counts

(* The ways to end, to try again and to wait.                               *)
LEMMA Ends ==
  ASSUME IInv, NEW r \in Requests, NEW o \in Outcomes, Finish(r, o),
         \/ req[r].pc = "calling" /\ o \in {"ok", "rejected", "left"}
         \/ Running(r) /\ ~ Under(r) /\ o \in {"ok", "unavailable"}
  PROVE  \E n : Goes(r, n)
<1> DEFINE n == [NewReq EXCEPT !.pc = "done", !.outcome = o]
<1>1. /\ ReqSound(n) /\ n.pc = "done"
      /\ View(n) = [at |-> 0, last |-> 0, most |-> 0, tries |-> 0, waiting |-> FALSE,
                    outcome |-> o]
  BY Finished
<1>2. req' = [req EXCEPT ![r] = n] /\ turn' \in Requests \cup {Nobody}
  BY DEF Finish
<1> HIDE DEF n
<1>3. View(n) = Contract!Ended(o)
  BY <1>1 DEF Contract!Ended
<1>4. StepsTo(View(req[r]), View(n))
  <2>1. CASE req[r].pc = "calling" /\ o \in {"ok", "rejected", "left"}
    BY <2>1, <1>3, Calling DEF StepsTo
  <2>2. CASE Running(r) /\ ~ Under(r) /\ o \in {"ok", "unavailable"}
    <3>1. /\ req[r].at \in 1 .. Len(req[r].route) + 1 /\ Len(req[r].route) \in Nat
          /\ ~ (req[r].at <= Len(req[r].route))
      BY <2>2, Looping DEF Under, Underway
    <3>2. View(req[r]).at = View(req[r]).last + 1
      BY <2>2, <3>1, Looping
    <3>3. QED BY <2>2, <3>2, <1>3 DEF StepsTo
  <2>3. QED BY <2>1, <2>2
<1>5. LetThrough(req[r], n)
  BY <1>1 DEF LetThrough
<1>6. QED BY <1>1, <1>2, <1>4, <1>5 DEF Goes

LEMMA Retries ==
  ASSUME IInv, NEW r \in Requests, req[r].pc \in {"calling", "sleeping"}, TryAgain(r)
  PROVE  \E n : Goes(r, n)
<1> DEFINE n == [req[r] EXCEPT !.pc = "loop", !.attempt = @ + 1]
<1>1. ReqSound(req[r])
  BY DEF IInv
<1>2. ReqSound(n) /\ n.pc = "loop" /\ View(n) = [View(req[r]) EXCEPT !.waiting = FALSE]
  BY <1>1, TriedAgain
<1>3. req' = [req EXCEPT ![r] = n]
  BY DEF TryAgain
<1>4. turn' \in Requests \cup {Nobody}
  BY DEF TryAgain
<1> HIDE DEF n
<1>5. StepsTo(View(req[r]), View(n))
  <2>1. CASE req[r].pc = "calling"
    BY <2>1, <1>2, Calling DEF StepsTo
  <2>2. CASE req[r].pc = "sleeping"
    <3>1. [View(req[r]) EXCEPT !.waiting = FALSE] = View(req[r])
      BY <2>2, SleepView, Zenon
    <3>2. QED BY <1>2, <3>1 DEF StepsTo
  <2>3. QED BY <2>1, <2>2
<1>6. LetThrough(req[r], n)
  BY <1>2 DEF LetThrough
<1>7. QED BY <1>2, <1>3, <1>4, <1>5, <1>6 DEF Goes

(* Start, MoveOn and Skip.                                                  *)
LEMMA StartGoes ==
  ASSUME IInv, NEW r \in Requests, NEW kind \in Kinds, NEW p \in Providers, Start(r, kind, p)
  PROVE  \E n : Goes(r, n)
<1> DEFINE route == Route(kind, p)
           n == [req[r] EXCEPT !.pc = "loop", !.kind = kind, !.route = route, !.at = 1]
<1>1. ReqSound(req[r]) /\ req[r].pc = "new" /\ kind \in AllKinds
  BY LLMProxyAssumption DEF IInv, Start
<1>2. /\ ReqSound(n) /\ n.pc = "loop"
      /\ View(req[r]) = Contract!Ended("none")
      /\ View(n) = [at |-> 1, last |-> Len(route), most |-> Tries(kind), tries |-> 0,
                    waiting |-> FALSE, outcome |-> "none"]
  <2>1. Contract!Ended("none") = [at |-> 0, last |-> 0, most |-> 0, tries |-> 0,
                                  waiting |-> FALSE, outcome |-> "none"]
    BY DEF Contract!Ended
  <2>2. View(req[r]) = [at |-> 0, last |-> 0, most |-> 0, tries |-> 0, waiting |-> FALSE,
                        outcome |-> "none"]
    BY <1>1, Started, Zenon
  <2>3. ReqSound(n)
    BY <1>1, Started, Zenon
  <2>4. View(n) = [at |-> 1, last |-> Len(route), most |-> Tries(kind), tries |-> 0,
                   waiting |-> FALSE, outcome |-> "none"]
    BY <1>1, Started, Zenon
  <2>5. n.pc = "loop"
    BY <1>1 DEF ReqSound, ReqRecord
  <2>6. QED BY <2>1, <2>2, <2>3, <2>4, <2>5
<1>3. req' = [req EXCEPT ![r] = n]
  BY DEF Start
<1>4. turn' \in Requests \cup {Nobody}
  BY DEF Start
<1>5. Len(route) \in 0 .. Cardinality(Providers) /\ Tries(kind) \in 0 .. MostTries
  <2>1. route \in Seq(Providers) /\ Len(route) <= Cardinality(Providers)
    BY <1>1, RouteBounded
  <2> HIDE DEF route
  <2>2. Len(route) \in Nat
    BY <2>1
  <2>3. QED BY <1>1, <2>1, <2>2, Bounds
<1> HIDE DEF n, route
<1>6. StepsTo(View(req[r]), View(n))
  BY <1>2, <1>5, Zenon DEF StepsTo
<1>7. LetThrough(req[r], n)
  BY <1>2 DEF LetThrough
<1>8. QED BY <1>2, <1>3, <1>4, <1>6, <1>7 DEF Goes

LEMMA MoveOnGoes ==
  ASSUME IInv, NEW r \in Requests, MoveOn(r)
  PROVE  \E n : Goes(r, n)
<1> DEFINE n == [req[r] EXCEPT !.at = @ + 1, !.attempt = 0, !.key = 0, !.calls = 0]
<1>1. Running(r) /\ Under(r)
  BY DEF MoveOn
<1>2. ReqSound(req[r]) /\ req[r].pc = "loop" /\ req[r].at <= Len(req[r].route)
  BY <1>1, Looping DEF Running, Under
<1>3. /\ ReqSound(n) /\ n.pc = "loop"
      /\ View(n) = [View(req[r]) EXCEPT !.at = @ + 1, !.tries = 0]
  BY <1>2, MovedOn
<1>4. req' = [req EXCEPT ![r] = n]
  BY DEF MoveOn
<1>5. turn' \in Requests \cup {Nobody}
  BY DEF MoveOn, IInv
<1> HIDE DEF n
<1>6. StepsTo(View(req[r]), View(n))
  BY <1>1, <1>3, Looping, Zenon DEF StepsTo
<1>7. LetThrough(req[r], n)
  BY <1>3 DEF LetThrough
<1>8. QED BY <1>3, <1>4, <1>5, <1>6, <1>7 DEF Goes

LEMMA SkipGoes ==
  ASSUME IInv, Forgets, NEW r \in Requests, Skip(r)
  PROVE  (\E n : Goes(r, n)) /\ SharedSound'
<1> DEFINE n == [req[r] EXCEPT !.attempt = @ + 1]
<1>1. Running(r) /\ Under(r) /\ req[r].attempt < Tries(req[r].kind)
  BY DEF Skip
<1>2. ReqSound(req[r]) /\ req[r].pc = "loop" /\ Here(r) \in Providers
  BY <1>1, Looping DEF Running
<1>3. ReqSound(n) /\ n.pc = "loop" /\ View(n) = View(req[r])
  BY <1>1, <1>2, Skipped
<1>4. req' = [req EXCEPT ![r] = n]
  BY DEF Skip
<1>5. turn' \in Requests \cup {Nobody}
  BY DEF Skip, IInv
<1>6. SharedSound'
  <2>1. PICK i \in NextKeys(pools[Here(r)], KeyRotation) :
               pools' = [pools EXCEPT ![Here(r)] = Picked(@, KeyRotation)]
    BY DEF Skip
  <2>2. SharedSound /\ breakers' = breakers
    BY DEF IInv, Skip
  <2>3. <<Here(r), i>> \in Cells
    BY <1>2, <2>2, HandedOut
  <2>4. QED BY <1>2, <2>1, <2>2, <2>3, PickShared
<1> HIDE DEF n
<1>7. StepsTo(View(req[r]), View(n)) /\ LetThrough(req[r], n)
  BY <1>3 DEF StepsTo, LetThrough
<1>8. QED BY <1>3, <1>4, <1>5, <1>6, <1>7 DEF Goes

(* Dial: the key's breaker is not OPEN, or not asked.                       *)
LEMMA DialGoes ==
  ASSUME IInv, Forgets, NEW r \in Requests, Dial(r)
  PROVE  (\E n : Goes(r, n)) /\ SharedSound'
<1>1. Running(r) /\ Under(r) /\ req[r].attempt < Tries(req[r].kind)
  BY DEF Dial
<1>2. /\ ReqSound(req[r]) /\ req[r].pc = "loop" /\ Here(r) \in Providers
      /\ req[r].at <= Len(req[r].route) /\ req[r] \in ReqRecord
      /\ Contract!Open(View(req[r]))
  BY <1>1, Looping DEF Running, Under
<1>3. PICK i \in NextKeys(pools[Here(r)], KeyRotation) :
             /\ pools' = [pools EXCEPT ![Here(r)] = Picked(@, KeyRotation)]
             /\ IF HeedsBreaker(req[r].kind)
                  THEN /\ IsAvailable(breakers[<<Here(r), i>>])
                       /\ breakers' = [breakers EXCEPT ![<<Here(r), i>>] = ReadState(@)]
                  ELSE UNCHANGED breakers
             /\ req' = [req EXCEPT ![r] = [req[r] EXCEPT !.pc = "calling", !.key = i,
                                                         !.calls = @ + 1]]
  BY DEF Dial
<1>4. SharedSound
  BY DEF IInv
<1>5. i \in Positions /\ <<Here(r), i>> \in Cells
  BY <1>2, <1>4, HandedOut
<1> DEFINE n == [req[r] EXCEPT !.pc = "calling", !.key = i, !.calls = @ + 1]
<1>6. /\ ReqSound(n) /\ View(req[r]).tries < View(req[r]).most
      /\ View(n) = [View(req[r]) EXCEPT !.tries = @ + 1, !.waiting = TRUE]
  BY <1>1, <1>2, <1>5, Dialled
<1>7. n.kind = req[r].kind /\ n.route[n.at] = Here(r) /\ n.key = i
  BY <1>2 DEF ReqRecord, Here
<1>8. req' = [req EXCEPT ![r] = n]
  BY <1>3
<1>9. turn' \in Requests \cup {Nobody}
  BY DEF Dial
<1>10. SharedSound'
  BY <1>2, <1>3, <1>4, <1>5, PickShared
<1> HIDE DEF n
<1>11. StepsTo(View(req[r]), View(n))
  BY <1>2, <1>6, Zenon DEF StepsTo
<1>12. LetThrough(req[r], n)
  <2>1. CASE HeedsBreaker(req[r].kind)
    <3>1. breakers'[<<Here(r), i>>] = ReadState(breakers[<<Here(r), i>>])
      BY <1>3, <1>4, <1>5, <2>1 DEF SharedSound
    <3>2. breakers'[<<n.route[n.at], n.key>>].state # "open"
      BY <1>3, <1>7, <2>1, <3>1 DEF IsAvailable
    <3>3. QED BY <3>2 DEF LetThrough
  <2>2. CASE ~ HeedsBreaker(req[r].kind)
    BY <1>7, <2>2 DEF LetThrough
  <2>3. QED BY <2>1, <2>2
<1>13. QED BY <1>6, <1>8, <1>9, <1>10, <1>11, <1>12 DEF Goes

(* The sleep before a retry, and a chunk.                                   *)
LEMMA SleepGoes ==
  ASSUME IInv, NEW r \in Requests, req[r].pc = "calling", turn' = Nobody,
         req' = [req EXCEPT ![r] = [req[r] EXCEPT !.pc = "sleeping"]]
  PROVE  \E n : Goes(r, n)
<1> DEFINE n == [req[r] EXCEPT !.pc = "sleeping"]
<1>1. ReqSound(req[r]) /\ View(req[r]).waiting
  BY Calling
<1>2. ReqSound(n) /\ n.pc = "sleeping" /\ View(n) = [View(req[r]) EXCEPT !.waiting = FALSE]
  BY <1>1, FallenAsleep
<1> HIDE DEF n
<1>3. StepsTo(View(req[r]), View(n)) /\ LetThrough(req[r], n)
  BY <1>1, <1>2, Zenon DEF StepsTo, LetThrough
<1>4. req' = [req EXCEPT ![r] = n]
  BY DEF n
<1>5. QED BY <1>2, <1>3, <1>4 DEF Goes

LEMMA ChunkGoes ==
  ASSUME IInv, NEW r \in Requests, Chunk(r)
  PROVE  \E n : Goes(r, n)
<1> DEFINE n == [req[r] EXCEPT !.got = @ \cup {req[r].route[req[r].at]}]
<1>1. req[r].pc = "calling" /\ ReqSound(req[r])
  BY Calling DEF Chunk, Awaiting
<1>2. /\ ReqSound(n) /\ View(n) = View(req[r])
      /\ n.pc = req[r].pc /\ n.kind = req[r].kind /\ n.route = req[r].route
      /\ n.at = req[r].at /\ n.key = req[r].key
  BY <1>1, ChunkNoted
<1>3. req' = [req EXCEPT ![r] = n] /\ turn' \in Requests \cup {Nobody}
  BY DEF Chunk, Here, IInv
<1> HIDE DEF n
<1>4. StepsTo(View(req[r]), View(n)) /\ LetThrough(req[r], n)
  BY <1>1, <1>2 DEF StepsTo, LetThrough
<1>5. QED BY <1>2, <1>3, <1>4 DEF Goes

(* Whatever does not touch the shared state keeps it sound.                 *)
LEMMA SharedKept ==
  ASSUME SharedSound, UNCHANGED <<pools, breakers>>, Forgets
  PROVE  SharedSound'
<1>1. \A p \in Providers : WellFormed(pools'[p]) /\ SameKeys(pools[p], pools'[p])
  BY DEF SharedSound, SameKeys
<1>2. QED BY <1>1, AgreementKept DEF SharedSound

LEMMA SharedSame ==
  ASSUME SharedSound, UNCHANGED <<pools, breakers, edits, inherited>>
  PROVE  SharedSound'
BY DEF SharedSound, BreakerCountsKeyErrors

(* The step of a request that has started.                                  *)
LEMMA ProceedStep ==
  ASSUME IInv, NEW r \in Requests, Proceed(r)
  PROVE  (\E n : Goes(r, n)) /\ SharedSound'
<1>1. SharedSound /\ Forgets
  BY DEF IInv, Proceed
<1>2. req[r].pc = "calling" => Here(r) \in Providers /\ req[r].key \in Positions
  BY Calling
<1>3. {"ok", "rejected", "unavailable", "left"} \subseteq Outcomes
  BY DEF Outcomes
<1>4. CASE GiveUp(r)
  <2>1. CASE req[r].kind = "models"
    BY <1>1, <1>3, <1>4, <2>1, Ends, SharedKept DEF GiveUp
  <2>2. CASE req[r].kind # "models"
    BY <1>1, <1>3, <1>4, <2>2, Ends, SharedKept DEF GiveUp
  <2>3. QED BY <2>1, <2>2
<1>5. CASE MoveOn(r)
  BY <1>1, <1>5, MoveOnGoes, SharedKept DEF MoveOn
<1>6. CASE Skip(r)
  BY <1>1, <1>6, SkipGoes
<1>7. CASE Dial(r)
  BY <1>1, <1>7, DialGoes
<1>8. CASE Answered(r)
  BY <1>1, <1>2, <1>3, <1>8, Ends, AnswerShared DEF Answered, Awaiting, Held
<1>9. CASE RateLimited(r)
  BY <1>1, <1>2, <1>9, Retries, RateLimitShared DEF RateLimited, Awaiting
<1>10. CASE Rejected(r)
  BY <1>1, <1>2, <1>3, <1>10, Ends, ErrorShared DEF Rejected, Awaiting, Blame, Held
<1>11. CASE ServerError(r)
  <2>1. req[r].pc = "calling" /\ Blame(r)
    BY <1>11 DEF ServerError, Awaiting
  <2>2. SharedSound'
    BY <1>1, <1>2, <2>1, ErrorShared DEF Blame, Held
  <2>3. CASE req[r].attempt < MaxRetries - 1
    BY <1>11, <2>1, <2>2, <2>3, SleepGoes DEF ServerError
  <2>4. CASE ~ (req[r].attempt < MaxRetries - 1)
    BY <1>11, <2>1, <2>2, <2>4, Retries DEF ServerError
  <2>5. QED BY <2>3, <2>4
<1>12. CASE Wake(r)
  BY <1>1, <1>12, Retries, SharedKept DEF Wake
<1>13. CASE Chunk(r)
  BY <1>1, <1>13, ChunkGoes, SharedKept DEF Chunk
<1>14. CASE StreamError(r)
  BY <1>1, <1>2, <1>14, Retries, ErrorShared DEF StreamError, Awaiting, Blame, Held
<1>15. CASE Leave(r)
  BY <1>1, <1>3, <1>15, Ends, SharedKept DEF Leave, Awaiting
<1>16. CASE EmbedAnswered(r)
  BY <1>1, <1>2, <1>3, <1>16, Ends, AnswerShared DEF EmbedAnswered, Awaiting
<1>17. CASE EmbedFailed(r)
  BY <1>1, <1>2, <1>3, <1>17, Ends, ErrorShared DEF EmbedFailed, Awaiting
<1>18. CASE Listed(r)
  BY <1>1, <1>18, Retries, SharedKept DEF Listed, Awaiting
<1>19. QED
  BY <1>4, <1>5, <1>6, <1>7, <1>8, <1>9, <1>10, <1>11, <1>12, <1>13, <1>14, <1>15,
     <1>16, <1>17, <1>18 DEF Proceed

(* Every step is the step of one request, or leaves them all alone.         *)
LEMMA NextStep ==
  ASSUME IInv, [Next]_vars
  PROVE  /\ SharedSound'
         /\ (\E r \in Requests : \E n : Goes(r, n)) \/ UNCHANGED <<turn, req>>
<1>1. SharedSound
  BY DEF IInv
<1>2. CASE \E r \in Requests, kind \in Kinds, p \in Providers : Start(r, kind, p)
  <2>1. PICK r \in Requests, kind \in Kinds, p \in Providers : Start(r, kind, p)
    BY <1>2
  <2>2. UNCHANGED <<pools, breakers, edits, inherited>>
    BY <2>1 DEF Start
  <2>3. QED BY <1>1, <2>1, <2>2, StartGoes, SharedSame
<1>3. CASE \E r \in Requests : Proceed(r)
  BY <1>3, ProceedStep
<1>4. CASE Outside
  <2>1. SharedSound'
    BY <1>1, <1>4, OutsideShared
  <2>2. UNCHANGED <<turn, req>>
    BY <1>4 DEF Outside, Reset, Observe, Tick
  <2>3. QED BY <2>1, <2>2
<1>5. CASE \E p \in Providers, k \in KeyIds : AdminAdds(p, k)
  BY <1>1, <1>5, AdditionShared DEF AdminAdds, Edit
<1>6. CASE \E p \in Providers, i \in Positions : AdminRemoves(p, i)
  BY <1>1, <1>6, RemovalShared DEF AdminRemoves, Edit
<1>7. CASE UNCHANGED vars
  BY <1>1, <1>7, SharedSame DEF vars
<1>8. QED BY <1>2, <1>3, <1>4, <1>5, <1>6, <1>7 DEF Next

LEMMA NextIInv ==
  ASSUME IInv, [Next]_vars
  PROVE  IInv'
<1>1. SharedSound'
  BY NextStep
<1>2. CASE UNCHANGED <<turn, req>>
  BY <1>1, <1>2 DEF IInv
<1>3. CASE \E r \in Requests : \E n : Goes(r, n)
  <2>1. PICK r \in Requests : \E n : Goes(r, n)
    BY <1>3
  <2>2. PICK n : Goes(r, n)
    BY <2>1
  <2>3. ReqSound(n) /\ n \in ReqRecord /\ req' = [req EXCEPT ![r] = n]
          /\ turn' \in Requests \cup {Nobody}
    BY <2>2 DEF Goes, ReqSound
  <2>4. QED BY <1>1, <2>3 DEF IInv
<1>4. QED BY <1>2, <1>3, NextStep
-----------------------------------------------------------------------------
LEMMA InitIInv == Init => IInv
<1> SUFFICES ASSUME Init PROVE IInv
  OBVIOUS
<1>1. \A p \in Providers : WellFormed(pools[p])
  <2> SUFFICES ASSUME NEW p \in Providers PROVE WellFormed(pools[p])
    OBVIOUS
  <2> DEFINE ks == [i \in DOMAIN KeysOf[p] |-> NewEntry(KeysOf[p][i])]
  <2>1. KeysOf[p] \in Seq(KeyIds) /\ Len(KeysOf[p]) <= MaxKeys
    BY LLMProxyAssumption
  <2>2. \A k \in KeyIds : NewEntry(k) \in Entry
    BY PoolAssumption DEF NewEntry, Entry
  <2>3. ks \in Seq(Entry) /\ Len(ks) = Len(KeysOf[p])
    <3>1. DOMAIN KeysOf[p] = 1 .. Len(KeysOf[p]) /\ Len(KeysOf[p]) \in Nat
            /\ \A i \in 1 .. Len(KeysOf[p]) : KeysOf[p][i] \in KeyIds
      BY <2>1
    <3>2. ks = [i \in 1 .. Len(KeysOf[p]) |-> NewEntry(KeysOf[p][i])]
      BY <3>1
    <3>3. QED BY <2>2, <3>1, <3>2
  <2>4. EmptyPool \in PoolRecord
    BY PoolAssumption DEF EmptyPool, PoolRecord, Positions
  <2>5. pools[p] = [EmptyPool EXCEPT !.keys = ks]
    BY DEF Init
  <2> HIDE DEF ks
  <2>6. QED BY <2>1, <2>3, <2>4, <2>5 DEF WellFormed, PoolRecord
<1>2. \A c \in Cells : Sound(breakers[c]) /\ breakers[c].failures = 0
  BY NewBreakerSound DEF Init, NewBreaker
<1>3. pools \in [Providers -> PoolRecord] /\ breakers \in [Cells -> CircuitBreakerRecord]
  <2>1. pools = [p \in Providers |-> pools[p]] /\ breakers = [c \in Cells |-> breakers[c]]
    BY DEF Init
  <2>2. QED BY <1>1, <1>2, <2>1 DEF WellFormed, Sound
<1>4. BreakerCountsKeyErrors
  <2> SUFFICES ASSUME NEW p \in Providers, NEW i \in DOMAIN pools[p].keys
               PROVE  breakers[<<p, i>>].failures <= pools[p].keys[i].errors
    BY DEF BreakerCountsKeyErrors
  <2>1. i \in Positions /\ pools[p].keys[i] \in Entry
    BY <1>1, DomainInPositions
  <2>2. <<p, i>> \in Cells /\ pools[p].keys[i].errors \in 0 .. ErrorThreshold
    BY <2>1 DEF Cells, Entry
  <2>3. QED BY <1>2, <2>2, PoolAssumption
<1>5. ReqSound(NewReq)
  <2>1. 0 \in 0 .. MostTries /\ << >> \in Seq(Providers) /\ "chat" \in AllKinds
          /\ "none" \in Outcomes
    BY Bounds DEF AllKinds, Outcomes
  <2>2. QED BY <2>1 DEF NewReq, ReqSound, ReqRecord, Over
<1>6. edits \in 0 .. MaxEdits /\ inherited \subseteq Cells
  BY LLMProxyAssumption DEF Init
<1>7. QED BY <1>1, <1>2, <1>3, <1>4, <1>5, <1>6 DEF Init, IInv, SharedSound, ReqSound

(* IInv holds of every state the proxy reaches (llm_proxy.py:477-623).      *)
THEOREM Invariance == Spec => []IInv
<1>1. IInv /\ [Next]_vars => IInv'
  BY NextIInv
<1>2. QED BY <1>1, InitIInv, PTL DEF Spec

(* Requests, pools and breakers keep their types: a request never spends    *)
(* more attempts at a provider, or makes more calls there, than its kind    *)
(* allows, on any route (llm_proxy.py:477-623).                             *)
THEOREM TypeCorrect == Spec => []TypeOK
<1>1. IInv => TypeOK
  BY DEF IInv, SharedSound, TypeOK
<1>2. QED BY <1>1, Invariance, PTL

(* Breaker and pool agree on every key, for any number of requests: no      *)
(* failure the breaker holds is missing from error_count, whatever path of  *)
(* llm_proxy.py reported it and whatever keys the admin adds and removes    *)
(* (key_pool.py:138-167), but for those it had counted before the key came  *)
(* to its index, until it next forgets.                                     *)
THEOREM BreakerCountsKeyErrorsHolds == Spec => []BreakerCountsKeyErrors
<1>1. IInv => BreakerCountsKeyErrors
  BY DEF IInv, SharedSound
<1>2. QED BY <1>1, Invariance, PTL

(* No chat or stream is let through a breaker that stays OPEN               *)
(* (llm_proxy.py:509, 593), however many requests share it and whatever key *)
(* is at its index.                                                         *)
THEOREM OpenBreakerShedsHolds == Spec => OpenBreakerSheds
<1> DEFINE Sheds == \A c \in Cells :
                      breakers[c].state = "open" /\ breakers'[c].state = "open"
                        => WaitingOn(c, req') \subseteq WaitingOn(c, req)
<1>1. IInv /\ [Next]_vars => Sheds
  <2> SUFFICES ASSUME IInv, [Next]_vars PROVE Sheds
    OBVIOUS
  <2>1. CASE UNCHANGED <<turn, req>>
    BY <2>1
  <2>2. CASE \E r \in Requests : \E n : Goes(r, n)
    <3>1. PICK r \in Requests : \E n : Goes(r, n)
      BY <2>2
    <3>2. PICK n : Goes(r, n)
      BY <3>1
    <3>3. req' = [req EXCEPT ![r] = n] /\ LetThrough(req[r], n) /\ req \in [Requests -> ReqRecord]
      BY <3>2 DEF Goes, IInv
    <3>4. SUFFICES ASSUME NEW c \in Cells, breakers'[c].state = "open",
                          NEW s \in WaitingOn(c, req')
                   PROVE  s \in WaitingOn(c, req)
      OBVIOUS
    <3>5. CASE s = r
      <4>1. req'[r] = n /\ n.pc = "calling" /\ HeedsBreaker(n.kind)
              /\ <<n.route[n.at], n.key>> = c
        BY <3>3, <3>4, <3>5 DEF WaitingOn
      <4>2. req[r].pc = "calling" /\ n.kind = req[r].kind /\ n.route = req[r].route
              /\ n.at = req[r].at /\ n.key = req[r].key
        BY <3>3, <3>4, <4>1 DEF LetThrough
      <4>3. QED BY <3>5, <4>1, <4>2 DEF WaitingOn
    <3>6. CASE s # r
      BY <3>3, <3>4, <3>6 DEF WaitingOn
    <3>7. QED BY <3>5, <3>6
  <2>3. QED BY <2>1, <2>2, NextStep
<1>2. QED BY <1>1, Invariance, PTL DEF Spec, OpenBreakerSheds

(* The proxy implements Failover: whatever 429s, retries, skipped keys and  *)
(* open breakers occur, each request visits its providers in order, calls   *)
(* each no more often than its kind allows and is settled once.             *)
THEOREM KeepsContractHolds == Spec => KeepsContract
<1> DEFINE views == [r \in Requests |-> View(req[r])]
<1>1. Init => Contract!Init
  <2> SUFFICES ASSUME Init PROVE Contract!Init
    OBVIOUS
  <2>1. View(NewReq) = Contract!Ended("none")
    BY DEF NewReq, View, Contract!Ended
  <2>2. \A r \in Requests : req[r] = NewReq
    BY DEF Init
  <2>3. QED BY <2>1, <2>2 DEF Contract!Init
<1>2. IInv /\ [Next]_vars => [Contract!Next]_views
  <2> SUFFICES ASSUME IInv, [Next]_vars PROVE [Contract!Next]_views
    OBVIOUS
  <2>1. CASE UNCHANGED <<turn, req>>
    BY <2>1
  <2>2. CASE \E r \in Requests : \E n : Goes(r, n)
    <3>1. PICK r \in Requests : \E n : Goes(r, n)
      BY <2>2
    <3>2. PICK n : Goes(r, n)
      BY <3>1
    <3> DEFINE v == View(req[r])
               w == View(n)
    <3>3. StepsTo(v, w) /\ req' = [req EXCEPT ![r] = n] /\ req \in [Requests -> ReqRecord]
      BY <3>2 DEF Goes, IInv
    <3>4. views[r] = v
      OBVIOUS
    <3>5. views' = [views EXCEPT ![r] = w]
      BY <3>3
    <3>6. Contract!Change(r, w)
      BY <3>5 DEF Contract!Change
    <3>7. w = v => views' = views
      BY <3>3
    <3> HIDE DEF v, w, views
    <3>8. CASE v = Contract!Ended("none")
                 /\ \E last \in 0 .. Cardinality(Providers), most \in 0 .. MostTries :
                      w = [at |-> 1, last |-> last, most |-> most, tries |-> 0,
                           waiting |-> FALSE, outcome |-> "none"]
      BY <3>4, <3>6, <3>8, Zenon DEF Contract!Next, Contract!Begin, views
    <3>9. CASE Contract!Open(v) /\ v.tries < v.most
                 /\ w = [v EXCEPT !.tries = @ + 1, !.waiting = TRUE]
      BY <3>4, <3>6, <3>9, Zenon DEF Contract!Next, Contract!Contact, views
    <3>10. CASE v.waiting /\ w = [v EXCEPT !.waiting = FALSE]
      BY <3>4, <3>6, <3>10, Zenon DEF Contract!Next, Contract!Miss, views
    <3>11. CASE Contract!Open(v) /\ w = [v EXCEPT !.at = @ + 1, !.tries = 0]
      BY <3>4, <3>6, <3>11, Zenon DEF Contract!Next, Contract!Advance, views
    <3>12. CASE v.waiting /\ \E o \in {"ok", "rejected", "left"} : w = Contract!Ended(o)
      BY <3>4, <3>6, <3>12, Zenon DEF Contract!Next, Contract!Settle, views
    <3>13. CASE v.at = v.last + 1 /\ \E o \in {"ok", "unavailable"} : w = Contract!Ended(o)
      BY <3>4, <3>6, <3>13, Zenon DEF Contract!Next, Contract!RunOut, views
    <3>14. QED
      BY <3>3, <3>7, <3>8, <3>9, <3>10, <3>11, <3>12, <3>13, Zenon DEF StepsTo
  <2>3. QED BY <2>1, <2>2, NextStep
<1>3. QED BY <1>1, <1>2, Invariance, PTL DEF Spec, KeepsContract, Contract!Spec
=============================================================================
