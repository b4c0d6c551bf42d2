-------------------------- MODULE AuthSessions_proofs --------------------------
(***************************************************************************)
(* What the sessions of auth.py keep, for any numbers of users, requests,  *)
(* pairs and sessions and any lifetimes.  The argument: a mark is set for  *)
(* the whole life of a token, and only on pairs that have been minted, so  *)
(* a refused pair stays refused; hence what a request has read before an   *)
(* await can only have become weaker when it is used, never wrong.         *)
(***************************************************************************)
EXTENDS AuthSessions, FiniteSetTheorems, SequenceTheorems, TLAPS

\* A pair that has been minted.
Minted(p) == owner[p] # Nobody

\* The pairs whose access token is not accepted.
Refused == {p \in Pairs : ~Accepted(p)}

\* The steps of a login that has a pair and has not handed it out, the first two
\* of which it has not put on record by age.
Minting == {"keep", "date", "redate", "return"}
Undating == {"keep", "date"}

\* The minted pairs that are not waiting to be dated.
Dated == {p \in Pairs : Minted(p) /\ \A r \in Requests : req[r].pc \in Undating => req[r].pair # p}

\* A list of sessions lasts as long as the tokens in it, but for those it has not
\* been renewed for.
Outlives(u) ==
    \A p \in sessions[u].of : p \notin Unkept =>
        sessions[u].left = Forever \/ access[p] =< sessions[u].left

\* The store speaks of minted pairs only; a mark and a list of sessions last as
\* long as the tokens they are about; the list is finite, and empty when it is
\* gone; the sessions by age are of pairs that have been dated, each once.
StoreSound ==
    /\ \A p \in held : Minted(p)
    /\ \A p \in Pairs : Marked(revoked, p) => Minted(p) /\ access[p] =< revoked[p]
    /\ \A u \in Users : /\ IsFiniteSet(sessions[u].of)
                        /\ sessions[u].left = Gone => sessions[u].of = {}
                        /\ \A p \in sessions[u].of : owner[p] = u
                        /\ Outlives(u)
    /\ \A u \in Users : \A i \in DOMAIN detail[u].of : detail[u].of[i] \in Dated
    /\ \A u \in Users : \A i, j \in DOMAIN detail[u].of :
          detail[u].of[i] = detail[u].of[j] => i = j

\* LiveIsListed, from the moment a pair is minted.
Listed ==
    \A p \in Pairs \ orphans : Minted(p) /\ Accepted(p) => p \in sessions[owner[p]].of

\* What is older than a session in a queue is refused already, or before it there.
InOrder(queue, line) ==
    \A k \in DOMAIN queue : \A i, j \in DOMAIN line :
        i < j /\ line[j] = queue[k] =>
            line[i] \in Refused \/ \E m \in 1 .. k - 1 : queue[m] = line[i]

ForUser == Steps \ {"idle", "revoke", "forget"}

\* What a request has read, and still may rely on when it uses it.
ReqSound(r) ==
    LET q == req[r] IN
    /\ q.pc \in ForUser => q.user \in Users
    /\ q.pc = "rank" => q.count >= MaxSessions
    /\ q.pc \in {"evict", "unlist"} => /\ q.queue # << >>
                                       /\ \A k \in DOMAIN q.queue : q.queue[k] \in Dated
                                       /\ InOrder(q.queue, detail[q.user].of)
    /\ q.pc = "unlist" => q.queue[1] \in Refused
    /\ q.pc \in Minting => q.pair \in Pairs \ held /\ owner[q.pair] = q.user
    /\ q.pc \in {"consume", "revoke", "forget"} => q.pair \in held
    /\ q.pc = "forget" => q.pair \in Refused
    /\ q.pc \in {"read", "sweep", "drop", "undate"} => q.known \subseteq Owned(q.user)
    /\ q.pc \in {"sweep", "drop", "undate"} => \A p \in q.known \ orphans : Accepted(p) => p \in q.todo
    /\ q.pc \in {"drop", "undate"} => q.todo = {}
    /\ \A p \in q.todo : Minted(p)

\* No two requests are about to hand out the same pair.
PairsApart ==
    \A r, s \in Requests :
        req[r].pc \in Minting /\ req[s].pc \in Minting /\ req[r].pair = req[s].pair => r = s

IInv == Typed /\ Expiring /\ StoreSound /\ Listed /\ (\A r \in Requests : ReqSound(r)) /\ PairsApart

--------------------------------------------------------------------------------
(* Nothing is minted, nobody asks.                                           *)
LEMMA InitIInv == Init => IInv
<1> SUFFICES ASSUME Init PROVE IInv
  OBVIOUS
<1>1. Life \in Nat /\ Slack \in Nat /\ Life + Slack \in Nat
  BY AuthAssumption
<1>2. Typed
  <2>1. Idle \in ReqRecord
    BY DEF Idle, ReqRecord, Steps
  <2>2. /\ access \in [Pairs -> 0 .. Life] /\ revoked \in [Pairs -> 0 .. Life]
        /\ sessions \in [Users -> [of : SUBSET Pairs, left : Left(Life + Slack)]]
    BY <1>1 DEF Init, Left, Gone, Forever, EmptySet
  <2>3. detail \in [Users -> [of : Seq(Pairs), left : Left(Life + Slack)]]
    <3>1. << >> \in Seq(Pairs) /\ 0 \in Left(Life + Slack)
      BY <1>1 DEF Left, Forever
    <3>2. EmptyZSet \in [of : Seq(Pairs), left : Left(Life + Slack)]
      BY <3>1 DEF EmptyZSet, Gone
    <3>3. QED BY <3>2 DEF Init
  <2>4. QED BY <2>1, <2>2, <2>3 DEF Init, Typed
<1>3. StoreSound
  <2>1. \A u \in Users : IsFiniteSet(sessions[u].of)
    BY FS_EmptySet DEF Init, EmptySet
  <2>2. QED BY <2>1 DEF Init, StoreSound, Outlives, Marked, EmptySet, EmptyZSet, Gone
<1>4. Listed
  BY DEF Init, Listed, Minted
<1>5. ASSUME NEW r \in Requests PROVE ReqSound(r)
  BY DEF Init, ReqSound, Idle, ForUser, Minting
<1>6. PairsApart
  BY DEF Init, PairsApart, Minting, Idle
<1>7. Expiring
  BY DEF Init, Expiring, EmptySet, EmptyZSet, Gone, Forever
<1>8. QED BY <1>2, <1>3, <1>4, <1>5, <1>6, <1>7 DEF IInv

--------------------------------------------------------------------------------
(* Types.                                                                    *)

(* An entry among a user's sessions, and a removal from them.                *)
LEMMA SetEntry ==
  ASSUME NEW c \in [of : SUBSET Pairs, left : Left(Life + Slack)], NEW p \in Pairs
  PROVE  /\ SetAdd(c, p) = [of |-> c.of \cup {p}, left |-> IF c.left = Gone THEN Forever ELSE c.left]
         /\ SetAdd(c, p) \in [of : SUBSET Pairs, left : Left(Life + Slack)]
<1>1. Forever \in Left(Life + Slack)
  BY AuthAssumption DEF Left, Forever
<1>2. QED BY <1>1 DEF SetAdd

(* An entry among the sessions by age.                                       *)
LEMMA ZSetEntry ==
  ASSUME NEW c \in [of : Seq(Pairs), left : Left(Life + Slack)], NEW p \in Pairs
  PROVE  /\ ZAdd(c, p).of = Append(c.of, p)
         /\ ZAdd(c, p) \in [of : Seq(Pairs), left : Left(Life + Slack)]
<1>1. Forever \in Left(Life + Slack)
  BY AuthAssumption DEF Left, Forever
<1> DEFINE line == Append(c.of, p)
           ttl == IF c.left = Gone THEN Forever ELSE c.left
<1>2. line \in Seq(Pairs) /\ ttl \in Left(Life + Slack)
  BY <1>1, AppendProperties
<1>3. ZAdd(c, p) = [of |-> line, left |-> ttl]
  BY DEF ZAdd
<1> HIDE DEF line, ttl
<1>4. ZAdd(c, p).of = line /\ ZAdd(c, p) \in [of : Seq(Pairs), left : Left(Life + Slack)]
  BY <1>2, <1>3
<1>5. QED BY <1>4 DEF line

(* A list's expiry is renewed, if the list is there.                         *)
LEMMA Renewed ==
  ASSUME NEW S, NEW c \in [of : S, left : Left(Life + Slack)]
  PROVE  /\ Expire(c, Life + Slack).of = c.of
         /\ Expire(c, Life + Slack).left = IF c.left = Gone THEN Gone ELSE Life + Slack
         /\ Expire(c, Life + Slack) \in [of : S, left : Left(Life + Slack)]
<1>1. Life + Slack \in Left(Life + Slack)
  BY AuthAssumption DEF Left, Forever
<1>2. QED BY <1>1 DEF Expire

(* A removal leaves a set with the expiry it had.                            *)
LEMMA SetRemoves ==
  ASSUME NEW c \in [of : SUBSET Pairs, left : Left(Life + Slack)], NEW p
  PROVE  /\ SetRemove(c, p) \in [of : SUBSET Pairs, left : Left(Life + Slack)]
         /\ SetRemove(c, p).of = c.of \ {p}
         /\ SetRemove(c, p) = EmptySet \/ SetRemove(c, p).left = c.left
<1>1. 0 \in Left(Life + Slack)
  BY AuthAssumption DEF Left, Forever
<1>2. CASE c.of \subseteq {p}
  BY <1>1, <1>2 DEF SetRemove, EmptySet, Gone
<1>3. CASE ~(c.of \subseteq {p})
  BY <1>3 DEF SetRemove
<1>4. QED BY <1>2, <1>3

(* A tick takes a list away at its last moment.                              *)
LEMMA Ages ==
  ASSUME NEW c, NEW S, c \in [of : S, left : Left(Life + Slack)], NEW empty
  PROVE  /\ c.left \in Nat \/ c.left = Forever
         /\ c.left = Forever => AgedOr(c, empty) = c
         /\ c.left # Forever => AgedOr(c, empty) = IF c.left =< 1 THEN empty
                                                   ELSE [of |-> c.of, left |-> c.left - 1]
<1>1. c.left \in Nat \/ c.left = Forever
  BY AuthAssumption DEF Left, Forever
<1>2. c.left \in Nat => Aged(c.left) = IF c.left > 0 THEN c.left - 1 ELSE c.left
  BY DEF Aged
<1>3. c.left = Forever => Aged(c.left) = Forever
  BY DEF Aged, Forever
<1>4. CASE c.left = Forever
  BY <1>3, <1>4 DEF AgedOr, Gone, Forever
<1>5. CASE c.left \in Nat
  BY <1>2, <1>5 DEF AgedOr, Gone, Forever
<1>6. QED BY <1>1, <1>4, <1>5

(* And leaves a list of the same type.                                       *)
LEMMA AgesTypes ==
  ASSUME NEW c, NEW S, c \in [of : S, left : Left(Life + Slack)],
         NEW empty \in [of : S, left : Left(Life + Slack)]
  PROVE  AgedOr(c, empty) \in [of : S, left : Left(Life + Slack)]
<1>1. Life + Slack \in Nat
  BY AuthAssumption
<1>2. CASE c.left = Forever
  BY <1>2, Ages
<1>3. CASE c.left # Forever /\ c.left > 1
  <2>1. c.left \in Nat /\ AgedOr(c, empty) = [of |-> c.of, left |-> c.left - 1]
    BY <1>3, Ages
  <2>2. c.left - 1 \in Left(Life + Slack)
    BY <1>1, <1>3, <2>1 DEF Left, Forever
  <2>3. QED BY <2>1, <2>2
<1>4. CASE c.left # Forever /\ ~(c.left > 1)
  BY <1>4, Ages
<1>5. QED BY <1>2, <1>3, <1>4

(* An empty list is a list of sessions by age.                               *)
LEMMA EmptyTypes ==
  /\ EmptySet \in [of : SUBSET Pairs, left : Left(Life + Slack)]
  /\ EmptyZSet \in [of : Seq(Pairs), left : Left(Life + Slack)]
<1>1. Life + Slack \in Nat /\ << >> \in Seq(Pairs)
  BY AuthAssumption
<1>2. 0 \in Left(Life + Slack)
  BY <1>1 DEF Left, Forever
<1>3. QED BY <1>1, <1>2 DEF EmptySet, EmptyZSet, Gone

(* The part of the list that RankSessions takes: a prefix.                   *)
LEMMA PrefixTaken ==
  ASSUME NEW line \in Seq(Pairs), NEW n \in Nat, n =< Len(line)
  PROVE  /\ SubSeq(line, 1, n) \in Seq(Pairs)
         /\ DOMAIN SubSeq(line, 1, n) = 1 .. n
         /\ \A k \in 1 .. n : SubSeq(line, 1, n)[k] = line[k]
<1>1. /\ SubSeq(line, 1, n) \in Seq(Pairs)
      /\ Len(SubSeq(line, 1, n)) = IF 1 =< n THEN n - 1 + 1 ELSE 0
      /\ \A k \in 1 .. n - 1 + 1 : SubSeq(line, 1, n)[k] = line[1 + k - 1]
  BY SubSeqProperties
<1>2. Len(SubSeq(line, 1, n)) = n
  BY <1>1
<1>3. QED BY <1>1, <1>2

(* A request stays one when some of its fields change.                       *)
LEMMA ReqTypes ==
  ASSUME Typed, NEW r \in Requests, NEW q \in ReqRecord, req' = [req EXCEPT ![r] = q]
  PROVE  req' \in [Requests -> ReqRecord]
BY DEF Typed

(* What a request holds.                                                     *)
LEMMA ReqFields ==
  ASSUME Typed, NEW r \in Requests
  PROVE  /\ req[r] \in ReqRecord
         /\ req[r].pc \in Steps /\ req[r].user \in Users \cup {Nobody}
         /\ req[r].pair \in Pairs \cup {NoPair} /\ req[r].count \in Nat
         /\ req[r].queue \in Seq(Pairs)
         /\ req[r].todo \in SUBSET Pairs /\ req[r].known \in SUBSET Pairs
BY DEF Typed, ReqRecord

(* What is known of a user's list.                                           *)
LEMMA ListSound ==
  ASSUME IInv, NEW u \in Users
  PROVE  /\ sessions[u] \in [of : SUBSET Pairs, left : Left(Life + Slack)]
         /\ IsFiniteSet(sessions[u].of) /\ (sessions[u].left = Gone => sessions[u].of = {})
         /\ \A p \in sessions[u].of : p \in Pairs /\ owner[p] = u /\ Minted(p)
         /\ Outlives(u)
<1>1. sessions[u] \in [of : SUBSET Pairs, left : Left(Life + Slack)]
  BY DEF IInv, Typed
<1>2. StoreSound
  BY DEF IInv
<1>3. QED BY <1>1, <1>2, AuthAssumption
     DEF StoreSound, Minted

(* What Login, RefreshToken, Logout, RevokeSession and ChangePassword leave.  *)
LEMMA BeginTypes ==
  ASSUME IInv, NEW r \in Requests, Begin(r)
  PROVE  Typed'
<1> USE DEF IInv
<1>1. Idle \in ReqRecord /\ {"count", "consume", "revoke", "read"} \subseteq Steps
  BY DEF Idle, ReqRecord, Steps
<1>2. ASSUME NEW u \in Users, Login(r, u) PROVE Typed'
  <2>1. [Idle EXCEPT !.pc = "count", !.user = u] \in ReqRecord
    BY <1>1 DEF ReqRecord
  <2>2. QED BY <1>2, <2>1, ReqTypes DEF Login, Typed, tokens, store
<1>3. ASSUME NEW p \in Pairs, RefreshToken(r, p) PROVE Typed'
  <2>1. owner[p] \in Users \cup {Nobody}
    BY DEF Typed
  <2>2. [Idle EXCEPT !.pc = "consume", !.user = owner[p], !.pair = p] \in ReqRecord
    BY <1>1, <2>1 DEF ReqRecord
  <2>3. QED BY <1>3, <2>2, ReqTypes DEF RefreshToken, Typed, tokens, store
<1>4. ASSUME NEW p \in Pairs, NEW withRefresh \in BOOLEAN, Logout(r, p, withRefresh) PROVE Typed'
  <2>1. owner[p] \in Users \cup {Nobody}
    BY DEF Typed
  <2>2. refresh' \in [Pairs -> {"none", "live", "spent"}]
    BY <1>4 DEF Logout, Typed
  <2>3. [Idle EXCEPT !.pc = "revoke", !.user = owner[p], !.pair = p] \in ReqRecord
    BY <1>1, <2>1 DEF ReqRecord
  <2>4. QED BY <1>4, <2>2, <2>3, ReqTypes DEF Logout, Typed, store
<1>5. ASSUME NEW p \in Pairs, ChangePassword(r, p) PROVE Typed'
  <2>1. owner[p] \in Users \cup {Nobody} /\ Owned(owner[p]) \in SUBSET Pairs
    BY DEF Typed, Owned
  <2>2. [Idle EXCEPT !.pc = "read", !.user = owner[p], !.known = Owned(owner[p])] \in ReqRecord
    BY <1>1, <2>1 DEF ReqRecord
  <2>3. QED BY <1>5, <2>2, ReqTypes DEF ChangePassword, Typed, tokens, store
<1>6. ASSUME NEW p \in Pairs, NEW actor \in Users \cup {Nobody}, RevokeSession(r, actor, p)
      PROVE  Typed'
  <2>1. [Idle EXCEPT !.pc = "revoke", !.user = actor, !.pair = p] \in ReqRecord
    BY <1>1 DEF ReqRecord
  <2>2. QED BY <1>6, <2>1, ReqTypes DEF RevokeSession, Typed, tokens, store
<1>7. QED BY <1>2, <1>3, <1>4, <1>5, <1>6 DEF Begin

(* What the steps of create_token_pair leave.                                *)
LEMMA MintingTypes ==
  ASSUME IInv, NEW r \in Requests,
         \/ CountSessions(r) \/ RankSessions(r) \/ MarkOldest(r) \/ UnlistOldest(r)
         \/ (\E p \in Pairs : Mint(r, p)) \/ KeepSessions(r) \/ DatePair(r) \/ KeepDates(r)
         \/ ReturnPair(r) \/ ConsumeToken(r)
  PROVE  Typed'
<1> USE DEF IInv
<1>1. /\ req[r] \in ReqRecord /\ req[r].queue \in Seq(Pairs)
      /\ req[r].count \in Nat /\ MaxSessions \in Nat
      /\ {"mint", "rank", "evict", "unlist", "keep", "date", "redate", "return", "count"} \subseteq Steps
      /\ Life \in 0 .. Life
  BY ReqFields, AuthAssumption DEF Steps
<1>2. CASE CountSessions(r)
  <2>1. req[r].user \in Users
    BY <1>2 DEF CountSessions, At, ReqSound, ForUser, Steps
  <2>2. Cardinality(sessions[req[r].user].of) \in Nat
    BY <2>1, ListSound, FS_CardinalityType
  <2>3. QED BY <1>1, <1>2, <2>2 DEF CountSessions, Typed, tokens, store, ReqRecord, Steps
<1>3. CASE RankSessions(r)
  <2> DEFINE all == detail[req[r].user].of
             excess == req[r].count - MaxSessions + 1
             n == IF excess < Len(all) THEN excess ELSE Len(all)
  <2>1. req[r].user \in Users /\ req[r].count >= MaxSessions
    BY <1>3 DEF RankSessions, At, ReqSound, ForUser, Steps
  <2>2. all \in Seq(Pairs)
    BY <2>1 DEF Typed
  <2>3. n \in Nat /\ n =< Len(all)
    <3>1. Len(all) \in Nat /\ excess \in Nat
      BY <1>1, <2>1, <2>2, LenProperties
    <3>2. QED BY <3>1
  <2>4. SubSeq(all, 1, n) \in Seq(Pairs)
    BY <2>2, <2>3, PrefixTaken
  <2> DEFINE pc == IF SubSeq(all, 1, n) = << >> THEN "mint" ELSE "evict"
  <2>5. [req[r] EXCEPT !.pc = pc, !.queue = SubSeq(all, 1, n)] \in ReqRecord
    BY <1>1, <2>4 DEF ReqRecord
  <2>6. req' = [req EXCEPT ![r] = [req[r] EXCEPT !.pc = pc, !.queue = SubSeq(all, 1, n)]]
    BY <1>3 DEF RankSessions
  <2>7. req' \in [Requests -> ReqRecord]
    BY <2>5, <2>6, ReqTypes
  <2>8. QED BY <1>3, <2>7 DEF RankSessions, Typed, tokens, store
<1>4. CASE MarkOldest(r)
  <2>1. req' \in [Requests -> ReqRecord]
    <3>1. [req[r] EXCEPT !.pc = "unlist"] \in ReqRecord
      BY <1>1 DEF ReqRecord
    <3>2. QED BY <1>4, <3>1, ReqTypes DEF MarkOldest, Goes
  <2>2. revoked' \in [Pairs -> 0 .. Life]
    BY <1>1, <1>4 DEF MarkOldest, SetWithTtl, Typed
  <2>3. QED BY <1>4, <2>1, <2>2 DEF MarkOldest, Typed, tokens
<1>5. CASE UnlistOldest(r)
  <2>1. req[r].user \in Users /\ req[r].queue # << >>
    BY <1>5 DEF UnlistOldest, At, ReqSound, ForUser, Steps
  <2>2. Tail(req[r].queue) \in Seq(Pairs) /\ Head(req[r].queue) \in Pairs
    BY <1>1, <2>1, HeadTailProperties
  <2>3. req' \in [Requests -> ReqRecord]
    BY <1>1, <1>5, <2>2 DEF UnlistOldest, Typed, ReqRecord, Steps
  <2>4. sessions' \in [Users -> [of : SUBSET Pairs, left : Left(Life + Slack)]]
    BY <1>5, <2>1, <2>2, SetRemoves DEF UnlistOldest, Typed
  <2>5. QED BY <1>5, <2>3, <2>4 DEF UnlistOldest, Typed, tokens
<1>6. ASSUME NEW p \in Pairs, Mint(r, p) PROVE Typed'
  <2>1. req[r].user \in Users
    BY <1>6 DEF Mint, At, ReqSound, ForUser, Steps
  <2>2. req' \in [Requests -> ReqRecord]
    BY <1>1, <1>6 DEF Mint, Typed, ReqRecord, Steps
  <2>3. sessions[req[r].user] \in [of : SUBSET Pairs, left : Left(Life + Slack)]
    BY <2>1 DEF Typed
  <2>4. sessions' \in [Users -> [of : SUBSET Pairs, left : Left(Life + Slack)]]
    BY <1>6, <2>3, SetEntry DEF Mint, Typed
  <2>5. owner' \in [Pairs -> Users \cup {Nobody}] /\ access' \in [Pairs -> 0 .. Life]
    BY <1>1, <1>6, <2>1 DEF Mint, Typed
  <2>6. QED BY <1>6, <2>2, <2>4, <2>5 DEF Mint, Typed
<1>7. CASE KeepSessions(r) \/ DatePair(r) \/ KeepDates(r)
  <2>1. req[r].user \in Users /\ req[r].pair \in Pairs
    BY <1>7 DEF KeepSessions, DatePair, KeepDates, At, ReqSound, ForUser, Steps, Minting
  <2>2. req' \in [Requests -> ReqRecord]
    <3>1. \A pc \in {"date", "redate", "return"} : [req[r] EXCEPT !.pc = pc] \in ReqRecord
      BY <1>1 DEF ReqRecord
    <3>2. QED BY <1>7, <3>1, ReqTypes DEF KeepSessions, DatePair, KeepDates, Goes
  <2>3. sessions[req[r].user] \in [of : SUBSET Pairs, left : Left(Life + Slack)]
    BY <2>1 DEF Typed
  <2>4. detail[req[r].user] \in [of : Seq(Pairs), left : Left(Life + Slack)]
    BY <2>1 DEF Typed
  <2>5. Expire(sessions[req[r].user], Life + Slack) \in [of : SUBSET Pairs, left : Left(Life + Slack)]
    BY <2>3, Renewed
  <2>6. /\ ZAdd(detail[req[r].user], req[r].pair) \in [of : Seq(Pairs), left : Left(Life + Slack)]
        /\ Expire(detail[req[r].user], Life + Slack) \in [of : Seq(Pairs), left : Left(Life + Slack)]
    BY <2>1, <2>4, Renewed, ZSetEntry
  <2>7. sessions' \in [Users -> [of : SUBSET Pairs, left : Left(Life + Slack)]]
    BY <1>7, <2>5 DEF KeepSessions, DatePair, KeepDates, Typed
  <2>8. detail' \in [Users -> [of : Seq(Pairs), left : Left(Life + Slack)]]
    BY <1>7, <2>6 DEF KeepSessions, DatePair, KeepDates, Typed
  <2>9. QED BY <1>7, <2>2, <2>7, <2>8 DEF KeepSessions, DatePair, KeepDates, Typed, tokens
<1>8. CASE ReturnPair(r)
  <2>1. req[r].pair \in Pairs
    BY <1>8 DEF ReturnPair, At, ReqSound, Minting
  <2>2. req' \in [Requests -> ReqRecord]
    <3>1. Idle \in ReqRecord
      BY DEF Idle, ReqRecord, Steps
    <3>2. QED BY <1>8, <3>1 DEF ReturnPair, Ends, Typed
  <2>3. refresh' \in [Pairs -> {"none", "live", "spent"}] /\ held' \in SUBSET Pairs
    BY <1>8, <2>1 DEF ReturnPair, Typed
  <2>4. QED BY <1>8, <2>2, <2>3 DEF ReturnPair, Typed, store
<1>9. CASE ConsumeToken(r)
  <2>1. req' \in [Requests -> ReqRecord]
    BY <1>1, <1>9 DEF ConsumeToken, Typed, ReqRecord, Steps
  <2>2. refresh' \in [Pairs -> {"none", "live", "spent"}]
    BY <1>9 DEF ConsumeToken, Typed
  <2>3. QED BY <1>9, <2>1, <2>2 DEF ConsumeToken, Typed, store
<1>10. QED BY <1>2, <1>3, <1>4, <1>5, <1>6, <1>7, <1>8, <1>9

(* What revocation, the password change and time leave.                      *)
LEMMA RevokingTypes ==
  ASSUME IInv, NEW r \in Requests,
         \/ MarkRevoked(r) \/ Forget(r) \/ ReadSessions(r)
         \/ (\E p \in Pairs : SweepSession(r, p)) \/ DropSessions(r) \/ DropDetail(r)
  PROVE  Typed'
<1> USE DEF IInv
<1>1. /\ req[r] \in ReqRecord /\ Idle \in ReqRecord /\ Life \in 0 .. Life
      /\ req[r].pair \in Pairs \cup {NoPair}
      /\ {"forget", "drop", "sweep", "undate"} \subseteq Steps
  BY ReqFields, AuthAssumption DEF Left, Steps, Idle, ReqRecord
<1>2. CASE MarkRevoked(r)
  <2>1. req' \in [Requests -> ReqRecord]
    <3>1. [req[r] EXCEPT !.pc = "forget"] \in ReqRecord
      BY <1>1 DEF ReqRecord
    <3>2. QED BY <1>2, <3>1, ReqTypes DEF MarkRevoked, Goes
  <2>2. revoked' \in [Pairs -> 0 .. Life]
    BY <1>1, <1>2 DEF MarkRevoked, SetWithTtl, Typed
  <2>3. QED BY <1>2, <2>1, <2>2 DEF MarkRevoked, Typed, tokens
<1>3. CASE Forget(r)
  <2>1. req' \in [Requests -> ReqRecord]
    BY <1>1, <1>3, ReqTypes DEF Forget, Ends
  <2>2. sessions' \in [Users -> [of : SUBSET Pairs, left : Left(Life + Slack)]]
    BY <1>3, SetRemoves DEF Forget, Typed
  <2>3. QED BY <1>3, <2>1, <2>2 DEF Forget, Typed, tokens
<1>4. CASE ReadSessions(r)
  <2> DEFINE all == sessions[req[r].user].of
             pc == IF all = {} THEN "drop" ELSE "sweep"
  <2>1. req[r].user \in Users
    BY <1>4 DEF ReadSessions, At, ReqSound, ForUser, Steps
  <2>2. all \in SUBSET Pairs
    BY <2>1 DEF Typed
  <2>3. [req[r] EXCEPT !.pc = pc, !.todo = all] \in ReqRecord
    BY <1>1, <2>2 DEF ReqRecord
  <2>4. req' = [req EXCEPT ![r] = [req[r] EXCEPT !.pc = pc, !.todo = all]]
    BY <1>4 DEF ReadSessions
  <2>5. req' \in [Requests -> ReqRecord]
    BY <2>3, <2>4, ReqTypes
  <2>6. QED BY <1>4, <2>5 DEF ReadSessions, Typed, tokens, store
<1>5. ASSUME NEW p \in Pairs, SweepSession(r, p) PROVE Typed'
  <2> DEFINE pc == IF req[r].todo = {p} THEN "drop" ELSE "sweep"
  <2>1. [req[r] EXCEPT !.pc = pc, !.todo = req[r].todo \ {p}] \in ReqRecord
    BY <1>1 DEF ReqRecord
  <2>2. req' = [req EXCEPT ![r] = [req[r] EXCEPT !.pc = pc, !.todo = req[r].todo \ {p}]]
    BY <1>5 DEF SweepSession
  <2>3. req' \in [Requests -> ReqRecord]
    BY <2>1, <2>2, ReqTypes
  <2>4. revoked' \in [Pairs -> 0 .. Life]
    BY <1>1, <1>5 DEF SweepSession, SetWithTtl, Typed
  <2>5. QED BY <1>5, <2>3, <2>4 DEF SweepSession, Typed, tokens
<1>6. CASE DropSessions(r)
  <2>1. req[r].user \in Users
    BY <1>6 DEF DropSessions, At, ReqSound, ForUser, Steps
  <2>2. req' \in [Requests -> ReqRecord]
    <3>1. [req[r] EXCEPT !.pc = "undate"] \in ReqRecord
      BY <1>1 DEF ReqRecord
    <3>2. QED BY <1>6, <3>1, ReqTypes DEF DropSessions, Goes
  <2>3. sessions' \in [Users -> [of : SUBSET Pairs, left : Left(Life + Slack)]]
    BY <1>6, EmptyTypes DEF DropSessions, Typed
  <2>4. orphans' \in SUBSET Pairs
    BY <1>6, <2>1 DEF DropSessions, Typed
  <2>5. QED BY <1>6, <2>2, <2>3, <2>4 DEF DropSessions, Typed, tokens
<1>7. CASE DropDetail(r)
  <2>1. req' \in [Requests -> ReqRecord]
    BY <1>1, <1>7, ReqTypes DEF DropDetail, Ends
  <2>2. detail' \in [Users -> [of : Seq(Pairs), left : Left(Life + Slack)]]
    BY <1>7, EmptyTypes DEF DropDetail, Typed
  <2>3. QED BY <1>7, <2>1, <2>2 DEF DropDetail, Typed, tokens
<1>8. QED BY <1>2, <1>3, <1>4, <1>5, <1>6, <1>7

(* What time leaves of each entry.                                           *)
LEMMA TickTypes ==
  ASSUME IInv, Tick
  PROVE  Typed'
<1> USE DEF IInv
<1>1. Life \in Nat /\ Life + Slack \in Nat
  BY AuthAssumption
<1>2. access' \in [Pairs -> 0 .. Life] /\ revoked' \in [Pairs -> 0 .. Life]
  BY <1>1 DEF Tick, Typed, Aged
<1>3. sessions' \in [Users -> [of : SUBSET Pairs, left : Left(Life + Slack)]]
  <2>1. ASSUME NEW u \in Users
        PROVE  AgedOr(sessions[u], EmptySet) \in [of : SUBSET Pairs, left : Left(Life + Slack)]
    BY AgesTypes, EmptyTypes DEF Typed
  <2>2. QED BY <2>1 DEF Tick
<1>4. detail' \in [Users -> [of : Seq(Pairs), left : Left(Life + Slack)]]
  <2>1. ASSUME NEW u \in Users
        PROVE  AgedOr(detail[u], EmptyZSet) \in [of : Seq(Pairs), left : Left(Life + Slack)]
    BY AgesTypes, EmptyTypes DEF Typed
  <2>2. QED BY <2>1 DEF Tick
<1>5. orphans' \in SUBSET Pairs
  <2>1. \A r \in Requests : At(r, "keep") => req[r].pair \in Pairs
    BY DEF IInv, At, ReqSound, Minting
  <2>2. QED BY <2>1 DEF Tick, Typed, RunningOut, Unkept
<1>6. QED BY <1>2, <1>3, <1>4, <1>5 DEF Tick, Typed

--------------------------------------------------------------------------------
(* What no step undoes.                                                      *)

\* A minted pair keeps its owner, and once refused stays refused; what is dated
\* stays so, and a list of sessions by age grows at its end, by a pair dated with
\* it, or is emptied.
Monotone ==
    /\ \A p \in Pairs : Minted(p) => owner'[p] = owner[p] /\ (~Accepted(p) => ~Accepted(p)')
    /\ held \subseteq held' /\ orphans \subseteq orphans' /\ Dated \subseteq Dated'
    /\ \A u \in Users : \/ detail'[u].of = detail[u].of
                        \/ detail'[u].of = << >>
                        \/ \E p \in Dated' \ Dated : detail'[u].of = Append(detail[u].of, p)

(* Every other request keeps its place, and whoever has a pair in the making *)
(* has just minted it or goes on with it.                                    *)
LEMMA StepKeepsOthers ==
  ASSUME IInv, NEW r \in Requests, Begin(r) \/ Continue(r)
  PROVE  \A s \in Requests \ {r} : req'[s] = req[s]
<1> USE DEF IInv, Typed
<1>1. CASE Begin(r)
  BY <1>1 DEF Begin, Login, RefreshToken, Logout, ChangePassword, RevokeSession
<1>2. CASE CountSessions(r) \/ RankSessions(r) \/ MarkOldest(r) \/ UnlistOldest(r)
  BY <1>2 DEF CountSessions, RankSessions, MarkOldest, UnlistOldest, Goes
<1>3. CASE (\E p \in Pairs : Mint(r, p)) \/ ReturnPair(r) \/ ConsumeToken(r)
  BY <1>3 DEF Mint, ReturnPair, ConsumeToken, Ends
<1>4. CASE KeepSessions(r) \/ DatePair(r) \/ KeepDates(r)
  BY <1>4 DEF KeepSessions, DatePair, KeepDates, Goes
<1>5. CASE \/ MarkRevoked(r) \/ Forget(r) \/ ReadSessions(r)
           \/ (\E p \in Pairs : SweepSession(r, p)) \/ DropSessions(r) \/ DropDetail(r)
  BY <1>5 DEF MarkRevoked, Forget, ReadSessions, SweepSession, DropSessions, DropDetail, Goes, Ends
<1>6. QED BY <1>1, <1>2, <1>3, <1>4, <1>5 DEF Continue

(* Where the steps leave whoever takes them.                                 *)
LEMMA Elsewhere ==
  ASSUME IInv, NEW r \in Requests,
         \/ CountSessions(r) \/ RankSessions(r) \/ MarkOldest(r) \/ UnlistOldest(r)
         \/ ConsumeToken(r) \/ MarkRevoked(r) \/ Forget(r) \/ ReadSessions(r)
         \/ (\E p \in Pairs : SweepSession(r, p)) \/ DropSessions(r) \/ DropDetail(r)
  PROVE  req'[r].pc \notin Minting /\ held' = held
<1>0. Typed
  BY DEF IInv
<1>1. ASSUME CountSessions(r) \/ RankSessions(r)
      PROVE  req'[r].pc \notin Minting /\ held' = held
  <2>1. CASE CountSessions(r)
    BY <1>0, <2>1 DEF CountSessions, Typed, ReqRecord, Minting, tokens
  <2>2. CASE RankSessions(r)
    BY <1>0, <2>2 DEF RankSessions, Typed, ReqRecord, Minting, tokens
  <2>3. QED BY <1>1, <2>1, <2>2
<1>2. ASSUME MarkOldest(r) \/ UnlistOldest(r) \/ ConsumeToken(r)
      PROVE  req'[r].pc \notin Minting /\ held' = held
  BY <1>0, <1>2 DEF MarkOldest, UnlistOldest, ConsumeToken, Goes, Typed, ReqRecord, Minting, tokens
<1>3. ASSUME MarkRevoked(r) \/ Forget(r) \/ DropSessions(r) \/ DropDetail(r)
      PROVE  req'[r].pc \notin Minting /\ held' = held
  <2>1. CASE MarkRevoked(r) \/ DropSessions(r)
    BY <1>0, <2>1 DEF MarkRevoked, DropSessions, Goes, tokens, Typed, ReqRecord, Minting
  <2>2. CASE Forget(r) \/ DropDetail(r)
    BY <1>0, <2>2 DEF Forget, DropDetail, Ends, Idle, tokens, Typed, Minting
  <2>3. QED BY <1>3, <2>1, <2>2
<1>4. ASSUME ReadSessions(r) \/ (\E p \in Pairs : SweepSession(r, p))
      PROVE  req'[r].pc \notin Minting /\ held' = held
  <2>1. CASE ReadSessions(r)
    BY <1>0, <2>1 DEF ReadSessions, tokens, Typed, ReqRecord, Minting
  <2>2. ASSUME NEW p \in Pairs, SweepSession(r, p)
        PROVE  req'[r].pc \notin Minting /\ held' = held
    BY <1>0, <2>2 DEF SweepSession, tokens, Typed, ReqRecord, Minting
  <2>3. QED BY <1>4, <2>1, <2>2
<1>5. QED BY <1>1, <1>2, <1>3, <1>4

(* And where they leave a login that has its pair.                           *)
LEMMA Places ==
  ASSUME IInv, NEW r \in Requests
  PROVE  /\ Begin(r) => req'[r].pc \in {"count", "consume", "revoke", "read"} /\ held' = held
         /\ \A p \in Pairs : Mint(r, p) => req'[r].pc = "keep" /\ req'[r].pair = p /\ held' = held
         /\ KeepSessions(r) => req'[r] = [req[r] EXCEPT !.pc = "date"] /\ held' = held
         /\ DatePair(r) => req'[r] = [req[r] EXCEPT !.pc = "redate"] /\ held' = held
         /\ KeepDates(r) => req'[r] = [req[r] EXCEPT !.pc = "return"] /\ held' = held
         /\ ReturnPair(r) => req'[r].pc = "idle" /\ held' = held \cup {req[r].pair}
<1>0. DOMAIN req = Requests /\ Typed
  BY DEF IInv, Typed
<1>1. ASSUME Begin(r)
      PROVE  req'[r].pc \in {"count", "consume", "revoke", "read"} /\ held' = held
  <2>1. CASE \E u \in Users : Login(r, u)
    BY <1>0, <2>1 DEF Login, Idle, tokens
  <2>2. CASE \E p \in Pairs : RefreshToken(r, p) \/ ChangePassword(r, p)
    BY <1>0, <2>2 DEF RefreshToken, ChangePassword, Idle, tokens
  <2>3. CASE \E p \in Pairs, withRefresh \in BOOLEAN : Logout(r, p, withRefresh)
    BY <1>0, <2>3 DEF Logout, Idle, tokens
  <2>4. CASE \E p \in Pairs, actor \in Users \cup {Nobody} : RevokeSession(r, actor, p)
    BY <1>0, <2>4 DEF RevokeSession, Idle, tokens
  <2>5. QED BY <1>1, <2>1, <2>2, <2>3, <2>4 DEF Begin
<1>2. ASSUME NEW p \in Pairs, Mint(r, p)
      PROVE  req'[r].pc = "keep" /\ req'[r].pair = p /\ held' = held
  BY <1>0, <1>2 DEF Mint, Typed, ReqRecord
<1>3. /\ KeepSessions(r) => req'[r] = [req[r] EXCEPT !.pc = "date"] /\ held' = held
      /\ DatePair(r) => req'[r] = [req[r] EXCEPT !.pc = "redate"] /\ held' = held
      /\ KeepDates(r) => req'[r] = [req[r] EXCEPT !.pc = "return"] /\ held' = held
  BY <1>0 DEF KeepSessions, DatePair, KeepDates, Goes, tokens
<1>4. ReturnPair(r) => req'[r].pc = "idle" /\ held' = held \cup {req[r].pair}
  BY <1>0 DEF ReturnPair, Ends, Idle
<1>5. QED BY <1>1, <1>2, <1>3, <1>4

(* Whoever is about to hand out a pair, or to date it.                       *)
LEMMA MintingGoes ==
  ASSUME IInv, NEW r \in Requests, Begin(r) \/ Continue(r), req'[r].pc \in Minting
  PROVE  \/ \E p \in Pairs : Mint(r, p) /\ req'[r].pair = p /\ req'[r].pc = "keep"
         \/ /\ req[r].pc \in Minting /\ req'[r].pair = req[r].pair
            /\ req'[r].pc \in Undating => req[r].pc \in Undating
            /\ req'[r].pc # "keep"
<1> USE DEF Minting, Undating
<1>0. req[r] \in ReqRecord
  BY ReqFields DEF IInv
<1>1. CASE Begin(r)
  BY <1>1, Places
<1>2. CASE \E p \in Pairs : Mint(r, p)
  BY <1>2, Places
<1>3. CASE KeepSessions(r) \/ DatePair(r) \/ KeepDates(r)
  <2>1. CASE KeepSessions(r)
    BY <1>0, <2>1, Places DEF KeepSessions, At, ReqRecord
  <2>2. CASE DatePair(r)
    BY <1>0, <2>2, Places DEF DatePair, At, ReqRecord
  <2>3. CASE KeepDates(r)
    BY <1>0, <2>3, Places DEF KeepDates, At, ReqRecord
  <2>4. QED BY <1>3, <2>1, <2>2, <2>3
<1>4. CASE ReturnPair(r)
  BY <1>4, Places
<1>5. CASE CountSessions(r) \/ RankSessions(r) \/ MarkOldest(r) \/ UnlistOldest(r)
           \/ ConsumeToken(r) \/ MarkRevoked(r) \/ Forget(r) \/ ReadSessions(r)
           \/ (\E p \in Pairs : SweepSession(r, p)) \/ DropSessions(r) \/ DropDetail(r)
  <2> HIDE DEF Minting, Undating
  <2>1. req'[r].pc \notin Minting
    BY <1>5, Elsewhere
  <2>2. QED BY <2>1
<1>6. QED BY <1>1, <1>2, <1>3, <1>4, <1>5 DEF Continue

(* No pair that is dated is about to be.                                     *)
LEMMA DatedStays ==
  ASSUME IInv, NEW r \in Requests, Begin(r) \/ Continue(r),
         \A p \in Pairs : Minted(p) => Minted(p)'
  PROVE  Dated \subseteq Dated'
<1>1. SUFFICES ASSUME NEW p \in Dated, NEW s \in Requests, req'[s].pc \in Undating
               PROVE  req'[s].pair # p
  BY DEF Dated
<1>2. CASE s # r
  BY <1>1, <1>2, StepKeepsOthers DEF Dated
<1>3. CASE s = r
  <2>1. req'[r].pc \in Minting
    BY <1>1, <1>3 DEF Minting, Undating
  <2>2. CASE \E q \in Pairs : Mint(r, q) /\ req'[r].pair = q
    BY <1>3, <2>2 DEF Mint, Fresh, Dated, Minted
  <2>3. CASE req[r].pc \in Undating /\ req'[r].pair = req[r].pair
    BY <1>3, <2>3 DEF Dated
  <2>4. QED BY <1>1, <1>3, <2>1, <2>2, <2>3, MintingGoes
<1>4. QED BY <1>2, <1>3

(* A pair that has been handed out has been dated.                           *)
LEMMA HeldDated ==
  ASSUME IInv
  PROVE  held \subseteq Dated
BY DEF IInv, Typed, StoreSound, ReqSound, Dated, Undating, Minting

(* A step that only sets marks, if any, refuses what was refused.            *)
LEMMA MarksRefuse ==
  ASSUME Typed, UNCHANGED <<owner, access>>,
         UNCHANGED revoked \/ \E p \in Pairs : revoked' = SetWithTtl(revoked, p, Life)
  PROVE  \A p \in Pairs : /\ owner'[p] = owner[p]
                          /\ ~Accepted(p) => ~Accepted(p)'
<1>1. Life # Gone
  BY AuthAssumption DEF Gone
<1>2. QED BY <1>1 DEF Accepted, Marked, SetWithTtl, Typed

(* A mark outlasts its token (auth.py:146, 815, 900, 974).                   *)
LEMMA TickMonotone ==
  ASSUME IInv, Tick
  PROVE  Monotone
<1> USE DEF IInv
<1>1. ASSUME NEW p \in Pairs, Minted(p), ~Accepted(p) PROVE ~Accepted(p)'
  <2>1. /\ access[p] \in Nat /\ revoked[p] \in Nat
        /\ access'[p] = IF access[p] > 0 THEN access[p] - 1 ELSE 0
        /\ revoked'[p] = IF revoked[p] > 0 THEN revoked[p] - 1 ELSE revoked[p]
    BY AuthAssumption DEF Tick, Aged, Typed
  <2>2. revoked[p] # 0 => access[p] =< revoked[p]
    BY DEF StoreSound, Marked, Gone
  <2>3. access[p] = 0 \/ revoked[p] # 0
    BY <1>1, <2>1 DEF Accepted, Marked, Gone
  <2>4. access'[p] = 0 \/ revoked'[p] # 0
    BY <2>1, <2>2, <2>3
  <2>5. QED BY <2>4 DEF Accepted, Marked, Gone
<1>2. Dated \subseteq Dated'
  BY DEF Tick, Dated, Minted
<1>3. ASSUME NEW u \in Users PROVE detail'[u].of = detail[u].of \/ detail'[u].of = << >>
  <2>1. /\ detail'[u] = AgedOr(detail[u], EmptyZSet)
        /\ detail[u] \in [of : Seq(Pairs), left : Left(Life + Slack)]
    BY DEF Tick, Typed
  <2>2. \/ detail'[u] = EmptyZSet \/ detail'[u] = detail[u]
        \/ detail'[u] = [of |-> detail[u].of, left |-> detail[u].left - 1]
    BY <2>1, Ages
  <2>3. QED BY <2>2 DEF EmptyZSet
<1>4. QED BY <1>1, <1>2, <1>3 DEF Tick, Monotone

(* A pair that is minted was nobody's.                                       *)
LEMMA MintMonotone ==
  ASSUME IInv, NEW r \in Requests, NEW p \in Pairs, Mint(r, p)
  PROVE  Monotone
<1>1. ASSUME NEW q \in Pairs, Minted(q)
      PROVE  owner'[q] = owner[q] /\ (~Accepted(q) => ~Accepted(q)')
  <2>1. q # p
    BY <1>1 DEF Mint, Fresh, Minted
  <2>2. owner'[q] = owner[q] /\ access'[q] = access[q] /\ revoked' = revoked
    BY <2>1 DEF Mint, IInv, Typed
  <2>3. QED BY <2>2 DEF Accepted, Marked
<1>2. Dated \subseteq Dated'
  BY <1>1, DatedStays, AuthAssumption DEF Continue, Minted
<1>3. QED BY <1>1, <1>2 DEF Mint, Monotone

(* Every other step leaves the tokens alone, or sets a mark.                 *)
LEMMA NextMonotone ==
  ASSUME IInv, Next
  PROVE  Monotone
<1> USE DEF IInv
<1> DEFINE Marks == /\ UNCHANGED <<owner, access>> /\ held \subseteq held' /\ orphans \subseteq orphans'
                    /\ UNCHANGED revoked \/ \E p \in Pairs : revoked' = SetWithTtl(revoked, p, Life)
           Lines == \A u \in Users :
                       \/ detail'[u].of = detail[u].of
                       \/ detail'[u].of = << >>
                       \/ \E p \in Dated' \ Dated : detail'[u].of = Append(detail[u].of, p)
<1>1. ASSUME NEW r \in Requests, Begin(r) \/ Continue(r), Marks, Lines PROVE Monotone
  <2>1. \A p \in Pairs : owner'[p] = owner[p] /\ (~Accepted(p) => ~Accepted(p)')
    BY <1>1, MarksRefuse
  <2>2. Dated \subseteq Dated'
    BY <1>1, DatedStays DEF Minted
  <2>3. QED BY <1>1, <2>1, <2>2 DEF Monotone
<1>2. detail' = detail => Lines
  OBVIOUS
<1> HIDE DEF Marks, Lines
<1>3. ASSUME NEW r \in Requests, Begin(r) PROVE Marks /\ detail' = detail
  BY <1>3 DEF Marks, Begin, Login, RefreshToken, Logout, ChangePassword, RevokeSession, tokens, store
<1>4. ASSUME NEW r \in Requests,
             CountSessions(r) \/ RankSessions(r) \/ UnlistOldest(r) \/ ConsumeToken(r)
             \/ Forget(r) \/ ReadSessions(r) \/ KeepSessions(r) \/ ReturnPair(r)
      PROVE  Marks /\ detail' = detail
  BY <1>4 DEF Marks, CountSessions, RankSessions, UnlistOldest, ConsumeToken, Forget,
              ReadSessions, KeepSessions, ReturnPair, tokens, store
<1>5. ASSUME NEW r \in Requests, MarkOldest(r) PROVE Marks /\ detail' = detail
  <2>1. Head(req[r].queue) \in Pairs
    <3>1. req[r].queue # << >> /\ req[r].queue \in Seq(Pairs)
      BY <1>5, ReqFields DEF MarkOldest, At, ReqSound
    <3>2. QED BY <3>1, HeadTailProperties
  <2>2. QED BY <1>5, <2>1 DEF Marks, MarkOldest, tokens
<1>6. ASSUME NEW r \in Requests, MarkRevoked(r) PROVE Marks /\ detail' = detail
  <2>1. req[r].pair \in Pairs
    BY <1>6 DEF MarkRevoked, At, ReqSound, Typed
  <2>2. QED BY <1>6, <2>1 DEF Marks, MarkRevoked, tokens
<1>7. ASSUME NEW r \in Requests, NEW p \in Pairs, SweepSession(r, p) PROVE Marks /\ detail' = detail
  BY <1>7 DEF Marks, SweepSession, tokens
<1>8. ASSUME NEW r \in Requests, DropSessions(r) PROVE Marks /\ detail' = detail
  BY <1>8 DEF Marks, DropSessions, tokens
<1>9. ASSUME NEW r \in Requests, DatePair(r) PROVE Marks /\ Lines
  <2> DEFINE p == req[r].pair
             u == req[r].user
  <2>1. p \in Pairs /\ u \in Users /\ owner[p] = u /\ req[r].pc = "date"
    BY <1>9 DEF DatePair, At, ReqSound, ForUser, Steps, Minting
  <2>2. p \notin Dated
    BY <2>1 DEF Dated, Undating
  <2>3. p \in Dated'
    <3>1. \A x \in Pairs : owner[x] \in Users => Minted(x)'
      BY <1>9, AuthAssumption DEF DatePair, Minted, tokens
    <3>2. ASSUME NEW s \in Requests, req'[s].pc \in Undating PROVE req'[s].pair # p
      <4>1. s # r
        <5>1. req'[r].pc = "redate"
          BY <1>9, ReqFields, Places DEF ReqRecord
        <5>2. QED BY <3>2, <5>1 DEF Undating
      <4>2. req'[s] = req[s]
        BY <1>9, <4>1, StepKeepsOthers DEF Continue
      <4>3. QED BY <2>1, <3>2, <4>1, <4>2 DEF PairsApart, Minting, Undating
    <3>3. QED BY <2>1, <3>1, <3>2 DEF Dated
  <2>4. ZAdd(detail[u], p).of = Append(detail[u].of, p)
    BY <2>1, ZSetEntry DEF Typed
  <2>5. \A v \in Users : detail'[v] = IF v = u THEN ZAdd(detail[u], p) ELSE detail[v]
    BY <1>9, <2>1 DEF DatePair, Typed
  <2> HIDE DEF p, u
  <2>6. Lines
    BY <2>2, <2>3, <2>4, <2>5 DEF Lines
  <2>7. QED BY <1>9, <2>6 DEF DatePair, Marks, tokens
<1>10. ASSUME NEW r \in Requests, KeepDates(r) PROVE Marks /\ Lines
  <2>1. req[r].user \in Users
    BY <1>10 DEF KeepDates, At, ReqSound, ForUser, Steps
  <2>2. \A u \in Users : detail'[u].of = detail[u].of
    <3>1. detail[req[r].user] \in [of : Seq(Pairs), left : Left(Life + Slack)]
      BY <2>1 DEF Typed
    <3>2. Expire(detail[req[r].user], Life + Slack).of = detail[req[r].user].of
      BY <3>1, Renewed
    <3>3. QED BY <1>10, <2>1, <3>2 DEF KeepDates, Typed
  <2>3. QED BY <1>10, <2>2 DEF KeepDates, Marks, Lines, tokens
<1>11. ASSUME NEW r \in Requests, DropDetail(r) PROVE Marks /\ Lines
  <2>1. \A u \in Users : detail'[u].of = detail[u].of \/ detail'[u].of = << >>
    BY <1>11 DEF DropDetail, EmptyZSet, Typed
  <2>2. QED BY <1>11, <2>1 DEF DropDetail, Marks, Lines, tokens
<1>12. ASSUME NEW r \in Requests, Begin(r) \/ Continue(r) PROVE Monotone
  <2>1. ASSUME NEW p \in Pairs, Mint(r, p) PROVE Monotone
    BY <2>1, MintMonotone
  <2>2. QED
    BY <1>1, <1>2, <1>3, <1>4, <1>5, <1>6, <1>7, <1>8, <1>9, <1>10, <1>11, <1>12, <2>1 DEF Continue
<1>13. QED BY <1>12, TickMonotone DEF Next

--------------------------------------------------------------------------------
(* The store.                                                                *)

(* What is said of the sessions by age is kept by every such step.           *)
LEMMA LinesKept ==
  ASSUME Typed, Monotone, NEW u \in Users,
         \A i \in DOMAIN detail[u].of : detail[u].of[i] \in Dated,
         \A i, j \in DOMAIN detail[u].of : detail[u].of[i] = detail[u].of[j] => i = j
  PROVE  /\ \A i \in DOMAIN detail'[u].of : detail'[u].of[i] \in Dated'
         /\ \A i, j \in DOMAIN detail'[u].of : detail'[u].of[i] = detail'[u].of[j] => i = j
<1>1. CASE detail'[u].of = detail[u].of
  BY <1>1 DEF Monotone
<1>2. CASE detail'[u].of = << >>
  BY <1>2
<1>3. ASSUME NEW p \in Dated' \ Dated, detail'[u].of = Append(detail[u].of, p)
      PROVE  /\ \A i \in DOMAIN detail'[u].of : detail'[u].of[i] \in Dated'
             /\ \A i, j \in DOMAIN detail'[u].of : detail'[u].of[i] = detail'[u].of[j] => i = j
  <2> DEFINE line == detail[u].of
             n == Len(line)
  <2>1. line \in Seq(Pairs) /\ n \in Nat /\ DOMAIN line = 1 .. n
    BY DEF Typed
  <2>2. /\ DOMAIN detail'[u].of = 1 .. n + 1
        /\ \A i \in 1 .. n : detail'[u].of[i] = line[i]
        /\ detail'[u].of[n + 1] = p
    BY <1>3, <2>1, AppendProperties
  <2>3. Dated \subseteq Dated' /\ p \in Dated' /\ p \notin Dated
    BY <1>3 DEF Monotone
  <2> HIDE DEF line, n
  <2>4. \A i \in 1 .. n : line[i] \in Dated
    BY <2>1 DEF line
  <2>5. \A i, j \in 1 .. n : line[i] = line[j] => i = j
    BY <2>1 DEF line
  <2>6. ASSUME NEW i \in 1 .. n + 1 PROVE i \in 1 .. n \/ i = n + 1
    BY <2>1
  <2>7. QED BY <2>2, <2>3, <2>4, <2>5, <2>6
<1>4. QED BY <1>1, <1>2, <1>3 DEF Monotone

(* So the sessions by age stay sound through every step.                     *)
LEMMA LinesSound ==
  ASSUME IInv, Monotone, NEW u \in Users
  PROVE  /\ \A i \in DOMAIN detail'[u].of : detail'[u].of[i] \in Dated'
         /\ \A i, j \in DOMAIN detail'[u].of : detail'[u].of[i] = detail'[u].of[j] => i = j
<1>1. Typed /\ StoreSound
  BY DEF IInv
<1>2. QED BY <1>1, LinesKept DEF StoreSound

(* A list outlives its tokens through a step that leaves it, and them, alone. *)
LEMMA OutlivesKept ==
  ASSUME IInv, NEW u \in Users, access' = access,
         sessions'[u].of \subseteq sessions[u].of,
         sessions'[u].left = sessions[u].left \/ sessions'[u].of = {},
         Unkept \subseteq Unkept'
  PROVE  Outlives(u)'
BY ListSound DEF Outlives

(* What a step that leaves the lists of sessions alone has to see to.         *)
LEMMA SameLists ==
  ASSUME IInv, Monotone, UNCHANGED <<owner, access, sessions>>,
         held' = held, \A u \in Users : Outlives(u)',
         UNCHANGED revoked \/ \E p \in Pairs : Minted(p) /\ revoked' = SetWithTtl(revoked, p, Life)
  PROVE  StoreSound'
<1> USE DEF IInv
<1>1. \A p \in Pairs : Marked(revoked, p)' => Minted(p)' /\ access'[p] =< revoked'[p]
  <2>1. \A p \in Pairs : access[p] =< Life
    BY AuthAssumption DEF Typed
  <2>2. QED BY <2>1 DEF StoreSound, Marked, Minted, SetWithTtl, Typed
<1>2. QED BY <1>1, LinesSound DEF StoreSound, Minted

(* Sessions taken out of a list leave it as sound.                           *)
LEMMA FewerSessions ==
  ASSUME IInv, Monotone, UNCHANGED <<owner, access, held, revoked>>, Unkept \subseteq Unkept',
         \A u \in Users : \/ /\ sessions'[u].of \subseteq sessions[u].of
                             /\ sessions'[u].left = sessions[u].left
                          \/ sessions'[u].of = {}
  PROVE  StoreSound'
<1>1. ASSUME NEW u \in Users
      PROVE  /\ IsFiniteSet(sessions'[u].of) /\ (sessions'[u].left = Gone => sessions'[u].of = {})
             /\ \A p \in sessions'[u].of : owner'[p] = u
             /\ Outlives(u)'
  <2>1. sessions'[u].of \subseteq sessions[u].of
    BY <1>1
  <2>2. IsFiniteSet(sessions'[u].of)
    BY <2>1, ListSound, FS_Subset
  <2>3. Outlives(u)'
    BY <2>1, OutlivesKept
  <2>4. QED BY <1>1, <2>1, <2>2, <2>3, ListSound
<1>2. StoreSound
  BY DEF IInv
<1>3. QED BY <1>1, <1>2, LinesSound DEF StoreSound, Marked, Minted

(* A login's entry: it refreshes the whole set.                              *)
LEMMA MintStore ==
  ASSUME IInv, NEW r \in Requests, NEW p \in Pairs, Mint(r, p)
  PROVE  StoreSound'
<1> USE DEF IInv
<1> DEFINE u == req[r].user
<1>1. u \in Users /\ u # Nobody /\ owner[p] = Nobody
  BY AuthAssumption DEF Mint, At, ReqSound, ForUser, Steps, Fresh
<1>2. /\ sessions'[u].of = sessions[u].of \cup {p}
      /\ sessions'[u].left = IF sessions[u].left = Gone THEN Forever ELSE sessions[u].left
      /\ \A v \in Users : v # u => sessions'[v] = sessions[v]
  <2>1. /\ SetAdd(sessions[u], p).of = sessions[u].of \cup {p}
        /\ SetAdd(sessions[u], p).left = IF sessions[u].left = Gone THEN Forever ELSE sessions[u].left
    BY DEF SetAdd
  <2>2. sessions' = [sessions EXCEPT ![u] = SetAdd(sessions[u], p)] /\ DOMAIN sessions = Users
    BY DEF Mint, Typed
  <2> HIDE DEF u
  <2>3. QED BY <1>1, <2>1, <2>2
<1>3. /\ owner' = [owner EXCEPT ![p] = u] /\ access' = [access EXCEPT ![p] = Life]
      /\ UNCHANGED <<held, revoked, detail>>
  BY DEF Mint
<1>4. Unkept \subseteq Unkept' /\ p \in Unkept'
  <2>1. req'[r].pc = "keep" /\ req'[r].pair = p
    BY Places
  <2>2. \A s \in Requests : At(s, "keep") => s # r /\ req'[s] = req[s]
    BY StepKeepsOthers DEF Mint, At, Continue
  <2>3. QED BY <2>1, <2>2 DEF Unkept, At
<1> HIDE DEF u
<1>5. \A q \in Pairs : Minted(q) => q # p /\ owner'[q] = owner[q] /\ access'[q] = access[q]
  BY <1>1, <1>3 DEF Minted, Typed
<1>6. owner'[p] = u
  BY <1>1, <1>3 DEF Typed
<1>7. ASSUME NEW v \in Users
      PROVE  /\ IsFiniteSet(sessions'[v].of) /\ (sessions'[v].left = Gone => sessions'[v].of = {})
             /\ \A q \in sessions'[v].of : owner'[q] = v
             /\ Outlives(v)'
  <2>1. CASE v = u
    <3>1. IsFiniteSet(sessions'[u].of)
      BY <1>1, <1>2, ListSound, FS_AddElement
    <3>2. sessions'[u].left # Gone
      BY <1>2 DEF Gone, Forever
    <3>3. \A q \in sessions'[u].of : owner'[q] = u
      BY <1>1, <1>2, <1>5, <1>6, ListSound
    <3>4. ASSUME NEW q \in sessions'[u].of, q \notin Unkept'
          PROVE  sessions'[u].left = Forever \/ access'[q] =< sessions'[u].left
      <4>1. q \in sessions[u].of /\ q \in Pairs /\ Minted(q) /\ q \notin Unkept
        BY <1>1, <1>2, <1>4, <3>4, ListSound
      <4>2. sessions[u].left = Forever \/ access[q] =< sessions[u].left
        BY <1>1, <4>1, ListSound DEF Outlives
      <4>3. sessions[u].left # Gone
        BY <1>1, <4>1, ListSound
      <4>4. QED BY <1>2, <1>5, <4>1, <4>2, <4>3
    <3>5. QED BY <2>1, <3>1, <3>2, <3>3, <3>4 DEF Outlives
  <2>2. CASE v # u
    <3>1. sessions'[v] = sessions[v]
      BY <1>2, <2>2
    <3>2. \A q \in sessions[v].of : q \in Pairs /\ owner'[q] = v /\ access'[q] = access[q]
      BY <1>5, ListSound
    <3>3. QED BY <1>4, <3>1, <3>2, ListSound DEF Outlives
  <2>3. QED BY <2>1, <2>2
<1>8. \A q \in Pairs : Marked(revoked, q)' => Minted(q)' /\ access'[q] =< revoked'[q]
  BY <1>3, <1>5 DEF StoreSound, Marked, Minted
<1>9. \A q \in held' : Minted(q)'
  BY <1>3, <1>5 DEF StoreSound, Typed, Minted
<1>10. Monotone
  BY MintMonotone
<1>11. QED BY <1>7, <1>8, <1>9, <1>10, LinesSound DEF StoreSound

(* A list that is renewed outlives all its tokens.                           *)
LEMMA KeepStore ==
  ASSUME IInv, NEW r \in Requests, KeepSessions(r)
  PROVE  StoreSound'
<1> DEFINE u == req[r].user
<1>1. u \in Users /\ Typed /\ StoreSound
  BY DEF IInv, KeepSessions, At, ReqSound, ForUser, Steps
<1>2. Monotone
  BY NextMonotone DEF Next, Continue
<1>3. UNCHANGED <<owner, access, held, revoked, detail>>
  BY DEF KeepSessions, tokens
<1>4. /\ sessions'[u].of = sessions[u].of
      /\ sessions'[u].left = IF sessions[u].left = Gone THEN Gone ELSE Life + Slack
      /\ \A v \in Users : v # u => sessions'[v] = sessions[v]
  <2>1. /\ Expire(sessions[u], Life + Slack).of = sessions[u].of
        /\ Expire(sessions[u], Life + Slack).left = IF sessions[u].left = Gone THEN Gone ELSE Life + Slack
    <3>1. sessions[u] \in [of : SUBSET Pairs, left : Left(Life + Slack)]
      BY <1>1, ListSound
    <3>2. QED BY <3>1, Renewed
  <2>2. sessions' = [sessions EXCEPT ![u] = Expire(sessions[u], Life + Slack)] /\ DOMAIN sessions = Users
    BY <1>1 DEF KeepSessions, Typed
  <2> HIDE DEF u
  <2>3. QED BY <1>1, <2>1, <2>2
<1>5. \A p \in Unkept : p \in Unkept' \/ p = req[r].pair
  BY StepKeepsOthers DEF Continue, Unkept, At
<1>6. owner[req[r].pair] = u /\ req[r].pair \in Pairs
  BY DEF IInv, KeepSessions, At, ReqSound, Minting
<1> HIDE DEF u
<1>7. ASSUME NEW v \in Users, NEW p \in sessions'[v].of, p \notin Unkept'
      PROVE  sessions'[v].left = Forever \/ access'[p] =< sessions'[v].left
  <2>1. p \in sessions[v].of /\ p \in Pairs
    BY <1>1, <1>4, <1>7, ListSound
  <2>2. CASE v = u
    <3>1. sessions'[u].left = Life + Slack
      <4>1. sessions[u].of # {} /\ (sessions[u].left = Gone => sessions[u].of = {})
        BY <1>1, <2>1, <2>2, ListSound
      <4>2. QED BY <1>4, <4>1
    <3>2. access[p] \in Nat /\ access[p] =< Life /\ Life \in Nat /\ Slack \in Nat
      BY <1>1, <2>1, AuthAssumption DEF Typed
    <3>3. QED BY <1>3, <2>2, <3>1, <3>2
  <2>3. CASE v # u
    <3>1. p # req[r].pair
      BY <1>1, <1>6, <2>1, <2>3, ListSound
    <3>2. p \notin Unkept
      BY <1>5, <1>7, <3>1
    <3>3. QED BY <1>3, <1>4, <2>1, <2>3, <3>2, ListSound DEF Outlives
  <2>4. QED BY <2>2, <2>3
<1>8. ASSUME NEW v \in Users
      PROVE  /\ IsFiniteSet(sessions'[v].of) /\ (sessions'[v].left = Gone => sessions'[v].of = {})
             /\ \A p \in sessions'[v].of : owner'[p] = v
  <2>1. sessions'[v].of = sessions[v].of /\ (sessions'[v].left = Gone => sessions[v].left = Gone)
    BY <1>1, <1>4, AuthAssumption DEF Gone
  <2>2. QED BY <1>3, <2>1, ListSound DEF Minted
<1>9. QED BY <1>1, <1>2, <1>3, <1>7, <1>8, LinesSound DEF StoreSound, Outlives, Marked, Minted

(* A list outlives its tokens, a mark its own (auth.py:164, 146).            *)
LEMMA TickStore ==
  ASSUME IInv, Tick
  PROVE  StoreSound'
<1> USE DEF IInv
<1>1. Monotone
  BY TickMonotone
<1>2. \A p \in Pairs : /\ access[p] \in Nat /\ access'[p] = IF access[p] > 0 THEN access[p] - 1 ELSE 0
                       /\ revoked[p] \in Nat
                       /\ revoked'[p] = IF revoked[p] > 0 THEN revoked[p] - 1 ELSE revoked[p]
  BY AuthAssumption DEF Tick, Aged, Typed
<1>3. \A p \in Pairs : Marked(revoked, p)' => Minted(p)' /\ access'[p] =< revoked'[p]
  <2> TAKE p \in Pairs
  <2>1. HAVE Marked(revoked, p)'
  <2>2. revoked[p] # 0 /\ revoked'[p] = revoked[p] - 1
    BY <1>2, <2>1 DEF Marked, Gone
  <2>3. Minted(p) /\ access[p] =< revoked[p]
    BY <2>2 DEF StoreSound, Marked, Gone
  <2>4. QED BY <1>1, <1>2, <2>2, <2>3 DEF Monotone, Minted
<1>4. ASSUME NEW u \in Users
      PROVE  /\ IsFiniteSet(sessions'[u].of) /\ (sessions'[u].left = Gone => sessions'[u].of = {})
             /\ \A p \in sessions'[u].of : owner'[p] = u
             /\ Outlives(u)'
  <2>0. sessions[u] \in [of : SUBSET Pairs, left : Left(Life + Slack)]
    BY ListSound
  <2>1. sessions'[u] = AgedOr(sessions[u], EmptySet)
    BY DEF Tick
  <2>2. owner' = owner /\ Unkept' = Unkept
    BY DEF Tick, Unkept, At
  <2>3. CASE sessions[u].left = Forever
    <3>1. sessions'[u] = sessions[u]
      BY <2>0, <2>1, <2>3, Ages
    <3>2. QED BY <2>2, <2>3, <3>1, ListSound DEF Outlives
  <2>4. CASE sessions[u].left # Forever /\ sessions[u].left =< 1
    <3>1. sessions'[u] = EmptySet
      BY <2>0, <2>1, <2>4, Ages
    <3>2. sessions'[u].of = {}
      BY <3>1 DEF EmptySet
    <3>3. QED BY <3>2, FS_EmptySet DEF Outlives
  <2>5. CASE sessions[u].left # Forever /\ ~(sessions[u].left =< 1)
    <3>1. sessions[u].left \in Nat /\ sessions'[u] = [of |-> sessions[u].of, left |-> sessions[u].left - 1]
      BY <2>0, <2>1, <2>5, Ages
    <3>2. sessions'[u].of = sessions[u].of /\ sessions'[u].left = sessions[u].left - 1
      BY <3>1
    <3>3. ASSUME NEW p \in sessions[u].of, p \notin Unkept
          PROVE  access'[p] =< sessions[u].left - 1
      <4>1. access[p] =< sessions[u].left /\ p \in Pairs
        BY <2>5, <3>3, ListSound DEF Outlives
      <4>2. QED BY <1>2, <2>5, <3>1, <4>1
    <3>4. sessions'[u].left # Gone
      BY <2>5, <3>1, <3>2 DEF Gone
    <3>5. QED BY <2>2, <3>2, <3>3, <3>4, ListSound DEF Outlives
  <2>6. QED BY <2>3, <2>4, <2>5
<1>5. \A p \in held' : Minted(p)'
  BY DEF Tick, StoreSound, Minted
<1>6. QED BY <1>1, <1>3, <1>4, <1>5, LinesSound DEF StoreSound

(* A pair is handed out, and dated.                                          *)
LEMMA ReturnStore ==
  ASSUME IInv, NEW r \in Requests, ReturnPair(r)
  PROVE  StoreSound'
<1> USE DEF IInv
<1>1. Monotone
  BY NextMonotone DEF Next, Continue
<1>2. req[r].pair \in Pairs \ held /\ Minted(req[r].pair)
  BY AuthAssumption DEF ReturnPair, At, ReqSound, ForUser, Steps, Minting, Minted
<1>3. held' = held \cup {req[r].pair} /\ UNCHANGED <<owner, access, revoked, sessions, detail>>
  BY DEF ReturnPair, store
<1>4. \A p \in held' : Minted(p)'
  BY <1>2, <1>3 DEF StoreSound, Minted
<1>5. Unkept \subseteq Unkept'
  BY StepKeepsOthers DEF Continue, Unkept, At, ReturnPair
<1>6. \A u \in Users : Outlives(u)'
  BY <1>3, <1>5, OutlivesKept
<1>7. QED BY <1>1, <1>3, <1>4, <1>6, LinesSound DEF StoreSound, Marked, Minted

(* Every step leaves the store sound.                                        *)
LEMMA NextStoreSound ==
  ASSUME IInv, Next
  PROVE  StoreSound'
<1> USE DEF IInv
<1>1. Monotone
  BY NextMonotone
<1>2. ASSUME NEW r \in Requests, Begin(r) \/ Continue(r), ~At(r, "keep")
      PROVE  Unkept \subseteq Unkept'
  BY <1>2, StepKeepsOthers DEF Unkept, At
<1>3. ASSUME NEW r \in Requests, Begin(r) \/ Continue(r), ~At(r, "keep"),
             UNCHANGED <<owner, access, held, sessions>>,
             UNCHANGED revoked \/ \E p \in Pairs : Minted(p) /\ revoked' = SetWithTtl(revoked, p, Life)
      PROVE  StoreSound'
  <2>1. \A u \in Users : Outlives(u)'
    BY <1>2, <1>3, OutlivesKept
  <2>2. QED BY <1>1, <1>3, <2>1, SameLists
<1>4. ASSUME NEW r \in Requests, Begin(r) PROVE StoreSound'
  BY <1>3, <1>4
     DEF Begin, Login, RefreshToken, Logout, ChangePassword, RevokeSession, tokens, store, At
<1>5. ASSUME NEW r \in Requests,
             CountSessions(r) \/ RankSessions(r) \/ ConsumeToken(r) \/ ReadSessions(r)
      PROVE  StoreSound'
  BY <1>3, <1>5
     DEF CountSessions, RankSessions, ConsumeToken, ReadSessions, Continue, tokens, store, At
<1>6. ASSUME NEW r \in Requests, DatePair(r) \/ KeepDates(r) \/ DropDetail(r)
      PROVE  StoreSound'
  BY <1>3, <1>6 DEF DatePair, KeepDates, DropDetail, Continue, tokens, At
<1>7. ASSUME NEW r \in Requests, MarkOldest(r) PROVE StoreSound'
  <2>1. Head(req[r].queue) \in Pairs /\ Minted(Head(req[r].queue))
    <3>1. /\ req[r].queue # << >> /\ req[r].queue \in Seq(Pairs)
          /\ \A k \in DOMAIN req[r].queue : req[r].queue[k] \in Dated
      BY <1>7, ReqFields DEF MarkOldest, At, ReqSound
    <3>2. Head(req[r].queue) \in Dated
      BY <3>1
    <3>3. QED BY <3>2 DEF Dated
  <2>2. QED BY <1>3, <1>7, <2>1 DEF MarkOldest, Continue, tokens, At
<1>8. ASSUME NEW r \in Requests, MarkRevoked(r) PROVE StoreSound'
  <2>1. req[r].pair \in Pairs /\ Minted(req[r].pair)
    BY <1>8 DEF MarkRevoked, At, ReqSound, StoreSound, Typed
  <2>2. QED BY <1>3, <1>8, <2>1 DEF MarkRevoked, Continue, tokens, At
<1>9. ASSUME NEW r \in Requests, NEW p \in Pairs, SweepSession(r, p) PROVE StoreSound'
  <2>1. Minted(p)
    BY <1>9 DEF SweepSession, ReqSound
  <2>2. QED BY <1>3, <1>9, <2>1 DEF SweepSession, Continue, tokens, At
<1>10. ASSUME NEW r \in Requests, UnlistOldest(r) \/ Forget(r) PROVE StoreSound'
  <2>1. \A u \in Users : \/ /\ sessions'[u].of \subseteq sessions[u].of
                            /\ sessions'[u].left = sessions[u].left
                         \/ sessions'[u].of = {}
    <3>1. ASSUME NEW u \in Users, NEW p
          PROVE  \/ /\ SetRemove(sessions[u], p).of \subseteq sessions[u].of
                    /\ SetRemove(sessions[u], p).left = sessions[u].left
                 \/ SetRemove(sessions[u], p).of = {}
      BY ListSound, SetRemoves DEF EmptySet
    <3>2. \A u \in Users : sessions'[u] = sessions[u] \/ \E p : sessions'[u] = SetRemove(sessions[u], p)
      BY <1>10 DEF UnlistOldest, Forget, Typed
    <3>3. QED BY <3>1, <3>2
  <2>2. Unkept \subseteq Unkept'
    BY <1>2, <1>10 DEF UnlistOldest, Forget, Continue, At
  <2>3. QED BY <1>1, <1>10, <2>1, <2>2, FewerSessions DEF UnlistOldest, Forget, tokens
<1>11. ASSUME NEW r \in Requests, DropSessions(r) PROVE StoreSound'
  <2>1. \A u \in Users : sessions'[u] = sessions[u] \/ sessions'[u].of = {}
    BY <1>11 DEF DropSessions, EmptySet, Typed
  <2>2. Unkept \subseteq Unkept'
    BY <1>2, <1>11 DEF DropSessions, Continue, At
  <2>3. QED BY <1>1, <1>11, <2>1, <2>2, FewerSessions DEF DropSessions, tokens
<1>12. QED
  BY <1>4, <1>5, <1>6, <1>7, <1>8, <1>9, <1>10, <1>11, MintStore, KeepStore, ReturnStore, TickStore
     DEF Next, Continue

--------------------------------------------------------------------------------
(* The list of sessions.                                                     *)

(* A pair stays listed through a step that only refuses pairs, and takes only *)
(* refused ones out of a list.                                               *)
LEMMA StaysListed ==
  ASSUME IInv, Monotone, UNCHANGED owner,
         \A p \in Pairs \ orphans' : /\ Minted(p) /\ Accepted(p)' /\ p \in sessions[owner[p]].of
                                     => p \in sessions'[owner[p]].of
  PROVE  Listed'
<1>1. ASSUME NEW p \in Pairs \ orphans', Minted(p)', Accepted(p)'
      PROVE  p \in sessions'[owner'[p]].of
  <2>1. p \in Pairs \ orphans /\ Minted(p) /\ Accepted(p)
    BY <1>1 DEF Monotone, Minted
  <2>2. p \in sessions[owner[p]].of
    BY <2>1 DEF IInv, Listed
  <2>3. QED BY <1>1, <2>1, <2>2
<1>2. QED BY <1>1 DEF Listed

(* A pair that is minted is listed in the same step.                         *)
LEMMA MintListed ==
  ASSUME IInv, NEW r \in Requests, NEW p \in Pairs, Mint(r, p)
  PROVE  Listed'
<1> USE DEF IInv
<1>1. Monotone
  BY MintMonotone
<1>2. req[r].user \in Users
  BY DEF Mint, At, ReqSound, ForUser, Steps
<1>3. \A u \in Users : sessions'[u].of = IF u = req[r].user THEN sessions[u].of \cup {p}
                                                          ELSE sessions[u].of
  <2>1. \A u \in Users : SetAdd(sessions[u], p).of = sessions[u].of \cup {p}
    BY DEF SetAdd
  <2>2. QED BY <1>2, <2>1 DEF Mint, Typed
<1>4. /\ \A u \in Users : sessions[u].of \subseteq sessions'[u].of
      /\ p \in sessions'[req[r].user].of
  BY <1>2, <1>3
<1>5. owner' = [owner EXCEPT ![p] = req[r].user] /\ orphans' = orphans
  BY DEF Mint
<1>6. ASSUME NEW q \in Pairs \ orphans', Minted(q)', Accepted(q)'
      PROVE  q \in sessions'[owner'[q]].of
  <2>1. CASE q = p
    BY <1>4, <1>5, <2>1 DEF Typed
  <2>2. CASE q # p
    <3>1. owner'[q] = owner[q] /\ Minted(q) /\ owner[q] \in Users
      BY <1>5, <1>6, <2>2 DEF Minted, Typed
    <3>2. Accepted(q)
      BY <1>1, <1>6, <3>1 DEF Monotone
    <3>3. q \in sessions[owner[q]].of
      BY <1>5, <1>6, <3>1, <3>2 DEF Listed
    <3>4. QED BY <1>4, <3>1, <3>3
  <2>3. QED BY <2>1, <2>2
<1>7. QED BY <1>6 DEF Listed

(* A list's time is over when its tokens' is.                                *)
LEMMA TickListed ==
  ASSUME IInv, Tick
  PROVE  Listed'
<1> USE DEF IInv
<1>1. Monotone
  BY TickMonotone
<1>2. ASSUME NEW p \in Pairs \ orphans', Minted(p), Accepted(p)', p \in sessions[owner[p]].of
      PROVE  p \in sessions'[owner[p]].of
  <2>1. owner[p] \in Users
    BY <1>2 DEF Minted, Typed
  <2> DEFINE list == sessions[owner[p]]
  <2>2. /\ sessions'[owner[p]] = AgedOr(list, EmptySet)
        /\ list \in [of : SUBSET Pairs, left : Left(Life + Slack)]
    BY <2>1 DEF Tick, Typed
  <2>3. access[p] \in Nat /\ access[p] > 1
    BY <1>2, AuthAssumption DEF Accepted, Tick, Typed
  <2>4. Aged(list.left) # Gone
    <3>1. CASE p \in Unkept
      BY <1>2, <3>1 DEF Tick, RunningOut
    <3>2. CASE p \notin Unkept
      <4>1. list.left = Forever \/ access[p] =< list.left
        BY <1>2, <2>1, <3>2, ListSound DEF Outlives
      <4>2. list.left \in Nat \/ list.left = Forever
        BY <2>2, Ages
      <4> HIDE DEF list
      <4>3. QED BY <2>3, <4>1, <4>2 DEF Aged, Gone, Forever
    <3>3. QED BY <3>1, <3>2
  <2>5. AgedOr(list, EmptySet).of = list.of
    BY <2>2, <2>4 DEF AgedOr
  <2>6. QED BY <1>2, <2>2, <2>5
<1>3. QED BY <1>1, <1>2, StaysListed DEF Tick

(* Every step keeps live tokens listed: only refused ones are taken out      *)
(* (auth.py:147, 820, 978), but for what a password change drops.            *)
LEMMA NextListed ==
  ASSUME IInv, Next
  PROVE  Listed'
<1> USE DEF IInv
<1>1. Monotone
  BY NextMonotone
<1>2. ASSUME UNCHANGED <<owner, sessions>> PROVE Listed'
  BY <1>1, <1>2, StaysListed
<1>3. ASSUME NEW r \in Requests, Begin(r) PROVE Listed'
  BY <1>2, <1>3 DEF Begin, Login, RefreshToken, Logout, ChangePassword, RevokeSession, tokens, store
<1>4. ASSUME NEW r \in Requests,
             \/ CountSessions(r) \/ RankSessions(r) \/ MarkOldest(r) \/ ConsumeToken(r)
             \/ DatePair(r) \/ KeepDates(r) \/ ReturnPair(r) \/ MarkRevoked(r) \/ ReadSessions(r)
             \/ (\E p \in Pairs : SweepSession(r, p)) \/ DropDetail(r)
      PROVE  Listed'
  BY <1>2, <1>4 DEF CountSessions, RankSessions, MarkOldest, ConsumeToken, DatePair,
                    KeepDates, ReturnPair, MarkRevoked,
                    ReadSessions, SweepSession, DropDetail, tokens, store
<1>5. ASSUME NEW gone \in Pairs, ~Accepted(gone), Minted(gone),
             UNCHANGED owner,
             \A u \in Users : sessions'[u] = sessions[u] \/ sessions'[u] = SetRemove(sessions[u], gone)
      PROVE  Listed'
  <2>1. \A u \in Users : sessions[u].of \subseteq sessions'[u].of \cup {gone}
    <3>1. ASSUME NEW u \in Users PROVE SetRemove(sessions[u], gone).of = sessions[u].of \ {gone}
      BY ListSound, SetRemoves
    <3>2. QED BY <1>5, <3>1
  <2>2. ~Accepted(gone)'
    BY <1>1, <1>5 DEF Monotone
  <2>3. \A p \in Pairs : Minted(p) => owner[p] \in Users
    BY DEF Minted, Typed
  <2>4. QED BY <1>1, <1>5, <2>1, <2>2, <2>3, StaysListed
<1>6. ASSUME NEW r \in Requests, UnlistOldest(r) PROVE Listed'
  <2> DEFINE gone == Head(req[r].queue)
  <2>1. gone \in Pairs /\ ~Accepted(gone) /\ Minted(gone)
    <3>1. /\ req[r].queue # << >> /\ req[r].queue \in Seq(Pairs)
          /\ \A k \in DOMAIN req[r].queue : req[r].queue[k] \in Dated
          /\ req[r].queue[1] \in Refused
      BY <1>6, ReqFields DEF UnlistOldest, At, ReqSound
    <3>2. gone = req[r].queue[1] /\ gone \in Dated
      BY <3>1
    <3>3. QED BY <3>1, <3>2 DEF Dated, Refused
  <2>2. \A u \in Users : sessions'[u] = sessions[u] \/ sessions'[u] = SetRemove(sessions[u], gone)
    BY <1>6 DEF UnlistOldest, Typed
  <2> HIDE DEF gone
  <2>3. QED BY <1>5, <1>6, <2>1, <2>2 DEF UnlistOldest, tokens
<1>7. ASSUME NEW r \in Requests, Forget(r) PROVE Listed'
  <2>1. req[r].pair \in Pairs /\ ~Accepted(req[r].pair) /\ Minted(req[r].pair)
    BY <1>7 DEF Forget, At, ReqSound, StoreSound, Refused, Typed
  <2>2. \A u \in Users : \/ sessions'[u] = sessions[u]
                         \/ sessions'[u] = SetRemove(sessions[u], req[r].pair)
    BY <1>7 DEF Forget, Typed
  <2>3. QED BY <1>5, <1>7, <2>1, <2>2 DEF Forget, tokens
<1>8. ASSUME NEW r \in Requests, DropSessions(r) PROVE Listed'
  <2> DEFINE u == req[r].user
  <2>1. /\ u \in Users /\ req[r].todo = {} /\ req[r].known \subseteq Owned(u)
        /\ \A p \in req[r].known \ orphans : Accepted(p) => p \in req[r].todo
    BY <1>8 DEF DropSessions, At, ReqSound, ForUser, Steps
  <2>2. /\ orphans' = orphans \cup {p \in sessions[u].of \ req[r].known : ~Marked(revoked, p)}
        /\ UNCHANGED <<owner, access, revoked>>
        /\ \A v \in Users : v # u => sessions'[v] = sessions[v]
    BY <1>8 DEF DropSessions, tokens
  <2>3. ASSUME NEW p \in Pairs \ orphans', Minted(p), Accepted(p)', p \in sessions[owner[p]].of
        PROVE  p \in sessions'[owner[p]].of
    <3>1. Accepted(p) /\ ~Marked(revoked, p) /\ owner[p] \in Users
      BY <2>2, <2>3 DEF Accepted, Marked, Minted, Typed
    <3>2. CASE owner[p] = u
      <4>1. p \notin req[r].known
        BY <2>1, <2>2, <2>3, <3>1
      <4>2. p \in orphans'
        BY <2>2, <2>3, <3>1, <3>2, <4>1
      <4>3. QED BY <2>3, <4>2
    <3>3. CASE owner[p] # u
      BY <2>2, <2>3, <3>1, <3>3
    <3>4. QED BY <3>2, <3>3
  <2>4. QED BY <1>1, <2>2, <2>3, StaysListed
<1>9. ASSUME NEW r \in Requests, KeepSessions(r) PROVE Listed'
  <2>1. req[r].user \in Users
    BY <1>9 DEF KeepSessions, At, ReqSound, ForUser, Steps
  <2>2. \A u \in Users : sessions'[u].of = sessions[u].of
    <3>1. Expire(sessions[req[r].user], Life + Slack).of = sessions[req[r].user].of
      BY <2>1, ListSound, Renewed
    <3>2. QED BY <1>9, <2>1, <3>1 DEF KeepSessions, Typed
  <2>3. \A p \in Pairs : Minted(p) => owner[p] \in Users
    BY DEF Minted, Typed
  <2>4. QED BY <1>1, <1>9, <2>2, <2>3, StaysListed DEF KeepSessions, tokens
<1>10. QED
  BY <1>3, <1>4, <1>6, <1>7, <1>8, <1>9, MintListed, TickListed DEF Next, Continue

--------------------------------------------------------------------------------
(* The requests.                                                             *)

(* The order of a queue survives what others do to the list it was cut from: *)
(* they append pairs that are not in the queue, or drop the list.            *)
LEMMA OrderKept ==
  ASSUME IInv, Monotone, NEW u \in Users, NEW queue \in Seq(Pairs),
         \A k \in DOMAIN queue : queue[k] \in Dated,
         InOrder(queue, detail[u].of)
  PROVE  InOrder(queue, detail[u].of)'
<1> USE DEF IInv
<1> DEFINE line == detail[u].of
           n == Len(line)
<1>1. line \in Seq(Pairs) /\ n \in Nat /\ DOMAIN line = 1 .. n
  BY DEF Typed
<1>2. \A i \in 1 .. n : line[i] \in Refused => line[i] \in Refused'
  <2>1. \A i \in 1 .. n : line[i] \in Dated
    BY <1>1 DEF StoreSound
  <2>2. \A p \in Dated : p \in Refused => p \in Refused'
    BY DEF Dated, Monotone, Refused
  <2>3. QED BY <2>1, <2>2
<1>3. ASSUME NEW k \in DOMAIN queue, NEW i \in 1 .. n, NEW j \in 1 .. n, i < j, line[j] = queue[k]
      PROVE  line[i] \in Refused' \/ \E m \in 1 .. k - 1 : queue[m] = line[i]
  BY <1>1, <1>2, <1>3 DEF InOrder
<1>4. CASE detail'[u].of = line
  <2>1. /\ DOMAIN detail'[u].of = 1 .. n
        /\ \A i \in 1 .. n : detail'[u].of[i] = line[i]
    BY <1>1, <1>4
  <2> HIDE DEF n, line
  <2>2. QED BY <1>3, <2>1 DEF InOrder
<1>5. CASE detail'[u].of = << >>
  BY <1>5 DEF InOrder
<1>6. ASSUME NEW p \in Dated' \ Dated, detail'[u].of = Append(line, p)
      PROVE  InOrder(queue, detail[u].of)'
  <2>1. /\ DOMAIN detail'[u].of = 1 .. n + 1
        /\ \A i \in 1 .. n : detail'[u].of[i] = line[i]
        /\ detail'[u].of[n + 1] = p
    BY <1>1, <1>6, AppendProperties
  <2>2. ASSUME NEW k \in DOMAIN queue, NEW i \in 1 .. n + 1, NEW j \in 1 .. n + 1,
               i < j, detail'[u].of[j] = queue[k]
        PROVE  \/ detail'[u].of[i] \in Refused'
               \/ \E m \in 1 .. k - 1 : queue[m] = detail'[u].of[i]
    <3>1. j # n + 1
      BY <1>6, <2>1, <2>2
    <3>2. i \in 1 .. n /\ j \in 1 .. n
      <4>1. n \in Nat /\ i < j
        BY <1>1, <2>2
      <4> HIDE DEF n
      <4>2. QED BY <3>1, <4>1
    <3>3. detail'[u].of[i] = line[i] /\ detail'[u].of[j] = line[j]
      BY <2>1, <3>2
    <3>4. QED BY <1>3, <2>2, <3>2, <3>3
  <2> HIDE DEF n, line
  <2>3. QED BY <2>1, <2>2 DEF InOrder
<1>7. QED BY <1>4, <1>5, <1>6 DEF Monotone

(* What a request has read stays good for it while others go on.             *)
LEMMA OthersKeep ==
  ASSUME IInv, Monotone, NEW r \in Requests, req'[r] = req[r],
         req[r].pc \in Minting => req[r].pair \notin held'
  PROVE  ReqSound(r)'
<1> USE DEF IInv
<1> DEFINE q == req[r]
<1>1. ReqSound(r) /\ q.queue \in Seq(Pairs) /\ q.pair \in Pairs \cup {NoPair} /\ q.todo \in SUBSET Pairs
  BY ReqFields
<1>2. held \subseteq held' /\ orphans \subseteq orphans' /\ Dated \subseteq Dated'
  BY DEF Monotone
<1>3. \A p \in Pairs : Minted(p) =>
         /\ Minted(p)' /\ owner'[p] = owner[p]
         /\ p \in Refused => p \in Refused'
         /\ Accepted(p)' => Accepted(p)
  BY DEF Monotone, Minted, Refused
<1>4. \A p \in held : p \in Pairs /\ Minted(p)
  BY DEF StoreSound, Typed
<1>5. /\ q.pc \in {"evict", "unlist"} => /\ \A k \in DOMAIN q.queue : q.queue[k] \in Dated'
                                         /\ InOrder(req[r].queue, detail[req[r].user].of)'
      /\ q.pc = "unlist" => q.queue[1] \in Refused'
  <2>1. SUFFICES ASSUME q.pc \in {"evict", "unlist"}
                 PROVE  /\ \A k \in DOMAIN q.queue : q.queue[k] \in Dated'
                        /\ InOrder(req[r].queue, detail[req[r].user].of)'
                        /\ q.pc = "unlist" => q.queue[1] \in Refused'
    OBVIOUS
  <2>2. /\ q.user \in Users /\ q.queue # << >> /\ InOrder(q.queue, detail[q.user].of)
        /\ \A k \in DOMAIN q.queue : q.queue[k] \in Dated
        /\ q.pc = "unlist" => q.queue[1] \in Refused
    BY <1>1, <2>1 DEF ReqSound, ForUser, Steps
  <2>3. InOrder(q.queue, detail[q.user].of)'
    <3>1. ASSUME NEW u \in Users, NEW queue \in Seq(Pairs), queue = q.queue, u = q.user
          PROVE  InOrder(queue, detail[u].of)'
      BY <2>2, <3>1, OrderKept
    <3>2. QED BY <1>1, <2>2, <3>1
  <2>4. q.queue[1] \in Dated
    BY <1>1, <2>2
  <2>5. QED BY <1>2, <1>3, <2>2, <2>3, <2>4 DEF Dated
<1>6. q.pc \in Minting => q.pair \in Pairs \ held' /\ owner'[q.pair] = q.user
  <2>1. SUFFICES ASSUME q.pc \in Minting
                 PROVE  q.pair \in Pairs \ held' /\ owner'[q.pair] = q.user
    OBVIOUS
  <2>2. q.pair \in Pairs /\ owner[q.pair] = q.user /\ q.user \in Users
    BY <1>1, <2>1 DEF ReqSound, ForUser, Steps, Minting
  <2>3. Minted(q.pair)
    BY <2>2, AuthAssumption DEF Minted
  <2>4. QED BY <1>3, <2>1, <2>2, <2>3
<1>7. /\ q.pc \in {"consume", "revoke", "forget"} => q.pair \in held'
      /\ q.pc = "forget" => q.pair \in Refused'
  BY <1>1, <1>2, <1>3, <1>4 DEF ReqSound
<1>8. q.pc \in {"read", "sweep", "drop", "undate"} => q.known \subseteq Owned(q.user)'
  BY <1>1, <1>2, <1>3, <1>4 DEF ReqSound, Owned
<1>9. q.pc \in {"sweep", "drop", "undate"} =>
         \A p \in q.known \ orphans' : Accepted(p)' => p \in q.todo
  BY <1>1, <1>2, <1>3, <1>4 DEF ReqSound, Owned
<1>10. \A p \in q.todo : Minted(p)'
  BY <1>1, <1>3 DEF ReqSound
<1>11. /\ q.pc \in ForUser => q.user \in Users
       /\ q.pc = "rank" => q.count >= MaxSessions
       /\ q.pc \in {"evict", "unlist"} => q.queue # << >>
       /\ q.pc \in {"drop", "undate"} => q.todo = {}
  BY <1>1 DEF ReqSound
<1>12. QED
  BY <1>5, <1>6, <1>7, <1>8, <1>9, <1>10, <1>11 DEF ReqSound

(* A request that is over relies on nothing.                                 *)
LEMMA IdleSound ==
  ASSUME NEW r \in Requests, req'[r] = Idle
  PROVE  ReqSound(r)'
BY DEF ReqSound, Idle, ForUser, Steps, Minting

(* What the requests begin with.                                             *)
LEMMA BeginSound ==
  ASSUME IInv, NEW r \in Requests, Begin(r)
  PROVE  ReqSound(r)'
<1> USE DEF IInv
<1>1. \A p \in held : p \in Pairs /\ owner[p] \in Users
  BY DEF StoreSound, Minted, Typed
<1>2. ASSUME NEW u \in Users, Login(r, u) PROVE ReqSound(r)'
  <2>1. req'[r] = [Idle EXCEPT !.pc = "count", !.user = u]
    BY <1>2 DEF Login, Typed
  <2>2. req'[r].pc = "count" /\ req'[r].user = u /\ req'[r].todo = {}
    BY <2>1 DEF Idle
  <2>3. QED BY <2>2 DEF ReqSound, Minting
<1>3. ASSUME NEW p \in Pairs, RefreshToken(r, p) PROVE ReqSound(r)'
  <2>1. req'[r] = [Idle EXCEPT !.pc = "consume", !.user = owner[p], !.pair = p]
    BY <1>3 DEF RefreshToken, Typed
  <2>2. /\ req'[r].pc = "consume" /\ req'[r].user = owner[p] /\ req'[r].pair = p
        /\ req'[r].todo = {}
    BY <2>1 DEF Idle
  <2>3. p \in held' /\ owner[p] \in Users
    BY <1>1, <1>3 DEF RefreshToken, tokens
  <2>4. QED BY <2>2, <2>3 DEF ReqSound, Minting
<1>4. ASSUME NEW p \in Pairs, p \in held, held' = held, NEW u,
             req'[r] = [Idle EXCEPT !.pc = "revoke", !.user = u, !.pair = p]
      PROVE  ReqSound(r)'
  <2>1. req'[r].pc = "revoke" /\ req'[r].pair = p /\ req'[r].todo = {}
    BY <1>4 DEF Idle
  <2>2. QED BY <1>4, <2>1 DEF ReqSound, ForUser, Minting
<1>5. ASSUME NEW p \in Pairs, NEW withRefresh \in BOOLEAN, Logout(r, p, withRefresh)
      PROVE  ReqSound(r)'
  BY <1>4, <1>5 DEF Logout, Typed
<1>6. ASSUME NEW p \in Pairs, NEW actor \in Users \cup {Nobody}, RevokeSession(r, actor, p)
      PROVE  ReqSound(r)'
  BY <1>4, <1>6 DEF RevokeSession, tokens, Typed
<1>7. ASSUME NEW p \in Pairs, ChangePassword(r, p) PROVE ReqSound(r)'
  <2>1. req'[r] = [Idle EXCEPT !.pc = "read", !.user = owner[p], !.known = Owned(owner[p])]
    BY <1>7 DEF ChangePassword, Typed
  <2>2. /\ req'[r].pc = "read" /\ req'[r].user = owner[p] /\ req'[r].todo = {}
        /\ req'[r].known = Owned(owner[p])
    BY <2>1 DEF Idle
  <2>3. owner[p] \in Users
    BY <1>1, <1>7 DEF ChangePassword, SignedIn, Owned
  <2>4. Owned(req[r].user)' = {x \in held : owner[x] = req'[r].user}
    BY <1>7 DEF ChangePassword, tokens, Owned
  <2>5. QED BY <2>2, <2>3, <2>4 DEF ReqSound, Owned, Minting
<1>8. QED BY <1>2, <1>3, <1>5, <1>6, <1>7 DEF Begin

(* The oldest of the list are taken in its order.                            *)
LEMMA RankSound ==
  ASSUME IInv, NEW r \in Requests, RankSessions(r)
  PROVE  ReqSound(r)'
<1> USE DEF IInv
<1> DEFINE all == detail[req[r].user].of
           excess == req[r].count - MaxSessions + 1
           n == IF excess < Len(all) THEN excess ELSE Len(all)
           old == SubSeq(all, 1, n)
<1>1. req[r].user \in Users /\ req[r].count >= MaxSessions /\ \A p \in req[r].todo : Minted(p)
  BY DEF RankSessions, At, ReqSound, ForUser, Steps
<1>2. all \in Seq(Pairs) /\ Len(all) \in Nat /\ DOMAIN all = 1 .. Len(all)
  BY <1>1 DEF Typed
<1>3. n \in Nat /\ n =< Len(all)
  <2>1. excess \in Nat
    BY <1>1, ReqFields, AuthAssumption
  <2>2. QED BY <1>2, <2>1
<1>4. DOMAIN old = 1 .. n /\ \A k \in 1 .. n : old[k] = all[k]
  BY <1>2, <1>3, PrefixTaken
<1>5. /\ \A i \in 1 .. Len(all) : all[i] \in Dated
      /\ \A i, j \in 1 .. Len(all) : all[i] = all[j] => i = j
  BY <1>1, <1>2 DEF StoreSound
<1>6. /\ req'[r].pc = (IF old = << >> THEN "mint" ELSE "evict")
      /\ req'[r].queue = old /\ req'[r].user = req[r].user /\ req'[r].todo = req[r].todo
      /\ UNCHANGED <<owner, held, detail>>
  BY DEF RankSessions, tokens, store, Typed, ReqRecord
<1> HIDE DEF all, n, old
<1>7. \A k \in 1 .. n : old[k] \in Dated'
  BY <1>2, <1>3, <1>4, <1>5, NextMonotone DEF Next, Continue, Monotone
<1>8. \A k \in 1 .. n : \A i, j \in 1 .. Len(all) :
         i < j /\ all[j] = old[k] => \E m \in 1 .. k - 1 : old[m] = all[i]
  <2> TAKE k \in 1 .. n
  <2> TAKE i, j \in 1 .. Len(all)
  <2>1. HAVE i < j /\ all[j] = old[k]
  <2>2. j = k
    BY <1>2, <1>3, <1>4, <1>5, <2>1
  <2>3. i \in 1 .. k - 1 /\ old[i] = all[i]
    BY <1>2, <1>3, <1>4, <2>1, <2>2
  <2>4. QED BY <2>3
<1>9. InOrder(req[r].queue, detail[req[r].user].of)'
  <2>1. detail'[req'[r].user].of = all
    BY <1>6 DEF all
  <2>2. QED BY <1>2, <1>4, <1>6, <1>8, <2>1 DEF InOrder
<1>10. QED BY <1>1, <1>4, <1>6, <1>7, <1>9 DEF ReqSound, Minted, Minting

(* The head of the queue is refused before the next is looked at.            *)
LEMMA EvictSound ==
  ASSUME IInv, NEW r \in Requests, MarkOldest(r) \/ UnlistOldest(r)
  PROVE  ReqSound(r)'
<1> USE DEF IInv
<1> DEFINE queue == req[r].queue
           u == req[r].user
<1>1. /\ queue # << >> /\ queue \in Seq(Pairs) /\ u \in Users
      /\ \A k \in DOMAIN queue : queue[k] \in Dated
      /\ InOrder(queue, detail[u].of)
      /\ \A p \in req[r].todo : Minted(p)
  BY ReqFields DEF MarkOldest, UnlistOldest, At, ReqSound, ForUser, Steps
<1>2. Monotone
  BY NextMonotone DEF Next, Continue
<1>3. \A p \in req[r].todo : Minted(p)'
  BY <1>1, <1>2, ReqFields DEF Monotone, Minted
<1>4. ASSUME NEW w \in Users, NEW s \in Seq(Pairs), s = queue, w = u
      PROVE  InOrder(s, detail[w].of)'
  BY <1>1, <1>2, <1>4, OrderKept
<1>5. detail' = detail /\ Dated \subseteq Dated'
  BY <1>2 DEF MarkOldest, UnlistOldest, Monotone
<1>6. CASE MarkOldest(r)
  <2>1. /\ req'[r].pc = "unlist" /\ req'[r].queue = queue /\ req'[r].user = u
        /\ req'[r].todo = req[r].todo
    BY <1>6 DEF MarkOldest, Goes, Typed, ReqRecord
  <2>2. queue[1] \in Refused'
    <3>1. queue[1] \in Pairs /\ Head(queue) = queue[1]
      BY <1>1
    <3>2. \A p \in Pairs : p = queue[1] => p \in Refused'
      BY <1>6, <3>1, AuthAssumption
         DEF MarkOldest, SetWithTtl, Marked, Gone, Typed, Refused, Accepted
    <3>3. QED BY <3>1, <3>2
  <2>3. InOrder(req[r].queue, detail[req[r].user].of)'
    BY <1>1, <1>4, <2>1
  <2> HIDE DEF queue, u
  <2>4. QED BY <1>1, <1>3, <1>5, <2>1, <2>2, <2>3 DEF ReqSound, Minting
<1>7. CASE UnlistOldest(r)
  <2> DEFINE rest == Tail(queue)
  <2>1. /\ req'[r].pc = (IF rest = << >> THEN "mint" ELSE "evict") /\ req'[r].queue = rest
        /\ req'[r].user = u /\ req'[r].todo = req[r].todo
    BY <1>7 DEF UnlistOldest, Typed, ReqRecord
  <2>2. queue[1] \in Refused'
    <3>1. queue[1] \in Refused /\ queue[1] \in Dated
      BY <1>1, <1>7 DEF UnlistOldest, At, ReqSound
    <3>2. \A p \in Dated : p \in Refused => p \in Refused'
      BY <1>2 DEF Dated, Monotone, Refused
    <3>3. QED BY <3>1, <3>2
  <2>3. /\ Len(queue) \in Nat /\ DOMAIN queue = 1 .. Len(queue)
        /\ DOMAIN rest = 1 .. Len(queue) - 1
        /\ \A k \in 1 .. Len(queue) - 1 : rest[k] = queue[k + 1]
    BY <1>1, HeadTailProperties
  <2>4. \A k \in DOMAIN rest : rest[k] \in Dated
    BY <1>1, <2>3
  <2>5. InOrder(req[r].queue, detail[req[r].user].of)'
    <3> DEFINE line == detail'[u].of
    <3>1. ASSUME NEW w \in Users, NEW s \in Seq(Pairs), s = queue, w = u
          PROVE  \A k \in DOMAIN s : \A i, j \in DOMAIN detail'[w].of :
                    i < j /\ detail'[w].of[j] = s[k] =>
                       \/ detail'[w].of[i] \in Refused'
                       \/ \E m \in 1 .. k - 1 : s[m] = detail'[w].of[i]
      BY <1>4, <3>1 DEF InOrder
    <3>2. \A k \in DOMAIN queue : \A i, j \in DOMAIN line :
             i < j /\ line[j] = queue[k] =>
                line[i] \in Refused' \/ \E m \in 1 .. k - 1 : queue[m] = line[i]
      BY <1>1, <3>1
    <3> HIDE DEF line, rest, queue, u
    <3>3. ASSUME NEW k \in DOMAIN rest, NEW i \in DOMAIN line, NEW j \in DOMAIN line,
                 i < j, line[j] = rest[k]
          PROVE  line[i] \in Refused' \/ \E m \in 1 .. k - 1 : rest[m] = line[i]
      <4>1. k + 1 \in DOMAIN queue /\ line[j] = queue[k + 1] /\ k \in Nat
        BY <2>3, <3>3
      <4>2. line[i] \in Refused' \/ \E m \in 1 .. k + 1 - 1 : queue[m] = line[i]
        BY <3>2, <3>3, <4>1
      <4>3. ASSUME NEW m \in 1 .. k + 1 - 1, queue[m] = line[i]
            PROVE  line[i] \in Refused' \/ \E x \in 1 .. k - 1 : rest[x] = line[i]
        <5>1. CASE m = 1
          BY <2>2, <4>3, <5>1
        <5>2. CASE m # 1
          <6>1. m - 1 \in 1 .. k - 1 /\ rest[m - 1] = queue[m]
            BY <2>3, <3>3, <4>1, <5>2
          <6>2. QED BY <4>3, <6>1
        <5>3. QED BY <5>1, <5>2
      <4>4. QED BY <4>2, <4>3
    <3>4. detail'[req'[r].user].of = line
      BY <2>1 DEF line
    <3>5. QED BY <2>1, <3>3, <3>4 DEF InOrder
  <2> HIDE DEF queue, rest, u
  <2>6. QED BY <1>1, <1>3, <1>5, <2>1, <2>4, <2>5 DEF ReqSound, Minting
<1>8. QED BY <1>6, <1>7

(* The limit is looked at with the size of the list.                         *)
LEMMA CountSound ==
  ASSUME IInv, NEW r \in Requests, CountSessions(r)
  PROVE  ReqSound(r)'
<1> USE DEF IInv
<1> DEFINE n == Cardinality(sessions[req[r].user].of)
<1>1. req[r].user \in Users /\ \A p \in req[r].todo : Minted(p)
  BY DEF CountSessions, At, ReqSound, ForUser, Steps
<1>2. n \in Nat
  BY <1>1, ListSound, FS_CardinalityType
<1>3. /\ req'[r].pc = (IF n < MaxSessions THEN "mint" ELSE "rank") /\ req'[r].count = n
      /\ req'[r].user = req[r].user /\ req'[r].todo = req[r].todo /\ owner' = owner
  BY DEF CountSessions, tokens, Typed, ReqRecord
<1> HIDE DEF n
<1>4. QED BY <1>1, <1>2, <1>3, AuthAssumption DEF ReqSound, Minted, Minting

(* A fresh pair is nobody's yet, and the user's from now on.                 *)
LEMMA MintSound ==
  ASSUME IInv, NEW r \in Requests, NEW p \in Pairs, Mint(r, p)
  PROVE  ReqSound(r)'
<1> USE DEF IInv
<1>1. req[r].user \in Users /\ \A x \in req[r].todo : Minted(x)
  BY DEF Mint, At, ReqSound, ForUser, Steps
<1>2. /\ req'[r].pc = "keep" /\ req'[r].pair = p
      /\ req'[r].user = req[r].user /\ req'[r].todo = req[r].todo
  BY DEF Mint, Typed, ReqRecord
<1>3. p \notin held' /\ owner'[p] = req[r].user
  BY DEF Mint, Fresh, StoreSound, Minted, Typed
<1>4. \A x \in req[r].todo : Minted(x)'
  BY <1>1, MintMonotone, ReqFields DEF Monotone, Minted
<1>5. QED BY <1>1, <1>2, <1>3, <1>4 DEF ReqSound, Minting

(* The refresh token that was read was somebody's.                           *)
LEMMA ConsumeSound ==
  ASSUME IInv, NEW r \in Requests, ConsumeToken(r)
  PROVE  ReqSound(r)'
<1> USE DEF IInv
<1>1. req[r].user \in Users /\ \A p \in req[r].todo : Minted(p)
  BY DEF ConsumeToken, At, ReqSound, ForUser, Steps
<1>2. /\ req'[r].pc = "count" /\ req'[r].user = req[r].user /\ req'[r].todo = req[r].todo
      /\ owner' = owner
  BY DEF ConsumeToken, Typed, ReqRecord
<1>3. QED BY <1>1, <1>2 DEF ReqSound, Minted, Minting

(* A pair with a mark is refused.                                            *)
LEMMA MarkSound ==
  ASSUME IInv, NEW r \in Requests, MarkRevoked(r)
  PROVE  ReqSound(r)'
<1> USE DEF IInv
<1>1. req[r].pair \in held /\ req[r].pair \in Pairs /\ \A p \in req[r].todo : Minted(p)
  BY DEF MarkRevoked, At, ReqSound, Typed
<1>2. /\ req'[r].pc = "forget" /\ req'[r].pair = req[r].pair /\ req'[r].todo = req[r].todo
      /\ UNCHANGED tokens
  BY DEF MarkRevoked, Goes, Typed, ReqRecord
<1>3. \A p \in Pairs : p = req[r].pair => p \in Refused'
  BY <1>1, AuthAssumption DEF MarkRevoked, SetWithTtl, Marked, Gone, Typed, Refused, Accepted
<1>4. QED BY <1>1, <1>2, <1>3 DEF ReqSound, ForUser, Minted, Minting, tokens

(* What was accepted when the change began and still is, is in the list.     *)
LEMMA ReadSound ==
  ASSUME IInv, NEW r \in Requests, ReadSessions(r)
  PROVE  ReqSound(r)'
<1> USE DEF IInv
<1> DEFINE all == sessions[req[r].user].of
<1>1. req[r].user \in Users /\ req[r].known \subseteq Owned(req[r].user)
  BY DEF ReadSessions, At, ReqSound, ForUser, Steps
<1>2. /\ req'[r].pc = (IF all = {} THEN "drop" ELSE "sweep") /\ req'[r].todo = all
      /\ req'[r].user = req[r].user /\ req'[r].known = req[r].known
      /\ UNCHANGED <<tokens, store, orphans>>
  BY DEF ReadSessions, Typed, ReqRecord
<1>3. \A p \in all : Minted(p)
  BY <1>1, ListSound
<1>4. \A p \in req[r].known \ orphans : Accepted(p) => p \in all
  BY <1>1 DEF Listed, StoreSound, Owned, Typed
<1>5. \A p \in Pairs : Accepted(p)' = Accepted(p)
  BY <1>2 DEF Accepted, tokens, store
<1>6. req[r].known \in SUBSET Pairs
  BY ReqFields
<1> HIDE DEF all
<1>7. QED BY <1>1, <1>2, <1>3, <1>4, <1>5, <1>6 DEF ReqSound, Owned, Minted, Minting, tokens, ForUser

(* A pair leaves the work to do when it is refused.                          *)
LEMMA SweepSound ==
  ASSUME IInv, NEW r \in Requests, NEW p \in Pairs, SweepSession(r, p)
  PROVE  ReqSound(r)'
<1> USE DEF IInv
<1>1. /\ req[r].user \in Users /\ req[r].known \subseteq Owned(req[r].user)
      /\ \A x \in req[r].known \ orphans : Accepted(x) => x \in req[r].todo
      /\ \A x \in req[r].todo : Minted(x)
  BY DEF SweepSession, At, ReqSound, ForUser, Steps
<1>2. /\ req'[r].pc = (IF req[r].todo = {p} THEN "drop" ELSE "sweep")
      /\ req'[r].todo = req[r].todo \ {p}
      /\ req'[r].user = req[r].user /\ req'[r].known = req[r].known
      /\ UNCHANGED <<tokens, orphans>>
  BY DEF SweepSession, Typed, ReqRecord
<1>3. ~Accepted(p)'
  BY AuthAssumption DEF SweepSession, SetWithTtl, Accepted, Marked, Gone, Typed
<1>4. \A x \in Pairs : ~Accepted(x) => ~Accepted(x)'
  BY MarksRefuse DEF SweepSession, tokens
<1>5. req[r].known \in SUBSET Pairs
  BY ReqFields
<1>6. \A x \in req[r].known \ orphans : Accepted(x)' => x \in req[r].todo \ {p}
  BY <1>1, <1>3, <1>4, <1>5
<1>7. QED BY <1>1, <1>2, <1>5, <1>6 DEF ReqSound, Owned, Minted, Minting, tokens, ForUser

(* The work was done before the list goes.                                   *)
LEMMA DropSound ==
  ASSUME IInv, NEW r \in Requests, DropSessions(r)
  PROVE  ReqSound(r)'
<1> USE DEF IInv
<1>1. /\ req[r].user \in Users /\ req[r].known \subseteq Owned(req[r].user)
      /\ \A p \in req[r].known \ orphans : Accepted(p) => p \in req[r].todo
      /\ req[r].todo = {} /\ req[r].known \in SUBSET Pairs
  BY ReqFields DEF DropSessions, At, ReqSound, ForUser, Steps
<1>2. /\ req'[r].pc = "undate" /\ req'[r].todo = req[r].todo
      /\ req'[r].user = req[r].user /\ req'[r].known = req[r].known
      /\ UNCHANGED <<tokens, revoked>> /\ orphans \subseteq orphans'
  BY DEF DropSessions, Goes, Typed, ReqRecord
<1>3. \A p \in Pairs : Accepted(p)' = Accepted(p)
  BY <1>2 DEF Accepted, tokens
<1>4. QED BY <1>1, <1>2, <1>3 DEF ReqSound, Owned, Minting, tokens, ForUser

(* A pair on its way to be handed out is still nobody's but the request's.   *)
LEMMA OnSound ==
  ASSUME IInv, NEW r \in Requests, KeepSessions(r) \/ DatePair(r) \/ KeepDates(r)
  PROVE  ReqSound(r)'
<1> USE DEF IInv
<1>1. /\ req[r].user \in Users /\ req[r].pair \in Pairs \ held /\ owner[req[r].pair] = req[r].user
      /\ \A p \in req[r].todo : Minted(p)
  BY DEF KeepSessions, DatePair, KeepDates, At, ReqSound, ForUser, Steps, Minting
<1>2. /\ req'[r].pc \in {"date", "redate", "return"} /\ req'[r].pair = req[r].pair
      /\ req'[r].user = req[r].user /\ req'[r].todo = req[r].todo
  BY ReqFields DEF KeepSessions, DatePair, KeepDates, Goes, Typed, ReqRecord
<1>3. UNCHANGED <<owner, held>>
  BY DEF KeepSessions, DatePair, KeepDates, tokens
<1>4. QED BY <1>1, <1>2, <1>3 DEF ReqSound, Minted, Minting

(* Whoever steps relies on what is sound afterwards.                         *)
LEMMA ActorSound ==
  ASSUME IInv, NEW r \in Requests, Begin(r) \/ Continue(r)
  PROVE  ReqSound(r)'
<1>1. CASE Begin(r)
  BY <1>1, BeginSound
<1>2. CASE ReturnPair(r) \/ Forget(r) \/ DropDetail(r)
  BY <1>2, IdleSound DEF ReturnPair, Forget, DropDetail, Ends, IInv, Typed
<1>3. QED
  BY <1>1, <1>2, CountSound, RankSound, EvictSound, MintSound, OnSound, ConsumeSound, MarkSound,
     ReadSound, SweepSound, DropSound DEF Continue

(* What the requests rely on stays.                                          *)
LEMMA NextReqs ==
  ASSUME IInv, Next
  PROVE  \A s \in Requests : ReqSound(s)'
<1> USE DEF IInv
<1>1. Monotone
  BY NextMonotone
<1>2. ASSUME NEW r \in Requests, Begin(r) \/ Continue(r), NEW s \in Requests
      PROVE  ReqSound(s)'
  <2>1. CASE s = r
    BY <1>2, <2>1, ActorSound
  <2>2. CASE s # r
    <3>1. req'[s] = req[s]
      BY <1>2, <2>2, StepKeepsOthers
    <3>2. held' = held \/ (ReturnPair(r) /\ held' = held \cup {req[r].pair})
      BY <1>2, Places, Elsewhere DEF Continue
    <3>3. req[s].pc \in Minting => req[s].pair \notin held
      BY DEF ReqSound
    <3>4. req[s].pc \in Minting /\ ReturnPair(r) => req[s].pair # req[r].pair
      BY <2>2 DEF ReturnPair, At, PairsApart, Minting
    <3>5. req[s].pc \in Minting => req[s].pair \notin held'
      BY <3>2, <3>3, <3>4
    <3>6. QED BY <1>1, <3>1, <3>5, OthersKeep
  <2>3. QED BY <2>1, <2>2
<1>3. ASSUME Tick, NEW s \in Requests PROVE ReqSound(s)'
  <2>1. req'[s] = req[s] /\ held' = held
    BY <1>3 DEF Tick
  <2>2. req[s].pc \in Minting => req[s].pair \notin held'
    BY <2>1 DEF ReqSound
  <2>3. QED BY <1>1, <2>1, <2>2, OthersKeep
<1>4. QED BY <1>2, <1>3 DEF Next

LEMMA NextApart ==
  ASSUME IInv, Next
  PROVE  PairsApart'
<1> USE DEF IInv
<1>1. ASSUME NEW r \in Requests, Begin(r) \/ Continue(r)
      PROVE  PairsApart'
  <2>1. ASSUME NEW s \in Requests \ {r}, req'[r].pc \in Minting, req'[s].pc \in Minting,
               req'[r].pair = req'[s].pair
        PROVE  FALSE
    <3>1. req'[s] = req[s]
      BY <1>1, StepKeepsOthers
    <3>2. owner[req[s].pair] \in Users
      BY <2>1, <3>1 DEF ReqSound, ForUser, Steps, Minting
    <3>3. CASE \E p \in Pairs : Mint(r, p) /\ req'[r].pair = p
      BY <2>1, <3>1, <3>2, <3>3, AuthAssumption DEF Mint, Fresh
    <3>4. CASE req[r].pc \in Minting /\ req'[r].pair = req[r].pair
      BY <2>1, <3>1, <3>4 DEF PairsApart
    <3>5. QED BY <1>1, <2>1, <3>3, <3>4, MintingGoes
  <2>2. \A s, t \in Requests \ {r} : req'[s] = req[s] /\ req'[t] = req[t]
    BY <1>1, StepKeepsOthers
  <2>3. QED BY <2>1, <2>2 DEF PairsApart
<1>2. CASE Tick
  BY <1>2 DEF Tick, PairsApart
<1>3. QED BY <1>1, <1>2 DEF Next

(* Time makes no list last for ever.                                         *)
LEMMA AgedExpires ==
  ASSUME NEW S, NEW c \in [of : S, left : Left(Life + Slack)], NEW empty,
         c.left # Forever, empty.left # Forever
  PROVE  AgedOr(c, empty).left # Forever
<1>1. c.left \in Nat
  BY Ages
<1>2. CASE c.left =< 1
  BY <1>2, Ages
<1>3. CASE ~(c.left =< 1)
  <2>1. AgedOr(c, empty) = [of |-> c.of, left |-> c.left - 1]
    BY <1>3, Ages
  <2>2. QED BY <1>1, <1>3, <2>1 DEF Forever
<1>4. QED BY <1>2, <1>3

(* A list that has just begun is about to get its expiry.                    *)
LEMMA NextExpiring ==
  ASSUME IInv, Next
  PROVE  Expiring'
<1> USE DEF IInv
<1> DEFINE Set(u) == sessions'[u].left = Forever =>
                        \E s \in Requests : At(s, "keep")' /\ req'[s].user = u
           ZSet(u) == detail'[u].left = Forever =>
                        \E s \in Requests : At(s, "redate")' /\ req'[s].user = u
<1>1. ASSUME NEW u \in Users, NEW r \in Requests, Begin(r) \/ Continue(r)
      PROVE  /\ ~At(r, "keep") /\ sessions'[u].left = Forever /\ sessions[u].left = Forever => Set(u)
             /\ ~At(r, "redate") /\ detail'[u].left = Forever /\ detail[u].left = Forever => ZSet(u)
  <2>1. \A s \in Requests \ {r} : req'[s] = req[s]
    BY <1>1, StepKeepsOthers
  <2>2. ~At(r, "keep") /\ sessions'[u].left = Forever /\ sessions[u].left = Forever => Set(u)
    BY <2>1 DEF Expiring, At
  <2>3. ~At(r, "redate") /\ detail'[u].left = Forever /\ detail[u].left = Forever => ZSet(u)
    BY <2>1 DEF Expiring, At
  <2>4. QED BY <2>2, <2>3
<1>2. ASSUME NEW u \in Users, NEW r \in Requests, Begin(r) PROVE Set(u) /\ ZSet(u)
  <2>1. sessions' = sessions /\ detail' = detail /\ At(r, "idle")
    BY <1>2 DEF Begin, Login, RefreshToken, Logout, ChangePassword, RevokeSession, tokens, store, At
  <2>2. QED BY <1>1, <1>2, <2>1 DEF At
<1>3. ASSUME NEW u \in Users, NEW r \in Requests,
             \/ CountSessions(r) \/ RankSessions(r) \/ MarkOldest(r) \/ ConsumeToken(r)
             \/ ReturnPair(r) \/ MarkRevoked(r) \/ ReadSessions(r)
             \/ (\E p \in Pairs : SweepSession(r, p))
      PROVE  Set(u) /\ ZSet(u)
  <2>1. sessions' = sessions /\ detail' = detail
    BY <1>3 DEF CountSessions, RankSessions, MarkOldest, ConsumeToken, ReturnPair, MarkRevoked,
                ReadSessions, SweepSession, tokens, store
  <2>2. ~At(r, "keep") /\ ~At(r, "redate")
    BY <1>3 DEF CountSessions, RankSessions, MarkOldest, ConsumeToken, ReturnPair, MarkRevoked,
                ReadSessions, SweepSession, At
  <2>3. Continue(r)
    BY <1>3 DEF Continue
  <2>4. QED BY <1>1, <2>1, <2>2, <2>3
<1>4. ASSUME NEW u \in Users, NEW r \in Requests, UnlistOldest(r) \/ Forget(r) PROVE Set(u) /\ ZSet(u)
  <2>1. sessions'[u] = sessions[u] \/ \E p : sessions'[u] = SetRemove(sessions[u], p)
    BY <1>4 DEF UnlistOldest, Forget, Typed
  <2>2. sessions'[u].left = Forever => sessions[u].left = Forever
    BY <2>1, ListSound, SetRemoves DEF EmptySet, Gone, Forever
  <2>3. detail' = detail /\ ~At(r, "keep") /\ ~At(r, "redate")
    BY <1>4 DEF UnlistOldest, Forget, At
  <2>4. QED BY <1>1, <1>4, <2>2, <2>3 DEF Continue
<1>5. ASSUME NEW u \in Users, NEW r \in Requests, DropSessions(r) \/ DropDetail(r)
      PROVE  Set(u) /\ ZSet(u)
  <2>1. /\ sessions'[u] = sessions[u] \/ sessions'[u].left # Forever
        /\ detail'[u] = detail[u] \/ detail'[u].left # Forever
    BY <1>5 DEF DropSessions, DropDetail, EmptySet, EmptyZSet, Gone, Forever, Typed
  <2>2. ~At(r, "keep") /\ ~At(r, "redate")
    BY <1>5 DEF DropSessions, DropDetail, At
  <2>3. QED BY <1>1, <1>5, <2>1, <2>2 DEF Continue
<1>6. ASSUME NEW u \in Users, NEW r \in Requests, NEW p \in Pairs, Mint(r, p)
      PROVE  Set(u) /\ ZSet(u)
  <2>1. detail' = detail /\ ~At(r, "keep") /\ ~At(r, "redate")
    BY <1>6 DEF Mint, At
  <2>2. CASE u = req[r].user
    <3>1. At(r, "keep")' /\ req'[r].user = u
      BY <1>6, <2>2, ReqFields DEF Mint, At, Typed, ReqRecord
    <3>2. QED BY <1>1, <1>6, <2>1, <3>1 DEF Continue
  <2>3. CASE u # req[r].user
    <3>1. sessions'[u] = sessions[u]
      BY <1>6, <2>3 DEF Mint
    <3>2. QED BY <1>1, <1>6, <2>1, <3>1 DEF Continue
  <2>4. QED BY <2>2, <2>3
<1>7. ASSUME NEW u \in Users, NEW r \in Requests, KeepSessions(r) PROVE Set(u) /\ ZSet(u)
  <2>1. detail' = detail /\ ~At(r, "redate") /\ req[r].user \in Users
    BY <1>7 DEF KeepSessions, At, ReqSound, ForUser, Steps
  <2>2. CASE u = req[r].user
    <3>1. Expire(sessions[u], Life + Slack).left # Forever
      <4>1. Expire(sessions[u], Life + Slack).left = IF sessions[u].left = Gone THEN Gone ELSE Life + Slack
        BY ListSound, Renewed
      <4>2. QED BY <4>1, AuthAssumption DEF Gone, Forever
    <3>2. sessions'[u] = Expire(sessions[u], Life + Slack)
      BY <1>7, <2>2 DEF KeepSessions, Typed
    <3>3. QED BY <1>1, <1>7, <2>1, <3>1, <3>2 DEF Continue
  <2>3. CASE u # req[r].user
    <3>1. sessions'[u] = sessions[u]
      BY <1>7, <2>3 DEF KeepSessions
    <3>2. \A s \in Requests : At(s, "keep") /\ req[s].user = u => At(s, "keep")' /\ req'[s].user = u
      BY <1>7, <2>3, StepKeepsOthers DEF Continue, At
    <3>3. QED BY <1>1, <1>7, <2>1, <3>1, <3>2 DEF Continue, Expiring
  <2>4. QED BY <2>2, <2>3
<1>8. ASSUME NEW u \in Users, NEW r \in Requests, DatePair(r) PROVE Set(u) /\ ZSet(u)
  <2>1. sessions' = sessions /\ ~At(r, "keep") /\ ~At(r, "redate")
    BY <1>8 DEF DatePair, At
  <2>2. CASE u = req[r].user
    <3>1. At(r, "redate")' /\ req'[r].user = u
      BY <1>8, <2>2, ReqFields DEF DatePair, Goes, At, Typed, ReqRecord
    <3>2. QED BY <1>1, <1>8, <2>1, <3>1 DEF Continue
  <2>3. CASE u # req[r].user
    <3>1. detail'[u] = detail[u]
      BY <1>8, <2>3 DEF DatePair
    <3>2. QED BY <1>1, <1>8, <2>1, <3>1 DEF Continue
  <2>4. QED BY <2>2, <2>3
<1>9. ASSUME NEW u \in Users, NEW r \in Requests, KeepDates(r) PROVE Set(u) /\ ZSet(u)
  <2>1. sessions' = sessions /\ ~At(r, "keep") /\ req[r].user \in Users
    BY <1>9 DEF KeepDates, At, ReqSound, ForUser, Steps
  <2>2. CASE u = req[r].user
    <3>1. Expire(detail[u], Life + Slack).left # Forever
      <4>1. detail[u] \in [of : Seq(Pairs), left : Left(Life + Slack)]
        BY DEF Typed
      <4>2. Expire(detail[u], Life + Slack).left = IF detail[u].left = Gone THEN Gone ELSE Life + Slack
        BY <4>1, Renewed
      <4>3. QED BY <4>2, AuthAssumption DEF Gone, Forever
    <3>2. detail'[u] = Expire(detail[u], Life + Slack)
      BY <1>9, <2>2 DEF KeepDates, Typed
    <3>3. QED BY <1>1, <1>9, <2>1, <3>1, <3>2 DEF Continue
  <2>3. CASE u # req[r].user
    <3>1. detail'[u] = detail[u]
      BY <1>9, <2>3 DEF KeepDates
    <3>2. \A s \in Requests : At(s, "redate") /\ req[s].user = u => At(s, "redate")' /\ req'[s].user = u
      BY <1>9, <2>3, StepKeepsOthers DEF Continue, At
    <3>3. QED BY <1>1, <1>9, <2>1, <3>1, <3>2 DEF Continue, Expiring
  <2>4. QED BY <2>2, <2>3
<1>10. ASSUME NEW u \in Users, Tick PROVE Set(u) /\ ZSet(u)
  <2>1. sessions'[u] = AgedOr(sessions[u], EmptySet) /\ detail'[u] = AgedOr(detail[u], EmptyZSet)
    BY <1>10 DEF Tick
  <2>2. sessions[u].left # Forever => sessions'[u].left # Forever
    <3>1. sessions[u] \in [of : SUBSET Pairs, left : Left(Life + Slack)]
      BY DEF Typed
    <3>2. EmptySet.left # Forever
      BY DEF EmptySet, Gone, Forever
    <3>3. QED BY <2>1, <3>1, <3>2, AgedExpires
  <2>3. detail[u].left # Forever => detail'[u].left # Forever
    <3>1. detail[u] \in [of : Seq(Pairs), left : Left(Life + Slack)]
      BY DEF Typed
    <3>2. EmptyZSet.left # Forever
      BY DEF EmptyZSet, Gone, Forever
    <3>3. QED BY <2>1, <3>1, <3>2, AgedExpires
  <2>4. QED BY <1>10, <2>2, <2>3 DEF Tick, Expiring, At
<1>11. ASSUME NEW u \in Users PROVE Set(u) /\ ZSet(u)
  BY <1>2, <1>3, <1>4, <1>5, <1>6, <1>7, <1>8, <1>9, <1>10 DEF Next, Continue
<1>12. QED BY <1>11 DEF Expiring, At

LEMMA NextIInv == IInv /\ [Next]_vars => IInv'
<1> SUFFICES ASSUME IInv, [Next]_vars PROVE IInv'
  OBVIOUS
<1>1. CASE Next
  <2>1. Typed'
    <3>1. ASSUME NEW r \in Requests, Begin(r) \/ Continue(r) PROVE Typed'
      BY <3>1, BeginTypes, MintingTypes, RevokingTypes DEF Continue
    <3>2. QED BY <1>1, <3>1, TickTypes DEF Next, IInv
  <2>2. QED BY <1>1, <2>1, NextStoreSound, NextListed, NextReqs, NextApart, NextExpiring DEF IInv
<1>2. CASE UNCHANGED vars
  <2>1. Typed'
    BY <1>2 DEF vars, tokens, store, IInv, Typed
  <2>2. StoreSound' /\ Listed' /\ Expiring'
    BY <1>2 DEF vars, tokens, store, IInv, StoreSound, Listed, Expiring, Outlives, Unkept, Dated,
                Minted, Accepted, Marked, At
  <2>3. \A r \in Requests : ReqSound(r)'
    <3>1. Monotone /\ held' = held /\ req' = req
      BY <1>2 DEF vars, tokens, store, Monotone, Accepted, Marked, Dated, Minted
    <3>2. \A r \in Requests : req[r].pc \in Minting => req[r].pair \notin held'
      BY <3>1 DEF IInv, ReqSound
    <3>3. QED BY <3>1, <3>2, OthersKeep
  <2>4. PairsApart'
    BY <1>2 DEF vars, IInv, PairsApart
  <2>5. QED BY <2>1, <2>2, <2>3, <2>4 DEF IInv
<1>3. QED BY <1>1, <1>2

--------------------------------------------------------------------------------
\* The invariant behind the theorems below holds in every behaviour of auth.py's
\* sessions.
THEOREM Invariance == Spec => []IInv
BY InitIInv, NextIInv, PTL DEF Spec

\* Every variable of the sessions keeps its type, in particular what is left of
\* every mark and list (auth.py:104, 146, 164, 172), which none is kept without.
THEOREM TypeCorrect == Spec => []TypeOK
<1>1. IInv => TypeOK
  BY DEF IInv, TypeOK
<1>2. QED BY <1>1, Invariance, PTL

\* A token that somebody holds and that is accepted is among its user's sessions
\* (auth.py:163, 898, 921), but for two ways a list may lose one while its login
\* is under way: a password change drops it unread (auth.py:904), or the list runs
\* out between the entry and the renewal of its expiry (auth.py:163, 164).
THEOREM LiveIsListedHolds == Spec => []LiveIsListed
<1>1. IInv => LiveIsListed
  BY DEF IInv, Typed, StoreSound, Listed, LiveIsListed
<1>2. QED BY <1>1, Invariance, PTL

\* A token once refused is never accepted again: every mark outlasts its token
\* (auth.py:146, 815, 900, 974).
THEOREM RejectedStaysRejectedHolds == Spec => RejectedStaysRejected
<1>1. IInv /\ [Next]_vars => [\A p \in held : ~Accepted(p) => ~Accepted(p)']_vars
  <2> SUFFICES ASSUME IInv, Next
               PROVE  \A p \in held : ~Accepted(p) => ~Accepted(p)'
    OBVIOUS
  <2>1. \A p \in held : p \in Pairs /\ Minted(p)
    BY DEF IInv, StoreSound, Typed
  <2>2. QED BY <2>1, NextMonotone DEF Monotone
<1>2. QED BY <1>1, Invariance, PTL DEF Spec, RejectedStaysRejected

\* When a password change ends, no token held when it began is accepted, whatever
\* ran between its reads and its writes (auth.py:896), but for a token that its
\* list had lost in one of those two ways.
THEOREM ChangeEndsOldSessionsHolds == Spec => ChangeEndsOldSessions
<1> DEFINE Ended == \A r \in Requests : At(r, "undate") /\ req'[r].pc = "idle" =>
                       \A p \in req[r].known \ orphans : ~Accepted(p)
<1>1. IInv /\ [Next]_vars => [Ended]_vars
  BY DEF IInv, ReqSound, At
<1>2. QED BY <1>1, Invariance, PTL DEF Spec, ChangeEndsOldSessions

\* A session revoked for the limit on sessions is the oldest of those that are
\* still accepted (auth.py:143).
THEOREM OldestFirstHolds == Spec => OldestFirst
<1> DEFINE Oldest == \A r \in Requests : At(r, "evict") /\ req'[r].pc = "unlist" =>
                        LET line == detail[req[r].user].of IN
                        \A i, j \in DOMAIN line :
                            i < j /\ line[j] = Head(req[r].queue) => ~Accepted(line[i])
<1>1. IInv /\ [Next]_vars => [Oldest]_vars
  <2> SUFFICES ASSUME IInv, NEW r \in Requests, At(r, "evict"),
                      NEW i \in DOMAIN detail[req[r].user].of, NEW j \in DOMAIN detail[req[r].user].of,
                      i < j, detail[req[r].user].of[j] = Head(req[r].queue)
               PROVE  ~Accepted(detail[req[r].user].of[i])
    OBVIOUS
  <2>1. /\ req[r].queue # << >> /\ req[r].queue \in Seq(Pairs)
        /\ InOrder(req[r].queue, detail[req[r].user].of)
    BY ReqFields DEF IInv, At, ReqSound
  <2>2. 1 \in DOMAIN req[r].queue /\ Head(req[r].queue) = req[r].queue[1]
    BY <2>1
  <2>3. detail[req[r].user].of[i] \in Refused \/ \E m \in 1 .. 1 - 1 : TRUE
    BY <2>1, <2>2 DEF InOrder
  <2>4. QED BY <2>3 DEF Refused
<1>2. QED BY <1>1, Invariance, PTL DEF Spec, OldestFirst
================================================================================
