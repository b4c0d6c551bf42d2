------------------------------ MODULE AuthSessions ------------------------------
(***************************************************************************)
(* The sessions of auth.py: token pairs minted by logins and refreshes,    *)
(* the limit on a user's sessions, logout, password change and revocation  *)
(* of a session, over the separate awaits on the store and the database.   *)
(* A pair is an access token (its jti) and its refresh token.  Whether a   *)
(* password is right belongs to Admission; here a login has succeeded.     *)
(* Expiry is modelled by what is left: access tokens live Life, the         *)
(* collections of a user Life + Slack after the last login.  A refresh     *)
(* token that has run out is one that nobody uses any more.  session_info, *)
(* which only the session list displays, is left out.                      *)
(***************************************************************************)
EXTENDS Store, FiniteSets

CONSTANTS Users, Requests, Pairs,
          Nobody, NoPair,
          MaxSessions,   \* JWT_MAX_SESSIONS
          Life,          \* JWT_EXPIRY_HOURS
          Slack          \* the 300 s a user's collections outlive it

ASSUME AuthAssumption ==
    /\ Nobody \notin Users
    /\ NoPair \notin Pairs
    /\ MaxSessions \in Nat \ {0}
    /\ Life \in Nat \ {0}
    /\ Slack \in Nat

VARIABLES
    owner,     \* pair -> its subject, Nobody before it is minted
    access,    \* pair -> what is left of its access token
    held,      \* pairs whose login or refresh has returned: somebody has them
    refresh,   \* pair -> its row: "none", "live" or "spent"
    revoked,   \* store: revoked:{jti}
    sessions,  \* store: sessions:{user}, a set
    detail,    \* store: sessions_detail:{user}, by age
    req,       \* the requests in progress
    orphans    \* history: pairs that a list lost although nobody took them out

tokens == <<owner, access, held, refresh>>
store == <<revoked, sessions, detail>>
vars == <<tokens, store, req, orphans>>

Idle == [pc |-> "idle", user |-> Nobody, pair |-> NoPair,
         count |-> 0, queue |-> << >>, todo |-> {}, known |-> {}]

Steps == {"idle", "count", "rank", "evict", "unlist", "mint", "keep", "date", "redate",
          "return", "consume", "revoke", "forget", "read", "sweep", "drop", "undate"}

--------------------------------------------------------------------------------
\* decode_token: signature and expiry, then the revocation mark.
Accepted(p) == access[p] > 0 /\ ~Marked(revoked, p)

Fresh == {p \in Pairs : owner[p] = Nobody}
Owned(u) == {p \in held : owner[p] = u}

Init ==
    /\ owner = [p \in Pairs |-> Nobody]
    /\ access = [p \in Pairs |-> 0]
    /\ held = {}
    /\ refresh = [p \in Pairs |-> "none"]
    /\ revoked = [p \in Pairs |-> Gone]
    /\ sessions = [u \in Users |-> EmptySet]
    /\ detail = [u \in Users |-> EmptyZSet]
    /\ req = [r \in Requests |-> Idle]
    /\ orphans = {}

At(r, pc) == req[r].pc = pc
Goes(r, pc) == req' = [req EXCEPT ![r].pc = pc]
Ends(r) == req' = [req EXCEPT ![r] = Idle]

\* get_current_user, with a token in the header or the cookie; an API key makes
\* one a client, who has no sessions.
SignedIn(u, p) == p \in Owned(u) /\ Accepted(p)

--------------------------------------------------------------------------------
(* create_token_pair, for a login whose password was right or a refresh.    *)

Login(r, u) ==
    /\ At(r, "idle")
    /\ req' = [req EXCEPT ![r] = [Idle EXCEPT !.pc = "count", !.user = u]]
    /\ UNCHANGED <<tokens, store, orphans>>

\* How many sessions the user has, the expired ones nobody took out included.
CountSessions(r) ==
    LET n == Cardinality(sessions[req[r].user].of) IN
    /\ At(r, "count")
    /\ req' = [req EXCEPT ![r].pc = IF n < MaxSessions THEN "mint" ELSE "rank",
                          ![r].count = n]
    /\ UNCHANGED <<tokens, store, orphans>>

\* Mutant of RankSessions: the list is read from its other end.
RankNewest(r) ==
    LET all == detail[req[r].user].of
        excess == req[r].count - MaxSessions + 1
        new == SubSeq(all, IF excess < Len(all) THEN Len(all) - excess + 1 ELSE 1, Len(all)) IN
    /\ At(r, "rank")
    /\ req' = [req EXCEPT ![r].pc = IF new = << >> THEN "mint" ELSE "evict",
                          ![r].queue = new]
    /\ UNCHANGED <<tokens, store, orphans>>

\* The oldest of the list that is never pruned are taken for the excess.
RankSessions(r) ==
    LET all == detail[req[r].user].of
        excess == req[r].count - MaxSessions + 1
        old == SubSeq(all, 1, IF excess < Len(all) THEN excess ELSE Len(all)) IN
    /\ At(r, "rank")
    /\ req' = [req EXCEPT ![r].pc = IF old = << >> THEN "mint" ELSE "evict",
                          ![r].queue = old]
    /\ UNCHANGED <<tokens, store, orphans>>

MarkOldest(r) ==
    /\ At(r, "evict")
    /\ revoked' = SetWithTtl(revoked, Head(req[r].queue), Life)
    /\ Goes(r, "unlist")
    /\ UNCHANGED <<tokens, sessions, detail, orphans>>

\* set_remove; the removal from the sorted set is of scores 0 to 0: of nothing.
UnlistOldest(r) ==
    LET rest == Tail(req[r].queue) IN
    /\ At(r, "unlist")
    /\ sessions' = [sessions EXCEPT ![req[r].user] = SetRemove(@, Head(req[r].queue))]
    /\ req' = [req EXCEPT ![r].pc = IF rest = << >> THEN "mint" ELSE "evict",
                          ![r].queue = rest]
    /\ UNCHANGED <<tokens, revoked, detail, orphans>>

\* The access token, and its entry among the user's sessions: a list that is
\* there already keeps the expiry it has.
Mint(r, p) ==
    LET u == req[r].user IN
    /\ At(r, "mint")
    /\ p \in Fresh
    /\ owner' = [owner EXCEPT ![p] = u]
    /\ access' = [access EXCEPT ![p] = Life]
    /\ sessions' = [sessions EXCEPT ![u] = SetAdd(@, p)]
    /\ req' = [req EXCEPT ![r].pc = "keep", ![r].pair = p, ![r].count = 0]
    /\ UNCHANGED <<held, refresh, revoked, detail, orphans>>

\* Mutant of KeepSessions: the list of sessions lives no longer than a token.
KeepWithoutSlack(r) ==
    /\ At(r, "keep")
    /\ sessions' = [sessions EXCEPT ![req[r].user] = Expire(@, Life - 1)]
    /\ Goes(r, "date")
    /\ UNCHANGED <<tokens, revoked, detail, orphans>>

\* The expiry of the list, if the list is still there.
KeepSessions(r) ==
    /\ At(r, "keep")
    /\ sessions' = [sessions EXCEPT ![req[r].user] = Expire(@, Life + Slack)]
    /\ Goes(r, "date")
    /\ UNCHANGED <<tokens, revoked, detail, orphans>>

\* The pair's date, taken as the call is made.
DatePair(r) ==
    /\ At(r, "date")
    /\ detail' = [detail EXCEPT ![req[r].user] = ZAdd(@, req[r].pair)]
    /\ Goes(r, "redate")
    /\ UNCHANGED <<tokens, revoked, sessions, orphans>>

KeepDates(r) ==
    /\ At(r, "redate")
    /\ detail' = [detail EXCEPT ![req[r].user] = Expire(@, Life + Slack)]
    /\ Goes(r, "return")
    /\ UNCHANGED <<tokens, revoked, sessions, orphans>>

\* The row of the refresh token is committed, and the pair handed out.
ReturnPair(r) ==
    /\ At(r, "return")
    /\ refresh' = [refresh EXCEPT ![req[r].pair] = "live"]
    /\ held' = held \cup {req[r].pair}
    /\ Ends(r)
    /\ UNCHANGED <<owner, access, store, orphans>>

--------------------------------------------------------------------------------
(* refresh_token_endpoint: the row is read, then revoked and committed.      *)

RefreshToken(r, p) ==
    /\ At(r, "idle")
    /\ p \in held
    /\ refresh[p] = "live"
    /\ req' = [req EXCEPT ![r] = [Idle EXCEPT !.pc = "consume", !.user = owner[p], !.pair = p]]
    /\ UNCHANGED <<tokens, store, orphans>>

ConsumeToken(r) ==
    /\ At(r, "consume")
    /\ refresh' = [refresh EXCEPT ![req[r].pair] = "spent"]
    /\ req' = [req EXCEPT ![r].pc = "count", ![r].pair = NoPair]
    /\ UNCHANGED <<owner, access, held, store, orphans>>

--------------------------------------------------------------------------------
(* logout needs no valid token and may bring no refresh token.               *)
(* revoke_session, by its owner or by an admin (whose own sessions are not   *)
(* modelled), takes the entry out of the set of whoever asks.                *)

Logout(r, p, withRefresh) ==
    /\ At(r, "idle")
    /\ p \in held
    /\ refresh' = IF withRefresh THEN [refresh EXCEPT ![p] = "spent"] ELSE refresh
    /\ req' = [req EXCEPT ![r] = [Idle EXCEPT !.pc = "revoke", !.user = owner[p], !.pair = p]]
    /\ UNCHANGED <<owner, access, held, store, orphans>>

RevokeSession(r, actor, p) ==
    /\ At(r, "idle")
    /\ p \in held
    /\ \/ actor = owner[p] /\ \E q \in Pairs : SignedIn(actor, q)
       \/ actor = Nobody
    /\ req' = [req EXCEPT ![r] = [Idle EXCEPT !.pc = "revoke", !.user = actor, !.pair = p]]
    /\ UNCHANGED <<tokens, store, orphans>>

\* Mutant of MarkRevoked: the mark is gone before the token.
MarkRevokedBriefly(r) ==
    /\ At(r, "revoke")
    /\ revoked' = SetWithTtl(revoked, req[r].pair, Life - 1)
    /\ Goes(r, "forget")
    /\ UNCHANGED <<tokens, sessions, detail, orphans>>

MarkRevoked(r) ==
    /\ At(r, "revoke")
    /\ revoked' = SetWithTtl(revoked, req[r].pair, Life)
    /\ Goes(r, "forget")
    /\ UNCHANGED <<tokens, sessions, detail, orphans>>

Forget(r) ==
    LET u == req[r].user IN
    /\ At(r, "forget")
    /\ sessions' = IF u = Nobody THEN sessions
                   ELSE [sessions EXCEPT ![u] = SetRemove(@, req[r].pair)]
    /\ Ends(r)
    /\ UNCHANGED <<tokens, revoked, detail, orphans>>

--------------------------------------------------------------------------------
(* change_password, once the new password is committed.                      *)

ChangePassword(r, p) ==
    /\ At(r, "idle")
    /\ SignedIn(owner[p], p)
    /\ req' = [req EXCEPT ![r] = [Idle EXCEPT !.pc = "read", !.user = owner[p],
                                              !.known = Owned(owner[p])]]
    /\ UNCHANGED <<tokens, store, orphans>>

ReadSessions(r) ==
    LET all == sessions[req[r].user].of IN
    /\ At(r, "read")
    /\ req' = [req EXCEPT ![r].pc = IF all = {} THEN "drop" ELSE "sweep", ![r].todo = all]
    /\ UNCHANGED <<tokens, store, orphans>>

\* Mutant of SweepSession: one session is enough.
SweepOneSession(r, p) ==
    /\ At(r, "sweep")
    /\ p \in req[r].todo
    /\ revoked' = SetWithTtl(revoked, p, Life)
    /\ req' = [req EXCEPT ![r].pc = "drop", ![r].todo = {}]
    /\ UNCHANGED <<tokens, sessions, detail, orphans>>

SweepSession(r, p) ==
    /\ At(r, "sweep")
    /\ p \in req[r].todo
    /\ revoked' = SetWithTtl(revoked, p, Life)
    /\ req' = [req EXCEPT ![r].pc = IF req[r].todo = {p} THEN "drop" ELSE "sweep",
                          ![r].todo = @ \ {p}]
    /\ UNCHANGED <<tokens, sessions, detail, orphans>>

\* The whole set goes, with what was added to it since it was read.
DropSessions(r) ==
    LET u == req[r].user IN
    /\ At(r, "drop")
    /\ sessions' = [sessions EXCEPT ![u] = EmptySet]
    /\ orphans' = orphans \cup {p \in sessions[u].of \ req[r].known : ~Marked(revoked, p)}
    /\ Goes(r, "undate")
    /\ UNCHANGED <<tokens, revoked, detail>>

\* Mutant of DropDetail: emptied, but kept without an expiry.
DropDetailForever(r) ==
    /\ At(r, "undate")
    /\ detail' = [detail EXCEPT ![req[r].user] = [EmptyZSet EXCEPT !.left = Forever]]
    /\ Ends(r)
    /\ UNCHANGED <<tokens, revoked, sessions, orphans>>

DropDetail(r) ==
    /\ At(r, "undate")
    /\ detail' = [detail EXCEPT ![req[r].user] = EmptyZSet]
    /\ Ends(r)
    /\ UNCHANGED <<tokens, revoked, sessions, orphans>>

--------------------------------------------------------------------------------
\* Pairs added to a list of sessions whose expiry has not been renewed for them,
\* and those among them whose list is at its last moment.
Unkept == {req[r].pair : r \in {s \in Requests : At(s, "keep")}}
RunningOut == {p \in Unkept : /\ p \in sessions[owner[p]].of
                              /\ Aged(sessions[owner[p]].left) = Gone}

Tick ==
    /\ access' = [p \in Pairs |-> IF access[p] > 0 THEN access[p] - 1 ELSE 0]
    /\ revoked' = [p \in Pairs |-> Aged(revoked[p])]
    /\ sessions' = [u \in Users |-> AgedOr(sessions[u], EmptySet)]
    /\ detail' = [u \in Users |-> AgedOr(detail[u], EmptyZSet)]
    /\ orphans' = orphans \cup RunningOut
    /\ UNCHANGED <<owner, held, refresh, req>>

Begin(r) ==
    \/ \E u \in Users : Login(r, u)
    \/ \E p \in Pairs : \/ RefreshToken(r, p)
                        \/ \E withRefresh \in BOOLEAN : Logout(r, p, withRefresh)
                        \/ ChangePassword(r, p)
                        \/ \E actor \in Users \cup {Nobody} : RevokeSession(r, actor, p)

Continue(r) ==
    \/ CountSessions(r) \/ RankSessions(r) \/ MarkOldest(r) \/ UnlistOldest(r)
    \/ (\E p \in Pairs : Mint(r, p)) \/ KeepSessions(r)
    \/ DatePair(r) \/ KeepDates(r) \/ ReturnPair(r)
    \/ ConsumeToken(r)
    \/ ReadSessions(r) \/ (\E p \in Pairs : SweepSession(r, p))
    \/ DropSessions(r) \/ DropDetail(r)
    \/ MarkRevoked(r) \/ Forget(r)

Next == (\E r \in Requests : Begin(r) \/ Continue(r)) \/ Tick

Spec == Init /\ [][Next]_vars

--------------------------------------------------------------------------------
Left(ttl) == Forever .. ttl

ReqRecord == [pc : Steps, user : Users \cup {Nobody}, pair : Pairs \cup {NoPair},
              count : Nat, queue : Seq(Pairs), todo : SUBSET Pairs, known : SUBSET Pairs]

Typed ==
    /\ owner \in [Pairs -> Users \cup {Nobody}]
    /\ access \in [Pairs -> 0 .. Life]
    /\ held \in SUBSET Pairs
    /\ refresh \in [Pairs -> {"none", "live", "spent"}]
    /\ revoked \in [Pairs -> 0 .. Life]
    /\ sessions \in [Users -> [of : SUBSET Pairs, left : Left(Life + Slack)]]
    /\ detail \in [Users -> [of : Seq(Pairs), left : Left(Life + Slack)]]
    /\ req \in [Requests -> ReqRecord]
    /\ orphans \in SUBSET Pairs

Expiring ==
    \A u \in Users :
        /\ sessions[u].left = Forever => \E r \in Requests : At(r, "keep") /\ req[r].user = u
        /\ detail[u].left = Forever => \E r \in Requests : At(r, "redate") /\ req[r].user = u

\* Every variable has its type, and a user's collections have an expiry but while
\* the login that made them is about to give them one (auth.py:164, 170).
TypeOK == Typed /\ Expiring

\* A token somebody holds and that is accepted is listed among its user's
\* sessions, where a password change and the session list look for it
\* (auth.py:898, 921).  Two ways to lose it are excepted, both while its login was
\* under way: a password change dropped the list without having read the token
\* (auth.py:904), or an old list ran out between the entry and the renewal of the
\* list's expiry (auth.py:163, 164).
LiveIsListed ==
    \A p \in held \ orphans : Accepted(p) => p \in sessions[owner[p]].of

\* A token that was refused, expired or revoked, is never accepted again: the
\* marks left by the five ways to revoke one (auth.py:146, 815, 900, 974) outlive
\* it, however late they are set.
RejectedStaysRejected ==
    [][\A p \in held : ~Accepted(p) => ~Accepted(p)']_vars

\* "Oldest auto-revoked": a session revoked for the limit (auth.py:143) is never
\* younger than one of the user's listed sessions that is spared.
OldestFirst ==
    [][\A r \in Requests : At(r, "evict") /\ req'[r].pc = "unlist" =>
         LET line == detail[req[r].user].of IN
         \A i, j \in DOMAIN line :
             i < j /\ line[j] = Head(req[r].queue) => ~Accepted(line[i])]_vars

\* "Revoke all existing tokens for this user" (auth.py:896): when a password
\* change ends, no access token held when it began is accepted, whatever logins,
\* logouts and evictions ran meanwhile, but for a token that was lost from the
\* list in one of the two ways above.
ChangeEndsOldSessions ==
    [][\A r \in Requests : At(r, "undate") /\ req'[r].pc = "idle" =>
         \A p \in req[r].known \ orphans : ~Accepted(p)]_vars

\* "Max simultaneous sessions per user. Oldest auto-revoked." (admin-guide.md:107)
SessionLimit ==
    \A u \in Users : Cardinality({p \in Owned(u) : Accepted(p)}) =< MaxSessions
================================================================================
