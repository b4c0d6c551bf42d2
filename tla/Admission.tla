------------------------------- MODULE Admission -------------------------------
(***************************************************************************)
(* What a request meets before its handler does its work: the bans of      *)
(* security.py, the lockout of auth.py on the three login paths, and the   *)
(* sliding windows of rate_limiter.py on the chat path.  Every await on    *)
(* the store or the database is a step of its own, so that requests        *)
(* overtake one another between a check and the record it leads to.        *)
(* Token windows, client slots and request signatures have no caller that  *)
(* goes on to use them, and are left out.                                  *)
(***************************************************************************)
EXTENDS Store, FiniteSets

CONSTANTS Requests, Addresses, Names,
          LockAt, LockTime,     \* auth.py:458, 460: 5 failures, 900 s
          BanAt, BanTime,       \* IP_BAN_THRESHOLD, IP_BAN_DURATION_SECONDS
          Chain, Limit, Window, \* the windows a chat passes, their limits, 60 s
          MaxStall              \* bound: ticks between a window's clock reading and its entry

Windows == {Chain[i] : i \in DOMAIN Chain}

ASSUME AdmissionAssumption ==
    /\ {LockAt, LockTime, BanAt, BanTime, Window} \subseteq Nat \ {0}
    /\ MaxStall \in Nat
    /\ IsFiniteSet(Requests)
    /\ Chain \in Seq(Windows) /\ Chain # << >>
    /\ Limit \in [Windows -> Nat \ {0}]

VARIABLES
    bans,      \* _ip_bans: what is left of the ban, NoBan without an entry
    failures,  \* _ip_failures: how many refused logins an address has of each age
    fails,     \* store: auth_failures:{name}
    locks,     \* store: auth_lockout:{name}
    hits,      \* store: rl:{window}, how many entries there are of each age
    req,       \* the requests in progress
    tries      \* history: counted failures of a name since it was last locked or cleared

vars == <<bans, failures, fails, locks, hits, req, tries>>

NoBan == -1
Idle == [pc |-> "idle", ip |-> "none", name |-> "none", n |-> 0, at |-> 0, age |-> 0]
Ages == 0 .. Window + MaxStall
FailureAges == 0 .. BanTime
NoFailures == [t \in FailureAges |-> 0]
Stamped == {"count", "hit"}  \* a request has read the clock for its window

Init ==
    /\ bans = [a \in Addresses |-> NoBan]
    /\ failures = [a \in Addresses |-> NoFailures]
    /\ fails = [u \in Names |-> NoCounter]
    /\ locks = [u \in Names |-> Gone]
    /\ hits = [w \in Windows |-> [a \in Ages |-> 0]]
    /\ req = [r \in Requests |-> Idle]
    /\ tries = [u \in Names |-> 0]

\* Entries are counted by their age; time makes them older, and those that
\* leave the ages of the model count for nobody any more.
Entries(ages, from, to) == UNION {{t} \X (1 .. ages[t]) : t \in from .. to}
CountIn(ages, from, to) == Cardinality(Entries(ages, from, to))
Older(ages) == [t \in DOMAIN ages |-> IF t = 0 THEN 0 ELSE ages[t - 1]]

At(r, pc) == req[r].pc = pc
Goes(r, pc) == req' = [req EXCEPT ![r].pc = pc]
Ends(r) == req' = [req EXCEPT ![r] = Idle]

--------------------------------------------------------------------------------
(* BruteForceProtectionMiddleware: before and after the handler.             *)

Banned(ip) == bans[ip] > 0

\* A ban that has run out is taken away with the failures that led to it.
Enter(r, ip, start) ==
    /\ At(r, "idle")
    /\ ~Banned(ip)
    /\ bans' = [bans EXCEPT ![ip] = NoBan]
    /\ failures' = IF bans[ip] = NoBan THEN failures ELSE [failures EXCEPT ![ip] = NoFailures]
    /\ req' = [req EXCEPT ![r] = start]
    /\ UNCHANGED <<fails, locks, hits, tries>>

\* /v1/auth/token and /admin/login; an LDAP login, which knows no lockout; a chat
\* goes to its windows.
Login(r, ip, u) == Enter(r, ip, [Idle EXCEPT !.pc = "lock?", !.ip = ip, !.name = u])
LdapLogin(r, ip) == Enter(r, ip, [Idle EXCEPT !.pc = "ldap", !.ip = ip])
Chat(r, ip) == Enter(r, ip, [Idle EXCEPT !.pc = "trim", !.ip = ip, !.at = 1])

\* The entries younger than the limit, the others gone.
Young(ages, limit) == [t \in DOMAIN ages |-> IF t < limit THEN ages[t] ELSE 0]

\* An address's failures after one more, and how many they are.
Recent(ip) == [Young(failures[ip], BanTime) EXCEPT ![0] = @ + 1]
Failures(ages) == CountIn(ages, 0, BanTime - 1)

\* Mutant of RecordRefusal: a failure more before the ban.
RecordRefusalLate(r) ==
    LET ip == req[r].ip IN
    /\ At(r, "refused")
    /\ failures' = [failures EXCEPT ![ip] = Recent(ip)]
    /\ bans' = IF Failures(Recent(ip)) > BanAt THEN [bans EXCEPT ![ip] = BanTime] ELSE bans
    /\ Ends(r)
    /\ UNCHANGED <<fails, locks, hits, tries>>

\* Mutant of RecordRefusal: every further failure adds to the ban.
RecordRefusalAdds(r) ==
    LET ip == req[r].ip IN
    /\ At(r, "refused")
    /\ failures' = [failures EXCEPT ![ip] = Recent(ip)]
    /\ bans' = IF Failures(Recent(ip)) >= BanAt THEN [bans EXCEPT ![ip] = @ + BanTime + 1] ELSE bans
    /\ Ends(r)
    /\ UNCHANGED <<fails, locks, hits, tries>>

\* A 401 on one of the login paths.
RecordRefusal(r) ==
    LET ip == req[r].ip IN
    /\ At(r, "refused")
    /\ failures' = [failures EXCEPT ![ip] = Recent(ip)]
    /\ bans' = IF Failures(Recent(ip)) >= BanAt THEN [bans EXCEPT ![ip] = BanTime] ELSE bans
    /\ Ends(r)
    /\ UNCHANGED <<fails, locks, hits, tries>>

\* unban_ip, by an admin.
Unban(ip) ==
    /\ bans[ip] # NoBan
    /\ bans' = [bans EXCEPT ![ip] = NoBan]
    /\ failures' = [failures EXCEPT ![ip] = NoFailures]
    /\ UNCHANGED <<fails, locks, hits, req, tries>>

--------------------------------------------------------------------------------
(* ldap_authenticate and local_authenticate                                  *)

\* The directory finds the name and binds with the password, or not, or fails.
\* What is cached under the name is read before, and nothing is done with it.
LdapAnswers(r, right) ==
    /\ At(r, "ldap")
    /\ IF right THEN Ends(r) ELSE Goes(r, "refused")
    /\ UNCHANGED <<bans, failures, fails, locks, hits, tries>>

CheckLock(r) ==
    /\ At(r, "lock?")
    /\ Goes(r, IF Marked(locks, req[r].name) THEN "refused" ELSE "verify")
    /\ UNCHANGED <<bans, failures, fails, locks, hits, tries>>

Verify(r, right) ==
    /\ At(r, "verify")
    /\ Goes(r, IF right THEN "clear" ELSE "fail")
    /\ UNCHANGED <<bans, failures, fails, locks, hits, tries>>

ClearFailures(r) ==
    /\ At(r, "clear")
    /\ fails' = [fails EXCEPT ![req[r].name] = NoCounter]
    /\ tries' = [tries EXCEPT ![req[r].name] = 0]
    /\ Ends(r)
    /\ UNCHANGED <<bans, failures, locks, hits>>

\* _record_auth_failure: increment, then expire, then the lockout.
CountFailure(r) ==
    LET c == Increment(fails[req[r].name]) IN
    /\ At(r, "fail")
    /\ fails' = [fails EXCEPT ![req[r].name] = c]
    /\ tries' = [tries EXCEPT ![req[r].name] = @ + 1]
    /\ req' = [req EXCEPT ![r].pc = "rearm", ![r].n = c.n]
    /\ UNCHANGED <<bans, failures, locks, hits>>

\* Mutant of RearmFailures: a failure more before the lock.
RearmFailuresLate(r) ==
    /\ At(r, "rearm")
    /\ fails' = [fails EXCEPT ![req[r].name] = Expire(@, LockTime)]
    /\ req' = [req EXCEPT ![r].pc = IF req[r].n > LockAt THEN "lock" ELSE "refused",
                          ![r].n = 0]
    /\ UNCHANGED <<bans, failures, locks, hits, tries>>

RearmFailures(r) ==
    /\ At(r, "rearm")
    /\ fails' = [fails EXCEPT ![req[r].name] = Expire(@, LockTime)]
    /\ req' = [req EXCEPT ![r].pc = IF req[r].n >= LockAt THEN "lock" ELSE "refused",
                          ![r].n = 0]
    /\ UNCHANGED <<bans, failures, locks, hits, tries>>

\* Mutant of SetLock: a lock without an expiry.
SetLockForGood(r) ==
    /\ At(r, "lock")
    /\ locks' = SetWithTtl(locks, req[r].name, Forever)
    /\ tries' = [tries EXCEPT ![req[r].name] = 0]
    /\ Goes(r, "refused")
    /\ UNCHANGED <<bans, failures, fails, hits>>

SetLock(r) ==
    /\ At(r, "lock")
    /\ locks' = SetWithTtl(locks, req[r].name, LockTime)
    /\ tries' = [tries EXCEPT ![req[r].name] = 0]
    /\ Goes(r, "refused")
    /\ UNCHANGED <<bans, failures, fails, hits>>

--------------------------------------------------------------------------------
(* _sliding_window_check, for one window of the chain after another.         *)

Mine(r) == Chain[req[r].at]

\* The clock is read and the entries that have left the window go.
TrimWindow(r) ==
    /\ At(r, "trim")
    /\ hits' = [hits EXCEPT ![Mine(r)] = Young(@, Window)]
    /\ req' = [req EXCEPT ![r].pc = "count", ![r].age = 0]
    /\ UNCHANGED <<bans, failures, fails, locks, tries>>

\* Mutant of CountWindow: the limit itself is let through.
CountWindowLate(r) ==
    LET age == req[r].age
        n == CountIn(hits[Mine(r)], age, age + Window) IN
    /\ At(r, "count")
    /\ IF n =< Limit[Mine(r)] THEN Goes(r, "hit") ELSE Ends(r)
    /\ UNCHANGED <<bans, failures, fails, locks, hits, tries>>

\* Only entries up to the request's own reading of the clock are counted.
CountWindow(r) ==
    LET age == req[r].age
        n == CountIn(hits[Mine(r)], age, age + Window) IN
    /\ At(r, "count")
    /\ IF n < Limit[Mine(r)] THEN Goes(r, "hit") ELSE Ends(r)
    /\ UNCHANGED <<bans, failures, fails, locks, hits, tries>>

HitWindow(r) ==
    /\ At(r, "hit")
    /\ hits' = [hits EXCEPT ![Mine(r)][req[r].age] = @ + 1]
    /\ IF req[r].at < Len(Chain)
       THEN req' = [req EXCEPT ![r].pc = "trim", ![r].at = @ + 1, ![r].age = 0]
       ELSE Ends(r)
    /\ UNCHANGED <<bans, failures, fails, locks, tries>>

--------------------------------------------------------------------------------
Tick ==
    /\ \A r \in Requests : req[r].pc \in Stamped => req[r].age < MaxStall
    /\ bans' = [a \in Addresses |-> IF bans[a] > 0 THEN bans[a] - 1 ELSE bans[a]]
    /\ failures' = [a \in Addresses |-> Older(failures[a])]
    /\ fails' = [u \in Names |-> AgedOr(fails[u], NoCounter)]
    /\ locks' = [u \in Names |-> Aged(locks[u])]
    /\ tries' = [u \in Names |-> IF Aged(fails[u].left) = Gone THEN 0 ELSE tries[u]]
    /\ hits' = [w \in Windows |-> Older(hits[w])]
    /\ req' = [r \in Requests |-> IF req[r].pc \in Stamped
                                  THEN [req[r] EXCEPT !.age = @ + 1] ELSE req[r]]

Arrive(r) ==
    \E ip \in Addresses : \/ \E u \in Names : Login(r, ip, u)
                          \/ LdapLogin(r, ip)
                          \/ Chat(r, ip)

Continue(r) ==
    \/ RecordRefusal(r) \/ CheckLock(r)
    \/ (\E right \in BOOLEAN : Verify(r, right) \/ LdapAnswers(r, right))
    \/ ClearFailures(r) \/ CountFailure(r) \/ RearmFailures(r) \/ SetLock(r)
    \/ TrimWindow(r) \/ CountWindow(r) \/ HitWindow(r)

Next == (\E r \in Requests : Arrive(r) \/ Continue(r)) \/ (\E ip \in Addresses : Unban(ip)) \/ Tick

\* Time passes, and the event loop comes back to every request it has begun.
Spec == /\ Init /\ [][Next]_vars
        /\ WF_vars(Tick)
        /\ \A r \in Requests : WF_vars(Continue(r))

--------------------------------------------------------------------------------
Steps == {"idle", "ldap", "lock?", "verify", "clear", "fail", "rearm", "lock", "refused", "trim"}
             \cup Stamped

\* Every variable has its type.
TypeOK ==
    /\ bans \in [Addresses -> NoBan .. BanTime]
    /\ failures \in [Addresses -> [FailureAges -> Nat]]
    /\ fails \in [Names -> [n : Nat, left : Forever .. LockTime]]
    /\ locks \in [Names -> Gone .. LockTime]
    /\ hits \in [Windows -> [Ages -> Nat]]
    /\ tries \in [Names -> Nat]
    /\ req \in [Requests -> [pc : Steps, ip : Addresses \cup {"none"},
                             name : Names \cup {"none"}, n : Nat,
                             at : 0 .. Len(Chain), age : 0 .. MaxStall]]

Others == Cardinality(Requests) - 1

\* "locks after 5 failures" (auth.py:410), although the count and the lock are
\* three awaits apart, a success may clear the count between them, and a stalled
\* request may renew it: LockAt failures since the last lock always have a
\* request on its way to lock the name.
FullCountLocks ==
    \A u \in Names : tries[u] >= LockAt =>
        \E r \in Requests : /\ req[r].name = u
                           /\ \/ req[r].pc = "rearm" /\ req[r].n >= LockAt
                              \/ req[r].pc = "lock"

\* Checks come awaits before the records they protect (auth.py:416, security.py:277,
\* rate_limiter.py:43-63), so requests already past them add theirs: never more than
\* one each, also to a window of which one of them read the clock long before it counted.
OvershootIsInFlight ==
    /\ \A u \in Names : tries[u] =< LockAt + Others
    /\ \A a \in Addresses : Failures(failures[a]) =< BanAt + Others
    /\ \A w \in Windows : CountIn(hits[w], 0, Window - 1) =< Limit[w] + Others

\* The failures are forgotten and the ban lifted by two clocks (security.py:299,
\* 278): as long as the window holds enough failures, the address is banned.
BanMatchesFailures ==
    \A a \in Addresses : Failures(failures[a]) >= BanAt => Banned(a)

\* Attempts refused by the lock are not counted, so the lock ends whatever its
\* victim or anybody else tries meanwhile (auth.py:416).
LockEnds == \A u \in Names : Marked(locks, u) ~> ~Marked(locks, u)
================================================================================
