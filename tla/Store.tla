--------------------------------- MODULE Store ---------------------------------
(***************************************************************************)
(* The key-value store of redis_client.py: what its callers can tell of    *)
(* one key.  A key is known by what is left of its time to live.           *)
(* InMemoryStore keeps an emptied set, and expire gives an entry of its    *)
(* whose time is over its time back; Redis does neither, and is followed   *)
(* here: calls of InMemoryStore do not suspend, those of Redis do.         *)
(* A collection (a set, a sorted set) is a record of its members and what  *)
(* is left of its key.  Each call is one step of the event loop.           *)
(***************************************************************************)
EXTENDS Integers, Sequences

Gone == 0       \* no entry, or one whose time is over
Forever == -1   \* an entry without expiry

\* What is left a tick later.  (At the very instant of its expiry Redis no longer
\* reads an entry and InMemoryStore still does; the shorter of the two is taken.)
Aged(left) == IF left > 0 THEN left - 1 ELSE left

\* set_with_ttl, for a key whose value is a mark; Marked is get_value / exists.
SetWithTtl(marks, k, ttl) == [marks EXCEPT ![k] = ttl]
Marked(marks, k) == marks[k] # Gone

\* increment keeps an entry's expiry and starts at 1 without one.
NoCounter == [n |-> 0, left |-> Gone]
Increment(c) == IF c.left = Gone THEN [n |-> 1, left |-> Forever]
                ELSE [c EXCEPT !.n = @ + 1]

\* expire does nothing to a key that is not there.
Expire(entry, ttl) == IF entry.left = Gone THEN entry ELSE [entry EXCEPT !.left = ttl]

\* Time takes a collection away as a whole.
AgedOr(entry, empty) == IF Aged(entry.left) = Gone THEN empty
                        ELSE [entry EXCEPT !.left = Aged(@)]

EmptySet == [of |-> {}, left |-> Gone]
EmptyZSet == [of |-> << >>, left |-> Gone]

\* set_add and set_remove; an existing key keeps its expiry, an emptied one goes.
SetAdd(c, m) == [of |-> c.of \cup {m}, left |-> IF c.left = Gone THEN Forever ELSE c.left]
SetRemove(c, m) == IF c.of \subseteq {m} THEN EmptySet ELSE [c EXCEPT !.of = @ \ {m}]

\* zadd of a member with the present time as its score; zrangebyscore over
\* everything is the sequence itself, oldest first.
ZAdd(c, m) == [of |-> Append(c.of, m), left |-> IF c.left = Gone THEN Forever ELSE c.left]
================================================================================
