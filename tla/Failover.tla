------------------------------ MODULE Failover ------------------------------
(***************************************************************************)
(* What a request may do to the providers, whatever keys, breakers and     *)
(* backoffs decide (the contract of _chat_with_retry, _stream_with_retry,  *)
(* create_embeddings and list_all_models of llm_proxy.py): it visits the   *)
(* providers of its route in order and never goes back, makes a bounded    *)
(* number of calls to each, one at a time, and is settled once, after      *)
(* which it calls nobody.                                                  *)
(***************************************************************************)
EXTENDS Naturals

CONSTANTS
  Requests,
  MaxRoute,  \* providers on a route, at most
  MaxTries   \* calls to one provider, at most

VARIABLE view

Outcomes == {"none", "ok", "rejected", "unavailable", "left"}

\* Where the request is on its route of `last` providers (0 while it is on
\* none), the calls of the `most` allowed it has made there, whether one is
\* under way, and how it ended.
View ==
  [at      : 0 .. MaxRoute + 1,
   last    : 0 .. MaxRoute,
   most    : 0 .. MaxTries,
   tries   : 0 .. MaxTries,
   waiting : BOOLEAN,
   outcome : Outcomes]

Ended(o) ==
  [at |-> 0, last |-> 0, most |-> 0, tries |-> 0, waiting |-> FALSE, outcome |-> o]

Init == view = [r \in Requests |-> Ended("none")]

Open(v) == v.at \in 1 .. v.last /\ ~ v.waiting

Change(r, v) == view' = [view EXCEPT ![r] = v]

Begin(r) ==
  /\ view[r] = Ended("none")
  /\ \E last \in 0 .. MaxRoute, most \in 0 .. MaxTries :
       Change(r, [at |-> 1, last |-> last, most |-> most, tries |-> 0, waiting |-> FALSE,
                  outcome |-> "none"])

Contact(r) ==
  /\ Open(view[r])
  /\ view[r].tries < view[r].most
  /\ Change(r, [view[r] EXCEPT !.tries = @ + 1, !.waiting = TRUE])

\* The call failed in a way that lets the request go on.
Miss(r) ==
  /\ view[r].waiting
  /\ Change(r, [view[r] EXCEPT !.waiting = FALSE])

Advance(r) ==
  /\ Open(view[r])
  /\ Change(r, [view[r] EXCEPT !.at = @ + 1, !.tries = 0])

\* The call settles the request, or its client goes away during it.
Settle(r) ==
  /\ view[r].waiting
  /\ \E o \in {"ok", "rejected", "left"} :
       Change(r, Ended(o))

\* The request ends without an answer past the last provider only.
RunOut(r) ==
  /\ view[r].at = view[r].last + 1
  /\ \E o \in {"ok", "unavailable"} : Change(r, Ended(o))

Next ==
  \E r \in Requests :
    Begin(r) \/ Contact(r) \/ Miss(r) \/ Advance(r) \/ Settle(r) \/ RunOut(r)

Spec == Init /\ [][Next]_view
=============================================================================
