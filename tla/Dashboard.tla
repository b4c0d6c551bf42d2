------------------------------- MODULE Dashboard -------------------------------
(***************************************************************************)
(* Class SessionManager of session_manager.py and the pages that watch it  *)
(* (ws_sessions of main.py, renderSessions of admin.html): the calls a     *)
(* chat's handler makes in turn, each of which saves a copy in the store   *)
(* and sends to one socket after another; the subscription of a socket,    *)
(* which reads the live list before and the copies after an await; and     *)
(* the removals.  A LiveSession is known by its status.  An identifier (a  *)
(* uuid) is used once.  What has been sent to a connected page counts as   *)
(* shown.  So that a proof module can extend Gateway too, the names here   *)
(* are other than there.                                                   *)
(***************************************************************************)
EXTENDS Naturals

CONSTANTS
    Chats,    \* the session identifiers of one worker
    Sockets   \* pages, each with the connection it has at the moment

VARIABLES
    stage,     \* where the handler of each chat is in its calls
    status,    \* the status in its LiveSession object
    listed,    \* _sessions
    call,      \* the handler's call under way
    cut,       \* history: the chats whose generator was cancelled inside a call
    due,       \* _delayed_remove is scheduled
    found,     \* cleanup_stale: what it has found and not yet popped
    copy,      \* store: the status in session:<id>, "none" without an entry
    clients,   \* _ws_clients
    up,        \* the sockets that are connected
    snap,      \* each socket's ws_sessions, and what its subscribe has read
    picture,   \* _liveSessions of each page: the status shown
    fading,    \* the chats whose row a timer of the page will delete
    overtaken  \* history: the chats registered while a socket's snapshot was read

chatVars == <<stage, status, listed, call, cut>>
goneVars == <<due, found>>
pageVars == <<clients, up, snap>>
viewVars == <<picture, fading>>
boardVars == <<chatVars, goneVars, copy, pageVars, viewVars, overtaken>>

Over == {"done", "error"}
Shown == {"queued", "running", "streaming"} \cup Over
ShownOrNot == Shown \cup {"none"}

\* The order of admin-guide.md:802.
Place == [none |-> 0, queued |-> 1, running |-> 2, streaming |-> 3, done |-> 4, error |-> 4]

NoCall == [pc |-> "idle", data |-> "none", left |-> {}, dead |-> {}]
Saving(data) == [NoCall EXCEPT !.pc = "save", !.data = data]

\* _broadcast: the message, and the sockets there are now.
Sending(data) == [NoCall EXCEPT !.pc = "send", !.data = data, !.left = clients]

Outside == [pc |-> "closed", known |-> {}, keys |-> {}, copies |-> [s \in Chats |-> "none"]]

BoardInit ==
    /\ stage = [s \in Chats |-> "new"]
    /\ status = [s \in Chats |-> "none"]
    /\ listed = {}
    /\ call = [s \in Chats |-> NoCall]
    /\ cut = {}
    /\ due = {} /\ found = {}
    /\ copy = [s \in Chats |-> "none"]
    /\ clients = {} /\ up = {}
    /\ snap = [c \in Sockets |-> Outside]
    /\ picture = [c \in Sockets |-> [s \in Chats |-> "none"]]
    /\ fading = [c \in Sockets |-> {}]
    /\ overtaken = [c \in Sockets |-> {}]

Reading == {c \in Sockets : snap[c].pc \in {"keys", "read"}}

--------------------------------------------------------------------------------
(* The handler and its generator.                                            *)

\* register
StartSession(s) ==
    /\ stage[s] = "new"
    /\ stage' = [stage EXCEPT ![s] = "queued"]
    /\ status' = [status EXCEPT ![s] = "queued"]
    /\ listed' = listed \cup {s}
    /\ call' = [call EXCEPT ![s] = Saving("queued")]
    /\ overtaken' = [c \in Sockets |-> IF c \in Reading THEN overtaken[c] \cup {s}
                                       ELSE overtaken[c]]
    /\ UNCHANGED <<cut, goneVars, copy, pageVars, viewVars>>

\* The handler's updates, and those of the generator ("chunks"), which count tokens
\* and leave the status; the entry may be gone.
Calls == {<<"queued", "running">>, <<"running", "streaming">>,
          <<"streaming", "chunks">>, <<"chunks", "chunks">>}

UpdateSession(s, next) ==
    /\ call[s] = NoCall /\ s \notin cut
    /\ <<stage[s], next>> \in Calls
    /\ stage' = [stage EXCEPT ![s] = next]
    /\ LET new == IF next = "chunks" THEN status[s] ELSE next
       IN IF s \in listed
          THEN /\ status' = [status EXCEPT ![s] = new]
               /\ call' = [call EXCEPT ![s] = Saving(new)]
          ELSE UNCHANGED <<status, call>>
    /\ UNCHANGED <<listed, cut, goneVars, copy, pageVars, viewVars, overtaken>>

\* The end of an answer, of an error, of a stream; the copy is left as it is.
Closings == {<<"running", "over", "done">>, <<"running", "over", "error">>,
         <<"streaming", "closing", "done">>, <<"chunks", "closing", "done">>}

CloseSession(s, next, final) ==
    /\ call[s] = NoCall
    /\ <<stage[s], next, final>> \in Closings
    /\ stage' = [stage EXCEPT ![s] = next]
    /\ IF s \in listed
       THEN /\ status' = [status EXCEPT ![s] = final]
            /\ call' = [call EXCEPT ![s] = Sending(final)]
       ELSE UNCHANGED <<status, call>>
    /\ UNCHANGED <<listed, cut, goneVars, copy, pageVars, viewVars, overtaken>>

\* Mutant of SaveSession: a failure to save leaves the call before the broadcast.
SaveSessionOrNothing(s, saved) ==
    /\ call[s].pc = "save"
    /\ copy' = IF saved THEN [copy EXCEPT ![s] = call[s].data] ELSE copy
    /\ call' = [call EXCEPT ![s] = IF saved THEN Sending(status[s]) ELSE NoCall]
    /\ UNCHANGED <<stage, status, listed, cut, goneVars, pageVars, viewVars, overtaken>>

\* set_with_ttl, whose failure is ignored, and the beginning of _broadcast.
SaveSession(s, saved) ==
    /\ call[s].pc = "save"
    /\ copy' = IF saved THEN [copy EXCEPT ![s] = call[s].data] ELSE copy
    /\ call' = [call EXCEPT ![s] = Sending(status[s])]
    /\ UNCHANGED <<stage, status, listed, cut, goneVars, pageVars, viewVars, overtaken>>

\* renderSessions of a session_start, _update or _end.
Show(s, c) ==
    /\ picture' = [picture EXCEPT ![c][s] = call[s].data]
    /\ fading' = IF call[s].data \in Over THEN [fading EXCEPT ![c] = @ \cup {s}] ELSE fading

\* send_json, which raises when the connection is lost.
SendUpdate(s, c) ==
    /\ call[s].pc = "send" /\ c \in call[s].left
    /\ IF c \in up
       THEN /\ Show(s, c)
            /\ call' = [call EXCEPT ![s].left = @ \ {c}]
       ELSE /\ call' = [call EXCEPT ![s].left = @ \ {c}, ![s].dead = @ \cup {c}]
            /\ UNCHANGED viewVars
    /\ UNCHANGED <<stage, status, listed, cut, goneVars, copy, pageVars, overtaken>>

\* The dead are discarded, and close schedules the removal.
EndBroadcast(s) ==
    /\ call[s].pc = "send" /\ call[s].left = {}
    /\ clients' = clients \ call[s].dead
    /\ due' = IF call[s].data \in Over THEN due \cup {s} ELSE due
    /\ call' = [call EXCEPT ![s] = NoCall]
    /\ UNCHANGED <<stage, status, listed, cut, found, copy, up, snap, viewVars, overtaken>>

\* The client of a stream leaves and the generator is cancelled at an await of the call;
\* after an update its finally clause comes, after a close nothing.
CutOff(s) ==
    /\ stage[s] \in {"chunks", "closing"} /\ call[s] # NoCall
    /\ cut' = cut \cup {s}
    /\ call' = [call EXCEPT ![s] = NoCall]
    /\ UNCHANGED <<stage, status, listed, goneVars, copy, pageVars, viewVars, overtaken>>

--------------------------------------------------------------------------------
(* The removals.                                                             *)

Pop(s) ==
    /\ listed' = listed \ {s}
    /\ UNCHANGED <<stage, status, call, cut, copy, pageVars, viewVars, overtaken>>

\* _delayed_remove after its sleep.
RemoveSession(s) ==
    /\ s \in due
    /\ due' = due \ {s}
    /\ Pop(s)
    /\ UNCHANGED found

\* cleanup_stale: any sessions that are neither running nor streaming may be old.
FindOld(old) ==
    /\ found = {} /\ old # {}
    /\ old \subseteq {s \in listed : status[s] \in {"queued"} \cup Over}
    /\ found' = old
    /\ UNCHANGED <<chatVars, due, copy, pageVars, viewVars, overtaken>>

PopOld(s) ==
    /\ s \in found
    /\ found' = found \ {s}
    /\ Pop(s)
    /\ UNCHANGED due

\* delete_key, awaits after the entry has been popped, or the expiry 600 s after the
\* last save, which also comes when delete_key fails.
DropCopy(s) ==
    /\ copy[s] # "none"
    /\ copy' = [copy EXCEPT ![s] = "none"]
    /\ UNCHANGED <<chatVars, goneVars, pageVars, viewVars, overtaken>>

--------------------------------------------------------------------------------
(* A page and its socket.                                                    *)

\* Mutant of Subscribe: the socket is not added before its snapshot is read.
SubscribeUnlisted(c) ==
    /\ snap[c].pc = "closed"
    /\ \A s \in Chats : c \notin call[s].left \cup call[s].dead
    /\ up' = up \cup {c}
    /\ snap' = [snap EXCEPT ![c] = [Outside EXCEPT !.pc = "keys", !.known = listed]]
    /\ UNCHANGED <<chatVars, goneVars, copy, clients, viewVars, overtaken>>

\* accept, subscribe, and get_all up to its first await: the live list is read.
Subscribe(c) ==
    /\ snap[c].pc = "closed"
    /\ \A s \in Chats : c \notin call[s].left \cup call[s].dead   \* a new object
    /\ up' = up \cup {c}
    /\ clients' = clients \cup {c}
    /\ snap' = [snap EXCEPT ![c] = [Outside EXCEPT !.pc = "keys", !.known = listed]]
    /\ UNCHANGED <<chatVars, goneVars, copy, viewVars, overtaken>>

\* Mutant of ListCopies: a copy takes the place of the worker's own session.
ListCopiesFirst(c, listing) ==
    /\ snap[c].pc = "keys"
    /\ LET copied == IF listing THEN {s \in Chats : copy[s] # "none"} ELSE {}
       IN snap' = [snap EXCEPT ![c].pc = "read", ![c].known = @ \ copied, ![c].keys = copied]
    /\ UNCHANGED <<chatVars, goneVars, copy, clients, up, viewVars, overtaken>>

\* get_all_keys; a failure ends the reading.
ListCopies(c, listing) ==
    /\ snap[c].pc = "keys"
    /\ snap' = [snap EXCEPT ![c].pc = "read",
                            ![c].keys = IF listing THEN {s \in Chats \ snap[c].known :
                                                            copy[s] # "none"}
                                        ELSE {}]
    /\ UNCHANGED <<chatVars, goneVars, copy, clients, up, viewVars, overtaken>>

ReadCopy(c, s, read) ==
    /\ snap[c].pc = "read" /\ s \in snap[c].keys
    /\ snap' = [snap EXCEPT ![c].keys = IF read THEN @ \ {s} ELSE {},
                            ![c].copies[s] = IF read THEN copy[s] ELSE @]
    /\ UNCHANGED <<chatVars, goneVars, copy, clients, up, viewVars, overtaken>>

\* The objects of the live list as they are now, the copies as they were.
Snapshot(c) ==
    [s \in Chats |-> IF s \in snap[c].known THEN status[s] ELSE snap[c].copies[s]]

\* The end of subscribe.
SendSnapshot(c) ==
    /\ snap[c].pc = "read" /\ snap[c].keys = {}
    /\ snap' = [snap EXCEPT ![c] = [Outside EXCEPT !.pc = "open"]]
    /\ IF c \in up
       THEN /\ picture' = [picture EXCEPT ![c] = Snapshot(c)]
            /\ UNCHANGED clients
       ELSE /\ clients' = clients \ {c}
            /\ UNCHANGED picture
    /\ UNCHANGED <<chatVars, goneVars, copy, up, fading, overtaken>>

\* The server notices; what was sent until then counts as shown.
LoseSocket(c) ==
    /\ c \in up
    /\ up' = up \ {c}
    /\ UNCHANGED <<chatVars, goneVars, copy, clients, snap, viewVars, overtaken>>

\* The receive of ws_sessions raises; the page keeps its picture and connects again.
Unsubscribe(c) ==
    /\ snap[c].pc = "open" /\ c \notin up
    /\ clients' = clients \ {c}
    /\ snap' = [snap EXCEPT ![c] = Outside]
    /\ overtaken' = [overtaken EXCEPT ![c] = {}]
    /\ UNCHANGED <<chatVars, goneVars, copy, up, viewVars>>

\* The page's timer, 30 s after a session_end.
FadeOut(c, s) ==
    /\ s \in fading[c]
    /\ fading' = [fading EXCEPT ![c] = @ \ {s}]
    /\ picture' = [picture EXCEPT ![c][s] = "none"]
    /\ UNCHANGED <<chatVars, goneVars, copy, pageVars, overtaken>>

HandlerStep(s) ==
    \/ StartSession(s)
    \/ \E next \in {"running", "streaming", "chunks"} : UpdateSession(s, next)
    \/ \E next \in {"over", "closing"}, final \in Over : CloseSession(s, next, final)
    \/ \E saved \in BOOLEAN : SaveSession(s, saved)
    \/ \E c \in Sockets : SendUpdate(s, c)
    \/ EndBroadcast(s) \/ CutOff(s)

RemovalStep(s) == RemoveSession(s) \/ PopOld(s) \/ DropCopy(s)

SocketStep(c) ==
    \/ Subscribe(c) \/ SendSnapshot(c) \/ LoseSocket(c) \/ Unsubscribe(c)
    \/ \E listing \in BOOLEAN : ListCopies(c, listing)
    \/ \E s \in Chats, read \in BOOLEAN : ReadCopy(c, s, read)
    \/ \E s \in Chats : FadeOut(c, s)

BoardNext ==
    \/ \E s \in Chats : HandlerStep(s) \/ RemovalStep(s)
    \/ \E c \in Sockets : SocketStep(c)
    \/ \E old \in SUBSET Chats : FindOld(old)

BoardSpec == BoardInit /\ [][BoardNext]_boardVars

--------------------------------------------------------------------------------
\* Every variable has its type, and a connected socket is in _ws_clients.
BoardTypeOK ==
    /\ stage \in [Chats -> {"new", "queued", "running", "streaming", "chunks", "over", "closing"}]
    /\ status \in [Chats -> ShownOrNot]
    /\ call \in [Chats -> [pc : {"idle", "save", "send"}, data : ShownOrNot,
                           left : SUBSET Sockets, dead : SUBSET Sockets]]
    /\ {listed, cut, due, found} \subseteq SUBSET Chats
    /\ copy \in [Chats -> ShownOrNot]
    /\ {clients, up} \subseteq SUBSET Sockets
    /\ snap \in [Sockets -> [pc : {"closed", "keys", "read", "open"}, known : SUBSET Chats,
                             keys : SUBSET Chats, copies : [Chats -> ShownOrNot]]]
    /\ picture \in [Sockets -> [Chats -> ShownOrNot]]
    /\ fading \in [Sockets -> SUBSET Chats]
    /\ overtaken \in [Sockets -> SUBSET Chats]
    /\ up \subseteq clients

\* A message about s is still to be sent to c.
Untold(s, c) == call[s].pc = "save" \/ c \in call[s].left

\* The hazard of session_manager.py:185, a socket subscribed before its snapshot is
\* read: no update falls between the two.  A page that has its snapshot shows every
\* listed session as it is or is about to be told, whatever updates, snapshots and
\* other pages' connections come in between; except sessions registered while
\* the snapshot was read, which it may show as they were, or not at all, until their
\* next update, and cancelled streams.
PictureIsCurrent ==
    \A c \in up, s \in listed :
        snap[c].pc = "open" /\ s \notin overtaken[c] \cup cut =>
            \/ picture[c][s] = status[s]
            \/ Untold(s, c)
            \/ (status[s] \in Over /\ picture[c][s] = "none")   \* faded out

\* A page loses a row only once its session is over.
Forward(s, old, new) == Place[new] >= Place[old] \/ (status[s] \in Over /\ new = "none")

\* Broadcasts of one session do not overtake one another or a snapshot (session_manager.py:
\* 195): with the same exception, the picture of a listed session never goes back,
\* over reconnections too.
PicturesGoForward ==
    [][\A c \in Sockets, s \in listed :
          s \notin overtaken[c] => Forward(s, picture[c][s], picture'[c][s])]_boardVars
================================================================================
