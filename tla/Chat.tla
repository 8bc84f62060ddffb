-------------------------------- MODULE Chat --------------------------------
(***************************************************************************)
(* ChatGateway: administrators and client users that talk over sockets     *)
(* through sessions kept in the memory of the service.                     *)
(*                                                                         *)
(* The handlers are synchronous, so each is one step.  What interleaves is *)
(* the network: a socket carries the requests of one page to the service,  *)
(* and its events back, in order and not at once; it may close with both   *)
(* still under way, and a restart of the service closes all of them and    *)
(* forgets the sessions.  A page that reconnects is a new socket.          *)
(***************************************************************************)
EXTENDS Naturals, Sequences, FiniteSets, Functions

CONSTANTS
  Users,        \* the userId values of handshakes
  Sockets,      \* sockets of a behaviour (bound)
  None,
  MaxRequests,  \* bound on the chat and markAsRead requests
  MaxRestarts   \* bound on the restarts of the service

ASSUME SenderAssumption == "Admin" \notin Users
ASSUME BoundsAssumption == MaxRequests \in Nat /\ MaxRestarts \in Nat

Roles == {"admin", "client"}
Senders == Users \cup {"Admin"}

\* An element of ChatSession.messages; texts are told apart by a number.
Message == [from : Senders, message : Nat, read : BOOLEAN]
\* What a page asks, and what the service emits.
Request == [ev : {"chat"}, message : Nat] \cup [ev : {"markAsRead"}, sender : Senders]
Event == [ev : {"chat"}, from : Senders, message : Nat]
         \cup [ev : {"readUpdate"}, user : Users]

ASSUME NoneAssumption ==
  /\ None \notin Seq(Message)
  /\ None \notin [user : Users, role : Roles]

VARIABLES
  sessions,   \* userId -> ChatSession.messages, None where there is no session
  query,      \* the handshake of each socket, None before it connects
  open,       \* the sockets that are connected
  up,         \* requests on their way to the service
  down,       \* events on their way to the page
  seen,       \* events the page has received (history)
  since,      \* the length of each session when the socket connected (history)
  asked,      \* the <<userId, senderId>> of markAsRead requests (history)
  requests,   \* how many requests were made
  restarts    \* how many times the service was restarted

vars == <<sessions, query, open, up, down, seen, since, asked, requests, restarts>>

Init ==
  /\ sessions = [u \in Users |-> None]
  /\ query = [s \in Sockets |-> None]
  /\ open = {}
  /\ up = [s \in Sockets |-> <<>>] /\ down = [s \in Sockets |-> <<>>]
  /\ seen = [s \in Sockets |-> <<>>] /\ since = [s \in Sockets |-> [u \in Users |-> 0]]
  /\ asked = {} /\ requests = 0 /\ restarts = 0

HasSession(u) == sessions[u] # None
Messages(u) == IF HasSession(u) THEN sessions[u] ELSE <<>>
LengthOf(u) == Len(Messages(u))

\* client.join: the rooms 'admins' and 'user-<userId>'.
Admins == {s \in open : query[s].role = "admin"}
RoomOf(u) == {s \in open : query[s] = [user |-> u, role |-> "client"]}

-----------------------------------------------------------------------------
(* Handlers.                                                               *)

\* Mutant: a connection always starts an empty session.
OpenedAfresh(u, role) == IF role = "admin" THEN sessions ELSE [sessions EXCEPT ![u] = <<>>]

\* Mutant: the test of the role is turned round.
OpenedForAdmin(u, role) ==
  IF role = "client" \/ HasSession(u) THEN sessions ELSE [sessions EXCEPT ![u] = <<>>]

\* The sessions after a connection: that of a client user is there.
Opened(u, role) ==
  IF role = "admin" \/ HasSession(u) THEN sessions ELSE [sessions EXCEPT ![u] = <<>>]

\* handleConnection
HandleConnection(s, u, role) ==
  /\ query[s] = None
  /\ query' = [query EXCEPT ![s] = [user |-> u, role |-> role]]
  /\ open' = open \cup {s}
  /\ sessions' = Opened(u, role)
  /\ since' = [since EXCEPT ![s] = [v \in Users |-> LengthOf(v)]]
  /\ UNCHANGED <<up, down, seen, asked, requests, restarts>>

\* server.to(room).emit(...)
Emit(room, e) == down' = [s \in Sockets |-> IF s \in room THEN Append(down[s], e) ELSE down[s]]

Asks(s, ev) ==
  /\ s \in open /\ up[s] # <<>> /\ Head(up[s]).ev = ev
  /\ up' = [up EXCEPT ![s] = Tail(@)]

\* Mutant: one emit to the room 'clients' for each of the sessions.
HandleChatAdminClients(s) ==
  /\ Asks(s, "chat") /\ query[s].role = "admin"
  /\ LET m == Head(up[s]).message
         withSession == {u \in Users : HasSession(u)}
         e == [ev |-> "chat", from |-> "Admin", message |-> m]
     IN
     /\ sessions' = [u \in Users |->
          IF HasSession(u)
          THEN Append(sessions[u], [from |-> "Admin", message |-> m, read |-> FALSE])
          ELSE None]
     /\ down' = [t \in Sockets |->
          IF t \in open \ Admins
          THEN down[t] \o [i \in 1..Cardinality(withSession) |-> e]
          ELSE down[t]]
  /\ UNCHANGED <<query, open, seen, since, asked, requests, restarts>>

\* handleChat of an administrator: to every session, and to the room of each.
HandleChatAdmin(s) ==
  /\ Asks(s, "chat") /\ query[s].role = "admin"
  /\ LET m == Head(up[s]).message IN
     /\ sessions' = [u \in Users |->
          IF HasSession(u)
          THEN Append(sessions[u], [from |-> "Admin", message |-> m, read |-> FALSE])
          ELSE None]
     /\ Emit(UNION {RoomOf(u) : u \in {v \in Users : HasSession(v)}},
             [ev |-> "chat", from |-> "Admin", message |-> m])
  /\ UNCHANGED <<query, open, seen, since, asked, requests, restarts>>

\* handleChat of a client user: to its own session, and to the administrators.
\* Without a session the handler throws and nothing happens.
HandleChatClient(s) ==
  /\ Asks(s, "chat") /\ query[s].role = "client"
  /\ LET u == query[s].user
         m == Head(up[s]).message
     IN IF HasSession(u)
        THEN /\ sessions' = [sessions EXCEPT ![u] =
                  Append(@, [from |-> u, message |-> m, read |-> FALSE])]
             /\ Emit(Admins, [ev |-> "chat", from |-> u, message |-> m])
        ELSE UNCHANGED <<sessions, down>>
  /\ UNCHANGED <<query, open, seen, since, asked, requests, restarts>>

\* Mutant: every message of the session is marked.
MarkedAll(messages, sender) ==
  [i \in DOMAIN messages |-> [messages[i] EXCEPT !.read = TRUE]]

\* Mutant: the mark holds the sender and no boolean.
MarkedSender(messages, sender) ==
  [i \in DOMAIN messages |->
     IF messages[i].from = sender THEN [messages[i] EXCEPT !.read = sender] ELSE messages[i]]

\* Mutant: the mark is switched.
MarkedSwitch(messages, sender) ==
  [i \in DOMAIN messages |->
     IF messages[i].from = sender THEN [messages[i] EXCEPT !.read = ~@] ELSE messages[i]]

\* The messages of a session after markAsRead(sender).
Marked(messages, sender) ==
  [i \in DOMAIN messages |->
     IF messages[i].from = sender THEN [messages[i] EXCEPT !.read = TRUE] ELSE messages[i]]

\* markAsRead; the role is not looked at.
MarkAsRead(s) ==
  /\ Asks(s, "markAsRead")
  /\ LET u == query[s].user IN
     IF HasSession(u)
     THEN /\ sessions' = [sessions EXCEPT ![u] = Marked(@, Head(up[s]).sender)]
          /\ Emit(Admins, [ev |-> "readUpdate", user |-> u])
     ELSE UNCHANGED <<sessions, down>>
  /\ UNCHANGED <<query, open, seen, since, asked, requests, restarts>>

-----------------------------------------------------------------------------
(* Pages and the network.                                                  *)

Ask(s, r) ==
  /\ s \in open /\ requests < MaxRequests
  /\ requests' = requests + 1
  /\ up' = [up EXCEPT ![s] = Append(@, r)]
  /\ UNCHANGED <<sessions, query, open, down, seen, since, restarts>>

\* A page sends a chat message, or says that it has read a sender's.
SendChat(s) == Ask(s, [ev |-> "chat", message |-> requests]) /\ UNCHANGED asked

SendRead(s) ==
  \E sender \in Senders :
     /\ Ask(s, [ev |-> "markAsRead", sender |-> sender])
     /\ asked' = asked \cup {<<query[s].user, sender>>}

Receive(s) ==
  /\ s \in open /\ down[s] # <<>>
  /\ seen' = [seen EXCEPT ![s] = Append(@, Head(down[s]))]
  /\ down' = [down EXCEPT ![s] = Tail(@)]
  /\ UNCHANGED <<sessions, query, open, up, since, asked, requests, restarts>>

\* The socket closes, with what is on its way in both directions.
Disconnect(s) ==
  /\ s \in open /\ open' = open \ {s}
  /\ up' = [up EXCEPT ![s] = <<>>] /\ down' = [down EXCEPT ![s] = <<>>]
  /\ UNCHANGED <<sessions, query, seen, since, asked, requests, restarts>>

\* The service restarts: the sessions were in memory.
Restart ==
  /\ restarts < MaxRestarts /\ restarts' = restarts + 1
  /\ sessions' = [u \in Users |-> None]
  /\ open' = {}
  /\ up' = [s \in Sockets |-> <<>>] /\ down' = [s \in Sockets |-> <<>>]
  /\ UNCHANGED <<query, seen, since, asked, requests>>

Next ==
  \/ Restart
  \/ \E s \in Sockets :
       \/ \E u \in Users, role \in Roles : HandleConnection(s, u, role)
       \/ HandleChatAdmin(s) \/ HandleChatClient(s) \/ MarkAsRead(s)
       \/ SendChat(s) \/ SendRead(s) \/ Receive(s) \/ Disconnect(s)

Spec == Init /\ [][Next]_vars

-----------------------------------------------------------------------------
(* Properties.                                                             *)

\* Types of the state.
TypeOK ==
  /\ sessions \in [Users -> Seq(Message) \cup {None}]
  /\ query \in [Sockets -> [user : Users, role : Roles] \cup {None}]
  /\ open \subseteq {s \in Sockets : query[s] # None}
  /\ up \in [Sockets -> Seq(Request)]
  /\ down \in [Sockets -> Seq(Event)]
  /\ seen \in [Sockets -> Seq(Event)]
  /\ since \in [Sockets -> [Users -> Nat]]
  /\ asked \subseteq Users \X Senders
  /\ requests \in 0..MaxRequests /\ restarts \in 0..MaxRestarts

\* handleChat pushes to sessions[userId] without a test: whenever the socket of
\* a client user is open its session is there, after reconnections and
\* restarts too, so the handler never throws.
SessionOfOpen == \A u \in Users : RoomOf(u) # {} => HasSession(u)

\* The places of a sender's messages in a session after its first k, and of
\* a sender's chat messages among the events of a page.
Filed(msgs, k, from) == {i \in DOMAIN msgs : i > k /\ msgs[i].from = from}
Chats(evs, from) == {j \in DOMAIN evs : evs[j].ev = "chat" /\ evs[j].from = from}

\* The sender's events are the sender's messages after the first k, one event
\* for each message and in the order of the messages.
Mirrors(evs, msgs, k, from) ==
  \E f \in Surjection(Filed(msgs, k, from), Chats(evs, from)) :
    /\ \A i \in Filed(msgs, k, from) : evs[f[i]].message = msgs[i].message
    /\ \A i, j \in Filed(msgs, k, from) : i < j => f[i] < f[j]

\* What a page has received or will receive.
Stream(s) == seen[s] \o down[s]

\* While its socket is open, the page of a client user gets exactly the
\* administrators' messages that handleChat files in its session from the
\* connection on, in that order and once each, and nothing of another user.
ClientSeesSession ==
  \A s \in open : query[s].role = "client" =>
    /\ Mirrors(Stream(s), Messages(query[s].user), since[s][query[s].user], "Admin")
    /\ \A u \in Users : Chats(Stream(s), u) = {}

\* While its socket is open, the page of an administrator gets exactly what
\* each client user files in the user's session, in order and once each, for
\* sessions older and younger than the socket.
AdminSeesSessions ==
  \A s \in Admins, u \in Users : Mirrors(Stream(s), Messages(u), since[s][u], u)

\* A message is marked read only if a page whose handshake names the session's
\* user has asked for that sender: neither the requests of other users nor
\* one about another sender mark it.
ReadWasAsked ==
  \A u \in Users : \A i \in 1..LengthOf(u) :
    sessions[u][i].read => <<u, sessions[u][i].from>> \in asked

\* Short of a restart a session is never dropped or emptied: its messages
\* stay, in their order, and a read mark is never taken back, however often
\* the user's pages reconnect.
HistoryKept ==
  [][\A u \in Users : HasSession(u) /\ restarts' = restarts =>
       /\ sessions'[u] # None
       /\ Len(sessions'[u]) >= Len(sessions[u])
       /\ \A i \in 1..Len(sessions[u]) :
            /\ sessions'[u][i].message = sessions[u][i].message
            /\ sessions[u][i].read => sessions'[u][i].read]_vars
=============================================================================
