----------------------------- MODULE ChatProofs -----------------------------
(***************************************************************************)
(* Proofs about Chat, for any users, any number of sockets, requests and   *)
(* restarts.                                                               *)
(***************************************************************************)
EXTENDS Chat, SequenceTheorems, TLAPS

\* Every markAsRead request on its way is recorded as asked.
AskedUp ==
  \A s \in Sockets : \A i \in DOMAIN up[s] :
    up[s][i].ev = "markAsRead" =>
      query[s] # None /\ <<query[s].user, up[s][i].sender>> \in asked

\* A session is as long as it was when an open socket connected, or longer.
SinceOK == \A s \in open, u \in Users : since[s][u] <= LengthOf(u)

\* Nothing was emitted to a socket that has not connected.
UnusedOK == \A s \in Sockets : query[s] = None => seen[s] = <<>> /\ down[s] = <<>>

\* The inductive invariant of the proofs.
IInv ==
  /\ TypeOK /\ SessionOfOpen /\ AskedUp /\ ReadWasAsked
  /\ SinceOK /\ UnusedOK /\ ClientSeesSession /\ AdminSeesSessions

\* Taking a request off a socket keeps the types and the record of what was
\* asked.
LEMMA AsksFacts ==
  ASSUME TypeOK, AskedUp, NEW s \in Sockets, NEW ev, Asks(s, ev)
  PROVE  /\ query[s] \in [user : Users, role : Roles]
         /\ ev = "chat" => Head(up[s]).message \in Nat
         /\ ev = "markAsRead" => /\ Head(up[s]).sender \in Senders
                                 /\ <<query[s].user, Head(up[s]).sender>> \in asked
         /\ up' \in [Sockets -> Seq(Request)]
         /\ \A t \in Sockets : \A i \in DOMAIN up'[t] :
              \E j \in DOMAIN up[t] : up'[t][i] = up[t][j]
<1>1. query[s] \in [user : Users, role : Roles]
  BY DEF Asks, TypeOK
<1>2. up[s] \in Seq(Request) /\ up[s] # <<>> /\ Head(up[s]).ev = ev
  BY DEF Asks, TypeOK
<1>3. Head(up[s]) = up[s][1] /\ 1 \in DOMAIN up[s] /\ Head(up[s]) \in Request
  BY <1>2
<1>4. ev = "chat" => Head(up[s]).message \in Nat
  BY <1>2, <1>3 DEF Request
<1>5. ev = "markAsRead" => Head(up[s]).sender \in Senders
  BY <1>2, <1>3 DEF Request
<1>6. ev = "markAsRead" => <<query[s].user, Head(up[s]).sender>> \in asked
  BY <1>2, <1>3 DEF AskedUp
<1>7. up' = [up EXCEPT ![s] = Tail(up[s])] /\ Tail(up[s]) \in Seq(Request)
  BY <1>2 DEF Asks
<1>8. up' \in [Sockets -> Seq(Request)]
  BY <1>7 DEF TypeOK
<1>9. ASSUME NEW t \in Sockets, NEW i \in DOMAIN up'[t]
      PROVE  \E j \in DOMAIN up[t] : up'[t][i] = up[t][j]
  <2>1. CASE t = s
    <3>1. up'[t] = Tail(up[s])
      BY <1>7, <2>1 DEF TypeOK
    <3>2. i + 1 \in DOMAIN up[s] /\ Tail(up[s])[i] = up[s][i + 1]
      BY <1>2, <1>9, <3>1
    <3> QED BY <2>1, <3>1, <3>2
  <2>2. CASE t # s
    BY <1>7, <1>9, <2>2 DEF TypeOK
  <2> QED BY <2>1, <2>2
<1> QED BY <1>1, <1>4, <1>5, <1>6, <1>8, <1>9

\* Emitting an event keeps the type of what is on its way.
LEMMA EmitType ==
  ASSUME TypeOK, NEW room, NEW e \in Event, Emit(room, e)
  PROVE  down' \in [Sockets -> Seq(Event)]
  BY DEF TypeOK, Emit

\* markAsRead changes nothing but read marks, sets them, and sets only those of
\* the sender.
LEMMA MarkedFacts ==
  ASSUME NEW q \in Seq(Message), NEW sender
  PROVE  /\ Marked(q, sender) \in Seq(Message)
         /\ Len(Marked(q, sender)) = Len(q)
         /\ \A i \in 1..Len(q) :
              /\ Marked(q, sender)[i].message = q[i].message
              /\ Marked(q, sender)[i].from = q[i].from
              /\ q[i].read => Marked(q, sender)[i].read
              /\ Marked(q, sender)[i].read => q[i].read \/ q[i].from = sender
<1> DEFINE r == Marked(q, sender)
<1>1. DOMAIN q = 1..Len(q) /\ Len(q) \in Nat /\ \A i \in 1..Len(q) : q[i] \in Message
  OBVIOUS
<1>2. r = [i \in 1..Len(q) |-> IF q[i].from = sender THEN [q[i] EXCEPT !.read = TRUE] ELSE q[i]]
  BY <1>1 DEF Marked
<1>3. \A i \in 1..Len(q) : r[i] \in Message
  BY <1>1, <1>2 DEF Message
<1>4. r \in Seq(Message) /\ Len(r) = Len(q)
  <2>1. r \in [1..Len(q) -> Message]
    BY <1>2, <1>3
  <2> HIDE DEF r
  <2> QED BY <1>1, <2>1
<1>5. \A i \in 1..Len(q) :
        /\ r[i].message = q[i].message
        /\ r[i].from = q[i].from
        /\ q[i].read => r[i].read
        /\ r[i].read => q[i].read \/ q[i].from = sender
  BY <1>1, <1>2 DEF Message
<1> QED BY <1>4, <1>5

\* What filing a message does to a session.
LEMMA AppendFacts ==
  ASSUME NEW q \in Seq(Message), NEW m \in Message
  PROVE  /\ Append(q, m) \in Seq(Message)
         /\ Len(Append(q, m)) = Len(q) + 1
         /\ Append(q, m)[Len(q) + 1] = m
         /\ \A i \in 1..Len(q) : Append(q, m)[i] = q[i]
  OBVIOUS

\* How a step may change one session: not at all, created empty, one unread
\* message filed, or the read marks of a sender set that the user asked for.
SessionStep(u) ==
  \/ sessions'[u] = sessions[u]
  \/ sessions[u] = None /\ sessions'[u] = <<>>
  \/ /\ HasSession(u)
     /\ \E m \in Message : ~m.read /\ sessions'[u] = Append(sessions[u], m)
  \/ /\ HasSession(u)
     /\ \E sender \in Senders :
          <<u, sender>> \in asked /\ sessions'[u] = Marked(sessions[u], sender)

\* The sessions change in no other way, short of a restart.
LEMMA SessionSteps ==
  ASSUME TypeOK, AskedUp, [Next]_vars, ~Restart
  PROVE  /\ \A u \in Users : SessionStep(u)
        
         /\ asked \subseteq asked'
<1>1. CASE UNCHANGED vars
  BY <1>1 DEF vars, SessionStep, TypeOK
<1>2. ASSUME NEW s \in Sockets, NEW u \in Users, NEW role \in Roles, HandleConnection(s, u, role)
      PROVE  (\A v \in Users : SessionStep(v)) /\ asked \subseteq asked'
  BY <1>2 DEF HandleConnection, Opened, SessionStep, HasSession, TypeOK
<1>3. ASSUME NEW s \in Sockets, HandleChatAdmin(s)
      PROVE  (\A v \in Users : SessionStep(v)) /\ asked \subseteq asked'
  <2> DEFINE m == [from |-> "Admin", message |-> Head(up[s]).message, read |-> FALSE]
  <2>1. m \in Message /\ ~m.read
    BY <1>3, AsksFacts DEF HandleChatAdmin, Message, Senders
  <2>2. sessions' = [u \in Users |-> IF HasSession(u) THEN Append(sessions[u], m) ELSE None]
    BY <1>3 DEF HandleChatAdmin
  <2>3. asked' = asked
    BY <1>3 DEF HandleChatAdmin
  <2> HIDE DEF m
  <2> QED BY <2>1, <2>2, <2>3 DEF SessionStep, HasSession
<1>4. ASSUME NEW s \in Sockets, HandleChatClient(s)
      PROVE  (\A v \in Users : SessionStep(v)) /\ asked \subseteq asked'
  <2> DEFINE u == query[s].user
             m == [from |-> u, message |-> Head(up[s]).message, read |-> FALSE]
  <2>1. u \in Users /\ m \in Message /\ ~m.read
    BY <1>4, AsksFacts DEF HandleChatClient, Message, Senders
  <2>2. \/ HasSession(u) /\ sessions' = [sessions EXCEPT ![u] = Append(sessions[u], m)]
        \/ sessions' = sessions
    BY <1>4 DEF HandleChatClient
  <2>3. asked' = asked
    BY <1>4 DEF HandleChatClient
  <2> HIDE DEF m, u
  <2> QED BY <2>1, <2>2, <2>3 DEF SessionStep, HasSession, TypeOK
<1>5. ASSUME NEW s \in Sockets, MarkAsRead(s)
      PROVE  (\A v \in Users : SessionStep(v)) /\ asked \subseteq asked'
  <2> DEFINE u == query[s].user
             sender == Head(up[s]).sender
  <2>1. u \in Users /\ sender \in Senders /\ <<u, sender>> \in asked
    BY <1>5, AsksFacts DEF MarkAsRead
  <2>2. \/ HasSession(u) /\ sessions' = [sessions EXCEPT ![u] = Marked(sessions[u], sender)]
        \/ sessions' = sessions
    BY <1>5 DEF MarkAsRead
  <2>3. asked' = asked
    BY <1>5 DEF MarkAsRead
  <2> HIDE DEF sender, u
  <2> QED BY <2>1, <2>2, <2>3 DEF SessionStep, HasSession, TypeOK
<1>6. ASSUME NEW s \in Sockets, SendChat(s) \/ SendRead(s) \/ Receive(s) \/ Disconnect(s)
      PROVE  (\A v \in Users : SessionStep(v)) /\ asked \subseteq asked'
  BY <1>6 DEF SendChat, SendRead, Ask, Receive, Disconnect, SessionStep, TypeOK
<1> QED BY <1>1, <1>2, <1>3, <1>4, <1>5, <1>6 DEF Next

\* What such a step keeps of a session, and that it is still typed.
LEMMA SessionStepFacts ==
  ASSUME TypeOK, NEW u \in Users, SessionStep(u)
  PROVE  /\ sessions'[u] \in Seq(Message) \cup {None}
         /\ HasSession(u) =>
              /\ sessions'[u] # None
              /\ Len(sessions'[u]) >= Len(sessions[u])
              /\ \A i \in 1..Len(sessions[u]) :
                   /\ sessions'[u][i].message = sessions[u][i].message
                   /\ sessions[u][i].read => sessions'[u][i].read
         /\ \A i \in 1..LengthOf(u)' : sessions'[u][i].read =>
              \/ i \in 1..LengthOf(u) /\ sessions[u][i].read /\ sessions'[u][i].from = sessions[u][i].from
              \/ <<u, sessions'[u][i].from>> \in asked
<1>1. sessions[u] \in Seq(Message) \cup {None}
  BY DEF TypeOK
<1>2. CASE sessions'[u] = sessions[u]
  BY <1>1, <1>2 DEF HasSession, LengthOf, Messages
<1>3. CASE sessions[u] = None /\ sessions'[u] = <<>>
  BY <1>3 DEF HasSession, LengthOf, Messages
<1>4. CASE HasSession(u) /\ \E m \in Message : ~m.read /\ sessions'[u] = Append(sessions[u], m)
  <2>1. PICK m \in Message : ~m.read /\ sessions'[u] = Append(sessions[u], m)
    BY <1>4
  <2>2. sessions[u] \in Seq(Message)
    BY <1>1, <1>4 DEF HasSession
  <2>3. sessions'[u] \in Seq(Message) /\ sessions'[u] # None /\ Len(sessions'[u]) = Len(sessions[u]) + 1
    BY <2>1, <2>2, AppendFacts, NoneAssumption
  <2>4. \A i \in 1..Len(sessions[u]) : sessions'[u][i] = sessions[u][i]
    BY <2>1, <2>2, AppendFacts
  <2>5. sessions'[u][Len(sessions[u]) + 1] = m
    BY <2>1, <2>2, AppendFacts
  <2>6. Len(sessions[u]) \in Nat /\ LengthOf(u) = Len(sessions[u]) /\ LengthOf(u)' = Len(sessions[u]) + 1
    BY <1>4, <2>2, <2>3 DEF LengthOf, Messages, HasSession
  <2>7. \A i \in 1..(Len(sessions[u]) + 1) : i \in 1..Len(sessions[u]) \/ i = Len(sessions[u]) + 1
    BY <2>6
  <2> QED BY <2>1, <2>3, <2>4, <2>5, <2>6, <2>7
<1>5. CASE HasSession(u) /\ \E sender \in Senders :
             <<u, sender>> \in asked /\ sessions'[u] = Marked(sessions[u], sender)
  <2>1. PICK sender \in Senders : <<u, sender>> \in asked /\ sessions'[u] = Marked(sessions[u], sender)
    BY <1>5
  <2>2. sessions[u] \in Seq(Message)
    BY <1>1, <1>5 DEF HasSession
  <2>3. sessions'[u] \in Seq(Message) /\ sessions'[u] # None /\ Len(sessions'[u]) = Len(sessions[u])
    BY <2>1, <2>2, MarkedFacts, NoneAssumption
  <2>4. \A i \in 1..Len(sessions[u]) :
          /\ sessions'[u][i].message = sessions[u][i].message
          /\ sessions'[u][i].from = sessions[u][i].from
          /\ sessions[u][i].read => sessions'[u][i].read
          /\ sessions'[u][i].read => sessions[u][i].read \/ sessions[u][i].from = sender
    BY <2>1, <2>2, MarkedFacts
  <2>5. Len(sessions[u]) \in Nat /\ LengthOf(u) = Len(sessions[u]) /\ LengthOf(u)' = Len(sessions[u])
    BY <1>5, <2>2, <2>3 DEF LengthOf, Messages, HasSession
  <2> QED BY <2>1, <2>3, <2>4, <2>5
<1> QED BY <1>2, <1>3, <1>4, <1>5 DEF SessionStep

\* Type correctness: of the sessions by the lemmas above, of the rest one
\* action at a time.
LEMMA TypeStep == TypeOK /\ AskedUp /\ [Next]_vars => TypeOK'
<1> SUFFICES ASSUME TypeOK, AskedUp, [Next]_vars PROVE TypeOK'
  OBVIOUS
<1> DEFINE Rest ==
      /\ query' \in [Sockets -> [user : Users, role : Roles] \cup {None}]
      /\ open' \subseteq {s \in Sockets : query'[s] # None}
      /\ up' \in [Sockets -> Seq(Request)]
      /\ down' \in [Sockets -> Seq(Event)]
      /\ seen' \in [Sockets -> Seq(Event)]
      /\ since' \in [Sockets -> [Users -> Nat]]
      /\ asked' \subseteq Users \X Senders
      /\ requests' \in 0..MaxRequests /\ restarts' \in 0..MaxRestarts
<1>1. ASSUME Restart PROVE TypeOK'
  BY <1>1, BoundsAssumption DEF Restart, TypeOK
<1>2. CASE UNCHANGED vars
  BY <1>2 DEF vars, TypeOK
<1>3. ASSUME NEW s \in Sockets, NEW u \in Users, NEW role \in Roles, HandleConnection(s, u, role)
      PROVE  Rest
  <2>1. \A v \in Users : LengthOf(v) \in Nat
    BY DEF TypeOK, LengthOf, Messages, HasSession
  <2>2. query' = [query EXCEPT ![s] = [user |-> u, role |-> role]] /\ open' = open \cup {s}
    BY <1>3 DEF HandleConnection, Opened
  <2>3. [user |-> u, role |-> role] \in [user : Users, role : Roles]
    OBVIOUS
  <2>4. query' \in [Sockets -> [user : Users, role : Roles] \cup {None}]
    BY <2>2, <2>3 DEF TypeOK
  <2>5. open' \subseteq {t \in Sockets : query'[t] # None}
    BY <2>2, <2>3, NoneAssumption DEF TypeOK
  <2>6. since' \in [Sockets -> [Users -> Nat]]
    BY <1>3, <2>1 DEF HandleConnection, TypeOK
  <2> QED BY <1>3, <2>4, <2>5, <2>6 DEF HandleConnection, Opened, TypeOK
<1>4. ASSUME NEW s \in Sockets, HandleChatAdmin(s) PROVE Rest
  <2> DEFINE e == [ev |-> "chat", from |-> "Admin", message |-> Head(up[s]).message]
  <2>1. e \in Event /\ up' \in [Sockets -> Seq(Request)]
    BY <1>4, AsksFacts DEF HandleChatAdmin, Event, Senders
  <2>2. PICK room : Emit(room, e)
    BY <1>4 DEF HandleChatAdmin
  <2>3. down' \in [Sockets -> Seq(Event)]
    BY <2>1, <2>2, EmitType
  <2> QED BY <1>4, <2>1, <2>3 DEF HandleChatAdmin, TypeOK
<1>5. ASSUME NEW s \in Sockets, HandleChatClient(s) PROVE Rest
  <2> DEFINE e == [ev |-> "chat", from |-> query[s].user, message |-> Head(up[s]).message]
  <2>1. e \in Event /\ up' \in [Sockets -> Seq(Request)]
    BY <1>5, AsksFacts DEF HandleChatClient, Event, Senders
  <2>2. Emit(Admins, e) \/ down' = down
    BY <1>5 DEF HandleChatClient
  <2>3. down' \in [Sockets -> Seq(Event)]
    BY <2>1, <2>2, EmitType DEF TypeOK
  <2> QED BY <1>5, <2>1, <2>3 DEF HandleChatClient, TypeOK
<1>6. ASSUME NEW s \in Sockets, MarkAsRead(s) PROVE Rest
  <2> DEFINE e == [ev |-> "readUpdate", user |-> query[s].user]
  <2>1. e \in Event /\ up' \in [Sockets -> Seq(Request)]
    BY <1>6, AsksFacts DEF MarkAsRead, Event
  <2>2. Emit(Admins, e) \/ down' = down
    BY <1>6 DEF MarkAsRead
  <2>3. down' \in [Sockets -> Seq(Event)]
    BY <2>1, <2>2, EmitType DEF TypeOK
  <2> QED BY <1>6, <2>1, <2>3 DEF MarkAsRead, TypeOK
<1>7. ASSUME NEW s \in Sockets, SendChat(s) PROVE Rest
  <2>1. [ev |-> "chat", message |-> requests] \in Request
    BY DEF Request, TypeOK
  <2>2. up' \in [Sockets -> Seq(Request)]
    BY <1>7, <2>1 DEF SendChat, Ask, TypeOK
  <2>3. requests' \in 0..MaxRequests
    BY <1>7, BoundsAssumption DEF SendChat, Ask, TypeOK
  <2> QED BY <1>7, <2>2, <2>3 DEF SendChat, Ask, TypeOK
<1>8. ASSUME NEW s \in Sockets, SendRead(s) PROVE Rest
  <2>1. PICK sender \in Senders :
          /\ Ask(s, [ev |-> "markAsRead", sender |-> sender])
          /\ asked' = asked \cup {<<query[s].user, sender>>}
    BY <1>8 DEF SendRead
  <2>2. [ev |-> "markAsRead", sender |-> sender] \in Request
    BY DEF Request
  <2>3. query[s].user \in Users
    BY <2>1 DEF Ask, TypeOK
  <2>4. up' \in [Sockets -> Seq(Request)]
    BY <2>1, <2>2 DEF Ask, TypeOK
  <2>5. requests' \in 0..MaxRequests
    BY <2>1, BoundsAssumption DEF Ask, TypeOK
  <2> QED BY <2>1, <2>3, <2>4, <2>5 DEF Ask, TypeOK
<1>9. ASSUME NEW s \in Sockets, Receive(s) PROVE Rest
  <2>1. down[s] \in Seq(Event) /\ seen[s] \in Seq(Event) /\ down[s] # <<>>
    BY <1>9 DEF Receive, TypeOK
  <2>2. Tail(down[s]) \in Seq(Event) /\ Append(seen[s], Head(down[s])) \in Seq(Event)
    BY <2>1
  <2>3. down' \in [Sockets -> Seq(Event)] /\ seen' \in [Sockets -> Seq(Event)]
    BY <1>9, <2>2 DEF Receive, TypeOK
  <2> QED BY <1>9, <2>3 DEF Receive, TypeOK
<1>11. ASSUME NEW s \in Sockets, Disconnect(s) PROVE Rest
  BY <1>11 DEF Disconnect, TypeOK
<1>10. ASSUME ~Restart, Rest PROVE TypeOK'
  <2>1. \A u \in Users : sessions'[u] \in Seq(Message) \cup {None}
    BY <1>10, SessionSteps, SessionStepFacts
  <2>2. sessions' \in [Users -> Seq(Message) \cup {None}]
    <3>1. sessions' = [u \in Users |-> sessions'[u]]
      BY <1>10 DEF Next, vars, TypeOK, HandleConnection, Opened, HandleChatAdmin, HandleChatClient, MarkAsRead,
                   SendChat, SendRead, Ask, Receive, Disconnect
    <3> QED BY <2>1, <3>1
  <2> QED BY <1>10, <2>2 DEF TypeOK
<1> HIDE DEF Rest
<1> QED BY <1>1, <1>2, <1>3, <1>4, <1>5, <1>6, <1>7, <1>8, <1>9, <1>10, <1>11 DEF Next

\* The requests on their way stay recorded.
LEMMA AskedUpStep == TypeOK /\ AskedUp /\ [Next]_vars => AskedUp'
<1> SUFFICES ASSUME TypeOK, AskedUp, [Next]_vars PROVE AskedUp'
  OBVIOUS
<1>1. CASE Restart
  BY <1>1 DEF Restart, AskedUp
<1>2. CASE UNCHANGED vars
  BY <1>2 DEF vars, AskedUp
<1>3. ASSUME NEW s \in Sockets, NEW u \in Users, NEW role \in Roles, HandleConnection(s, u, role)
      PROVE  AskedUp'
  <2>1. \A t \in Sockets : query[t] # None => query'[t] = query[t]
    BY <1>3 DEF HandleConnection, Opened, TypeOK
  <2>2. up' = up /\ asked' = asked
    BY <1>3 DEF HandleConnection, Opened
  <2> QED BY <2>1, <2>2 DEF AskedUp
<1>4. ASSUME NEW s \in Sockets, HandleChatAdmin(s) \/ HandleChatClient(s) \/ MarkAsRead(s)
      PROVE  AskedUp'
  <2>1. Asks(s, "chat") \/ Asks(s, "markAsRead")
    BY <1>4 DEF HandleChatAdmin, HandleChatClient, MarkAsRead
  <2>2. \A t \in Sockets : \A i \in DOMAIN up'[t] : \E j \in DOMAIN up[t] : up'[t][i] = up[t][j]
    BY <2>1, AsksFacts
  <2>3. query' = query /\ asked' = asked
    BY <1>4 DEF HandleChatAdmin, HandleChatClient, MarkAsRead
  <2> QED BY <2>2, <2>3 DEF AskedUp
<1>5. ASSUME NEW s \in Sockets, NEW r \in Request, Ask(s, r), asked \subseteq asked',
             r.ev = "markAsRead" => <<query[s].user, r.sender>> \in asked'
      PROVE  AskedUp'
  <2>1. up' = [up EXCEPT ![s] = Append(up[s], r)] /\ query' = query /\ query[s] # None
    BY <1>5 DEF Ask, TypeOK
  <2> SUFFICES ASSUME NEW t \in Sockets, NEW i \in DOMAIN up'[t], up'[t][i].ev = "markAsRead"
               PROVE  query[t] # None /\ <<query[t].user, up'[t][i].sender>> \in asked'
    BY <2>1 DEF AskedUp
  <2>2. up[s] \in Seq(Request)
    BY DEF TypeOK
  <2>3. (i \in DOMAIN up[t] /\ up'[t][i] = up[t][i]) \/ (t = s /\ up'[t][i] = r)
    BY <2>1, <2>2 DEF TypeOK
  <2> QED BY <1>5, <2>1, <2>3 DEF AskedUp
<1>6. ASSUME NEW s \in Sockets, SendChat(s) PROVE AskedUp'
  <2> DEFINE r == [ev |-> "chat", message |-> requests]
  <2>1. r \in Request /\ r.ev # "markAsRead"
    BY DEF Request, TypeOK
  <2>2. Ask(s, r) /\ asked \subseteq asked'
    BY <1>6 DEF SendChat
  <2> HIDE DEF r
  <2> QED BY <1>5, <2>1, <2>2
<1>7. ASSUME NEW s \in Sockets, SendRead(s) PROVE AskedUp'
  <2>1. PICK sender \in Senders :
          /\ Ask(s, [ev |-> "markAsRead", sender |-> sender])
          /\ asked' = asked \cup {<<query[s].user, sender>>}
    BY <1>7 DEF SendRead
  <2> DEFINE r == [ev |-> "markAsRead", sender |-> sender]
  <2>2. r \in Request /\ r.sender = sender
    BY DEF Request
  <2>3. Ask(s, r)
    BY <2>1
  <2> HIDE DEF r
  <2> QED BY <1>5, <2>1, <2>2, <2>3
<1>8. ASSUME NEW s \in Sockets, Receive(s) \/ Disconnect(s) PROVE AskedUp'
  <2>1. \A t \in Sockets : up'[t] = up[t] \/ up'[t] = <<>>
    BY <1>8 DEF Receive, Disconnect, TypeOK
  <2>2. query' = query /\ asked' = asked
    BY <1>8 DEF Receive, Disconnect
  <2> QED BY <2>1, <2>2 DEF AskedUp
<1> QED BY <1>1, <1>2, <1>3, <1>4, <1>6, <1>7, <1>8 DEF Next

\* The session of an open socket outlives every step but a restart, and that
\* one closes the socket.
LEMMA SessionStays == IInv /\ [Next]_vars => SessionOfOpen'
<1> SUFFICES ASSUME IInv, [Next]_vars, NEW u \in Users, RoomOf(u)' # {} PROVE HasSession(u)'
  BY DEF SessionOfOpen
<1>1. TypeOK /\ AskedUp /\ SessionOfOpen
  BY DEF IInv
<1>2. ~Restart
  BY DEF Restart, RoomOf
<1>3. CASE HasSession(u)
  BY <1>1, <1>2, <1>3, SessionSteps, SessionStepFacts DEF HasSession
<1>4. CASE ~HasSession(u)
  <2>1. RoomOf(u) = {}
    BY <1>1, <1>4 DEF SessionOfOpen
  <2>2. PICK s \in Sockets, v \in Users, role \in Roles : HandleConnection(s, v, role)
    <3> SUFFICES ASSUME ~\E s \in Sockets, v \in Users, role \in Roles : HandleConnection(s, v, role)
                 PROVE  FALSE
      OBVIOUS
    <3>1. query' = query /\ open' \subseteq open
      BY <1>2 DEF Next, vars, HandleChatAdmin, HandleChatClient, MarkAsRead, SendChat, SendRead, Ask,
                  Receive, Disconnect
    <3> QED BY <2>1, <3>1 DEF RoomOf
  <2>3. v = u /\ role = "client"
    BY <1>1, <2>1, <2>2 DEF HandleConnection, Opened, RoomOf, TypeOK
  <2>4. sessions'[u] = <<>>
    BY <1>1, <1>4, <2>2, <2>3 DEF HandleConnection, Opened, TypeOK, HasSession
  <2>5. <<>> \in Seq(Message)
    OBVIOUS
  <2> QED BY <2>4, <2>5, NoneAssumption DEF HasSession
<1> QED BY <1>3, <1>4

\* Read marks are set only on request.
LEMMA ReadStays == IInv /\ [Next]_vars => ReadWasAsked'
<1> SUFFICES ASSUME IInv, [Next]_vars, NEW u \in Users, NEW i \in 1..LengthOf(u)', sessions'[u][i].read
             PROVE  <<u, sessions'[u][i].from>> \in asked'
  BY DEF ReadWasAsked
<1>1. TypeOK /\ AskedUp /\ ReadWasAsked
  BY DEF IInv
<1>2. ~Restart
  BY DEF Restart, LengthOf, Messages, HasSession
<1>3. SessionStep(u) /\ asked \subseteq asked'
  BY <1>1, <1>2, SessionSteps
<1>4. \/ i \in 1..LengthOf(u) /\ sessions[u][i].read /\ sessions'[u][i].from = sessions[u][i].from
      \/ <<u, sessions'[u][i].from>> \in asked
  BY <1>1, <1>3, SessionStepFacts
<1> QED BY <1>1, <1>3, <1>4 DEF ReadWasAsked

-----------------------------------------------------------------------------
(* Sessions and the pages that follow them.                                *)

\* Mirrors looks only at the places and texts of one sender.
LEMMA MirrorsSame ==
  ASSUME NEW evs, NEW msgs, NEW k, NEW from, Mirrors(evs, msgs, k, from),
         NEW evs2, NEW msgs2,
         Chats(evs2, from) = Chats(evs, from),
         \A j \in Chats(evs, from) : evs2[j].message = evs[j].message,
         Filed(msgs2, k, from) = Filed(msgs, k, from),
         \A i \in Filed(msgs, k, from) : msgs2[i].message = msgs[i].message
  PROVE  Mirrors(evs2, msgs2, k, from)
<1>1. PICK f \in Surjection(Filed(msgs, k, from), Chats(evs, from)) :
        /\ \A i \in Filed(msgs, k, from) : evs[f[i]].message = msgs[i].message
        /\ \A i, j \in Filed(msgs, k, from) : i < j => f[i] < f[j]
  BY DEF Mirrors
<1>2. \A i \in Filed(msgs, k, from) : f[i] \in Chats(evs, from)
  BY <1>1 DEF Surjection
<1>3. \A i \in Filed(msgs, k, from) : evs2[f[i]].message = msgs2[i].message
  BY <1>1, <1>2
<1> QED BY <1>1, <1>3 DEF Mirrors

\* A page starts with nothing to see.
LEMMA MirrorsNothing ==
  ASSUME NEW msgs \in Seq(Message), NEW from
  PROVE  Mirrors(<<>>, msgs, Len(msgs), from)
<1>1. Filed(msgs, Len(msgs), from) = {} /\ Chats(<<>>, from) = {}
  BY DEF Filed, Chats
<1> DEFINE f == [i \in {} |-> i]
<1>2. f \in Surjection({}, {})
  BY DEF Surjection
<1> QED BY <1>1, <1>2 DEF Mirrors

\* The places of a sender after one more event or message.
LEMMA ChatsAppend ==
  ASSUME NEW evs \in Seq(Event), NEW e \in Event, NEW from
  PROVE  Chats(Append(evs, e), from) =
           IF e.ev = "chat" /\ e.from = from THEN Chats(evs, from) \cup {Len(evs) + 1}
           ELSE Chats(evs, from)
<1> DEFINE q == Append(evs, e)
<1>1. /\ DOMAIN q = 1..(Len(evs) + 1) /\ DOMAIN evs = 1..Len(evs) /\ Len(evs) \in Nat
      /\ q[Len(evs) + 1] = e /\ \A i \in 1..Len(evs) : q[i] = evs[i]
  OBVIOUS
<1> HIDE DEF q
<1> QED BY <1>1 DEF Chats

\* A message pushed to a session adds its own place to those of its sender only.
LEMMA FiledAppend ==
  ASSUME NEW msgs \in Seq(Message), NEW m \in Message, NEW k \in Nat, k <= Len(msgs), NEW from
  PROVE  Filed(Append(msgs, m), k, from) =
           IF m.from = from THEN Filed(msgs, k, from) \cup {Len(msgs) + 1}
           ELSE Filed(msgs, k, from)
<1> DEFINE q == Append(msgs, m)
<1>1. /\ DOMAIN q = 1..(Len(msgs) + 1) /\ DOMAIN msgs = 1..Len(msgs) /\ Len(msgs) \in Nat
      /\ q[Len(msgs) + 1] = m /\ \A i \in 1..Len(msgs) : q[i] = msgs[i]
  OBVIOUS
<1> HIDE DEF q
<1> QED BY <1>1 DEF Filed

\* An event that is no chat message of the sender changes nothing ...
LEMMA MirrorsEvent ==
  ASSUME NEW evs \in Seq(Event), NEW msgs, NEW k, NEW from, Mirrors(evs, msgs, k, from),
         NEW e \in Event, ~(e.ev = "chat" /\ e.from = from)
  PROVE  Mirrors(Append(evs, e), msgs, k, from)
<1>1. Chats(Append(evs, e), from) = Chats(evs, from)
  BY ChatsAppend
<1>2. \A j \in Chats(evs, from) : Append(evs, e)[j].message = evs[j].message
  BY DEF Chats
<1> QED BY <1>1, <1>2, MirrorsSame

\* ... nor does a message of another sender, ...
LEMMA MirrorsMessage ==
  ASSUME NEW evs, NEW msgs \in Seq(Message), NEW k \in Nat, k <= Len(msgs), NEW from,
         Mirrors(evs, msgs, k, from), NEW m \in Message, m.from # from
  PROVE  Mirrors(evs, Append(msgs, m), k, from)
<1>1. Filed(Append(msgs, m), k, from) = Filed(msgs, k, from)
  BY FiledAppend
<1>2. \A i \in Filed(msgs, k, from) : Append(msgs, m)[i].message = msgs[i].message
  BY DEF Filed
<1> QED BY <1>1, <1>2, MirrorsSame

\* ... nor do read marks.
LEMMA MirrorsMarked ==
  ASSUME NEW evs, NEW msgs \in Seq(Message), NEW k \in Nat, NEW from,
         Mirrors(evs, msgs, k, from), NEW sender
  PROVE  Mirrors(evs, Marked(msgs, sender), k, from)
<1> DEFINE q == Marked(msgs, sender)
<1>1. /\ DOMAIN q = DOMAIN msgs /\ DOMAIN msgs = 1..Len(msgs)
      /\ \A i \in 1..Len(msgs) : q[i].message = msgs[i].message /\ q[i].from = msgs[i].from
  BY MarkedFacts DEF Marked
<1> HIDE DEF q
<1>2. Filed(q, k, from) = Filed(msgs, k, from)
  BY <1>1 DEF Filed
<1>3. \A i \in Filed(msgs, k, from) : q[i].message = msgs[i].message
  BY <1>1 DEF Filed
<1> QED BY <1>2, <1>3, MirrorsSame DEF q

\* A message of the sender and its event, filed and emitted in one step.
LEMMA MirrorsBoth ==
  ASSUME NEW evs \in Seq(Event), NEW msgs \in Seq(Message), NEW k \in Nat, k <= Len(msgs),
         NEW from, Mirrors(evs, msgs, k, from),
         NEW m \in Message, m.from = from,
         NEW e \in Event, e.ev = "chat", e.from = from, e.message = m.message
  PROVE  Mirrors(Append(evs, e), Append(msgs, m), k, from)
<1> DEFINE A == Filed(msgs, k, from)
           B == Chats(evs, from)
           n == Len(msgs) + 1
           l == Len(evs) + 1
           evs2 == Append(evs, e)
           msgs2 == Append(msgs, m)
<1>1. PICK f \in Surjection(A, B) :
        /\ \A i \in A : evs[f[i]].message = msgs[i].message
        /\ \A i, j \in A : i < j => f[i] < f[j]
  BY DEF Mirrors
<1>2. Filed(msgs2, k, from) = A \cup {n} /\ Chats(evs2, from) = B \cup {l}
  BY ChatsAppend, FiledAppend
<1>3. /\ n \in Nat /\ l \in Nat /\ \A i \in A : i \in Nat /\ i < n
      /\ \A j \in B : j \in Nat /\ j < l
  BY DEF Filed, Chats
<1>4. /\ \A i \in A : msgs2[i] = msgs[i] /\ \A j \in B : evs2[j] = evs[j]
      /\ msgs2[n] = m /\ evs2[l] = e
  BY DEF Filed, Chats
<1>5. f \in [A -> B] /\ \A j \in B : \E i \in A : f[i] = j
  BY DEF Surjection
<1> DEFINE g == [i \in A \cup {n} |-> IF i = n THEN l ELSE f[i]]
<1> HIDE DEF A, B, n, l, evs2, msgs2
<1>6. g[n] = l /\ \A i \in A : g[i] = f[i] /\ f[i] \in B
  BY <1>3, <1>5
<1>7. g \in Surjection(A \cup {n}, B \cup {l})
  <2>1. g \in [A \cup {n} -> B \cup {l}]
    BY <1>5
  <2>2. \A j \in B \cup {l} : \E i \in A \cup {n} : g[i] = j
    BY <1>5, <1>6
  <2> HIDE DEF g
  <2> QED BY <2>1, <2>2 DEF Surjection
<1> HIDE DEF g
<1>8. \A i \in A \cup {n} : evs2[g[i]].message = msgs2[i].message
  BY <1>1, <1>4, <1>6
<1>9. \A i, j \in A \cup {n} : i < j => g[i] < g[j]
  BY <1>1, <1>3, <1>6
<1> QED BY <1>2, <1>7, <1>8, <1>9 DEF Mirrors, evs2, msgs2

\* Emitting appends to the streams of a room.
LEMMA StreamEmit ==
  ASSUME TypeOK, NEW room, NEW e \in Event, Emit(room, e), seen' = seen, NEW s \in Sockets
  PROVE  Stream(s)' = IF s \in room THEN Append(Stream(s), e) ELSE Stream(s)
<1>1. seen[s] \in Seq(Event) /\ down[s] \in Seq(Event)
  BY DEF TypeOK
<1>2. seen[s] \o Append(down[s], e) = Append(seen[s] \o down[s], e)
  <2> DEFINE sn == seen[s]
             dn == down[s]
             one == <<e>>
  <2>1. sn \in Seq(Event) /\ dn \in Seq(Event) /\ one \in Seq(Event) /\ sn \o dn \in Seq(Event)
    BY <1>1
  <2>2. Append(dn, e) = dn \o one /\ Append(sn \o dn, e) = (sn \o dn) \o one
    BY <2>1, AppendIsConcat
  <2>3. (sn \o dn) \o one = sn \o (dn \o one)
    <3> HIDE DEF sn, dn, one
    <3> QED BY <2>1, ConcatAssociative
  <2> QED BY <2>2, <2>3
<1>3. down'[s] = IF s \in room THEN Append(down[s], e) ELSE down[s]
  BY DEF Emit
<1> QED BY <1>2, <1>3 DEF Stream

\* Receiving leaves the stream as it is.
LEMMA StreamReceive ==
  ASSUME TypeOK, NEW s \in Sockets, Receive(s), NEW t \in Sockets
  PROVE  Stream(t)' = Stream(t)
<1> DEFINE sn == seen[s]
           dn == down[s]
<1>1. sn \in Seq(Event) /\ dn \in Seq(Event) /\ dn # <<>>
  BY DEF TypeOK, Receive
<1>2. Append(sn, Head(dn)) \o Tail(dn) = sn \o dn
  <2> HIDE DEF sn, dn
  <2>1. Head(dn) \in Event /\ Tail(dn) \in Seq(Event) /\ <<Head(dn)>> \in Seq(Event)
    BY <1>1
  <2>2. Append(sn, Head(dn)) = sn \o <<Head(dn)>>
    BY <1>1, <2>1, AppendIsConcat
  <2>3. (sn \o <<Head(dn)>>) \o Tail(dn) = sn \o (<<Head(dn)>> \o Tail(dn))
    BY <1>1, <2>1, ConcatAssociative
  <2>4. <<Head(dn)>> \o Tail(dn) = dn
    <3> DEFINE c == <<Head(dn)>> \o Tail(dn)
    <3>1. Len(dn) \in Nat /\ Len(dn) >= 1 /\ Len(Tail(dn)) = Len(dn) - 1 /\ Head(dn) = dn[1]
      BY <1>1
    <3>2. \A i \in 1..Len(Tail(dn)) : Tail(dn)[i] = dn[i + 1]
      BY <1>1, HeadTailProperties
    <3>3. /\ c \in Seq(Event) /\ Len(c) = 1 + Len(Tail(dn)) /\ c[1] = Head(dn)
          /\ \A i \in 2..Len(dn) : c[i] = Tail(dn)[i - 1]
      BY <2>1, <3>1
    <3> HIDE DEF c
    <3>4. \A i \in 2..Len(dn) : c[i] = dn[i]
      BY <3>1, <3>2, <3>3
    <3>5. \A i \in 1..Len(c) : c[i] = dn[i]
      BY <3>1, <3>3, <3>4
    <3> QED BY <1>1, <3>1, <3>3, <3>5, SeqEqual DEF c
  <2> QED BY <2>2, <2>3, <2>4
<1>3. /\ seen' = [seen EXCEPT ![s] = Append(sn, Head(dn))]
      /\ down' = [down EXCEPT ![s] = Tail(dn)]
  BY DEF Receive
<1>4. CASE t = s
  BY <1>2, <1>3, <1>4 DEF Stream, TypeOK
<1>5. CASE t # s
  BY <1>3, <1>5 DEF Stream, TypeOK
<1> QED BY <1>4, <1>5

\* What the invariants about pages say of one open socket.
Follows(s) ==
  /\ query[s].role = "client" =>
       /\ Mirrors(Stream(s), Messages(query[s].user), since[s][query[s].user], "Admin")
       /\ \A u \in Users : Chats(Stream(s), u) = {}
  /\ query[s].role = "admin" => \A u \in Users : Mirrors(Stream(s), Messages(u), since[s][u], u)

\* The two delivery properties, socket by socket.
LEMMA FollowsAll == (ClientSeesSession /\ AdminSeesSessions) <=> \A s \in open : Follows(s)
  BY DEF ClientSeesSession, AdminSeesSessions, Admins, Follows

\* Sessions and streams are sequences, and a session covers what was there
\* when an open socket connected.
LEMMA FollowTypes ==
  ASSUME TypeOK, SinceOK
  PROVE  /\ \A u \in Users : Messages(u) \in Seq(Message) /\ LengthOf(u) \in Nat
         /\ \A s \in Sockets : Stream(s) \in Seq(Event)
         /\ \A s \in open : /\ s \in Sockets /\ query[s] \in [user : Users, role : Roles]
                            /\ \A u \in Users : /\ since[s][u] \in Nat
                                                /\ since[s][u] <= Len(Messages(u))
<1>1. \A u \in Users : Messages(u) \in Seq(Message) /\ LengthOf(u) \in Nat
  BY DEF TypeOK, Messages, LengthOf, HasSession
<1>2. \A s \in Sockets : Stream(s) \in Seq(Event)
  BY DEF TypeOK, Stream
<1> QED BY <1>1, <1>2 DEF TypeOK, SinceOK, LengthOf

\* A socket follows its sessions as long as neither it nor they change.
LEMMA FollowsSame ==
  ASSUME NEW s, Follows(s), query'[s] = query[s], since'[s] = since[s],
         query[s].user \in Users, Stream(s)' = Stream(s),
         \A u \in Users : Messages(u)' = Messages(u)
  PROVE  Follows(s)'
  BY DEF Follows

\* A connection starts with an empty stream at the present end of the sessions.
LEMMA FollowConnection ==
  ASSUME IInv, NEW s \in Sockets, NEW u \in Users, NEW role \in Roles, HandleConnection(s, u, role)
  PROVE  \A t \in open' : Follows(t)'
<1>1. TypeOK /\ SinceOK /\ UnusedOK /\ \A t \in open : Follows(t)
  BY FollowsAll DEF IInv
<1>2. /\ query[s] = None /\ query' = [query EXCEPT ![s] = [user |-> u, role |-> role]]
      /\ open' = open \cup {s} /\ since' = [since EXCEPT ![s] = [v \in Users |-> LengthOf(v)]]
      /\ seen' = seen /\ down' = down
  BY DEF HandleConnection, Opened
<1>3. \A v \in Users : Messages(v)' = Messages(v)
  <2>1. <<>> # None
    <3>1. <<>> \in Seq(Message)
      OBVIOUS
    <3> QED BY <3>1, NoneAssumption
  <2> QED BY <1>1, <2>1 DEF HandleConnection, Opened, Messages, HasSession, TypeOK
<1>4. \A t \in Sockets : Stream(t)' = Stream(t)
  BY <1>2 DEF Stream
<1>5. s \notin open
  BY <1>1, <1>2 DEF TypeOK
<1>6. ASSUME NEW t \in open PROVE Follows(t)'
  <2>1. t \in Sockets /\ t # s /\ query[t].user \in Users
    BY <1>1, <1>5, FollowTypes
  <2>2. query'[t] = query[t] /\ since'[t] = since[t]
    BY <1>1, <1>2, <2>1 DEF TypeOK
  <2> QED BY <1>1, <1>3, <1>4, <2>1, <2>2, FollowsSame
<1>7. Follows(s)'
  <2>1. Stream(s) = <<>>
    BY <1>1, <1>2 DEF UnusedOK, Stream
  <2>2. query'[s] = [user |-> u, role |-> role] /\ \A v \in Users : since'[s][v] = Len(Messages(v))
    BY <1>1, <1>2 DEF TypeOK, LengthOf
  <2>3. \A v \in Users, from \in Senders : Mirrors(<<>>, Messages(v), Len(Messages(v)), from)
    BY <1>1, FollowTypes, MirrorsNothing
  <2>4. \A v \in Users : Chats(<<>>, v) = {}
    BY DEF Chats
  <2> QED BY <1>3, <1>4, <2>1, <2>2, <2>3, <2>4 DEF Follows, Senders
<1> QED BY <1>2, <1>6, <1>7

\* handleChat of an administrator files and emits together, for client users
\* only.
LEMMA FollowChatAdmin ==
  ASSUME IInv, NEW s \in Sockets, HandleChatAdmin(s)
  PROVE  \A t \in open' : Follows(t)'
<1> DEFINE txt == Head(up[s]).message
           m == [from |-> "Admin", message |-> txt, read |-> FALSE]
           e == [ev |-> "chat", from |-> "Admin", message |-> txt]
           room == UNION {RoomOf(u) : u \in {v \in Users : HasSession(v)}}
<1>1. TypeOK /\ SinceOK /\ AskedUp /\ SessionOfOpen /\ \A t \in open : Follows(t)
  BY FollowsAll DEF IInv
<1>2. /\ query' = query /\ open' = open /\ since' = since /\ seen' = seen
      /\ sessions' = [u \in Users |-> IF HasSession(u) THEN Append(sessions[u], m) ELSE None]
      /\ Emit(room, e)
  BY DEF HandleChatAdmin
<1>3. m \in Message /\ e \in Event /\ m.from = "Admin" /\ m.message = e.message
      /\ e.ev = "chat" /\ e.from = "Admin"
  BY <1>1, AsksFacts DEF HandleChatAdmin, Message, Event, Senders
<1>4. \A u \in Users : Messages(u)' = IF HasSession(u) THEN Append(Messages(u), m) ELSE Messages(u)
  <2> HIDE DEF m
  <2>1. ASSUME NEW u \in Users, HasSession(u) PROVE Append(sessions[u], m) # None
    <3>1. sessions[u] \in Seq(Message)
      BY <1>1, <2>1 DEF TypeOK, HasSession
    <3> QED BY <1>3, <3>1, AppendFacts, NoneAssumption
  <2> QED BY <1>2, <2>1 DEF Messages, HasSession
<1>5. \A u \in Users : "Admin" # u
  BY SenderAssumption
<1> SUFFICES ASSUME NEW t \in open PROVE Follows(t)'
  BY <1>2
<1>6. /\ t \in Sockets /\ query[t] \in [user : Users, role : Roles] /\ Stream(t) \in Seq(Event)
      /\ \A u \in Users : /\ Messages(u) \in Seq(Message) /\ since[t][u] \in Nat
                          /\ since[t][u] <= Len(Messages(u))
  BY <1>1, FollowTypes
<1>7. Stream(t)' = IF t \in room THEN Append(Stream(t), e) ELSE Stream(t)
  BY <1>1, <1>2, <1>3, <1>6, StreamEmit
<1>8. CASE query[t].role = "client"
  <2> PICK u \in Users : u = query[t].user
    BY <1>6
  <2>1. t \in RoomOf(u)
    BY <1>6, <1>8 DEF RoomOf
  <2>2. HasSession(u)
    BY <1>1, <2>1 DEF SessionOfOpen
  <2>3. t \in room
    BY <2>1, <2>2
  <2>4. Mirrors(Stream(t), Messages(u), since[t][u], "Admin") /\ \A v \in Users : Chats(Stream(t), v) = {}
    BY <1>1, <1>8 DEF Follows
  <2> HIDE DEF m, e, room
  <2>5. Mirrors(Append(Stream(t), e), Append(Messages(u), m), since[t][u], "Admin")
    BY <1>3, <1>6, <2>1, <2>4, MirrorsBoth
  <2>6. \A v \in Users : Chats(Append(Stream(t), e), v) = {}
    BY <1>3, <1>5, <1>6, <2>4, ChatsAppend
  <2>7. Messages(u)' = Append(Messages(u), m) /\ Stream(t)' = Append(Stream(t), e)
    BY <1>4, <1>7, <2>1, <2>2, <2>3
  <2>8. query'[t].role = "client" /\ query'[t].user = u /\ since'[t][u] = since[t][u]
    BY <1>2, <1>8
  <2> QED BY <2>5, <2>6, <2>7, <2>8 DEF Follows
<1>9. CASE query[t].role = "admin"
  <2>1. t \notin room
    <3> SUFFICES ASSUME NEW u \in Users, query[t] = [user |-> u, role |-> "client"] PROVE FALSE
      BY DEF RoomOf
    <3> QED BY <1>9
  <2> HIDE DEF m, e, room
  <2>2. ASSUME NEW u \in Users PROVE Mirrors(Stream(t), Messages(u)', since[t][u], u)
    <3>1. Mirrors(Stream(t), Messages(u), since[t][u], u)
      BY <1>1, <1>9 DEF Follows
    <3>2. Mirrors(Stream(t), Append(Messages(u), m), since[t][u], u)
      BY <1>3, <1>5, <1>6, <3>1, MirrorsMessage
    <3> QED BY <1>4, <3>1, <3>2
  <2>3. Stream(t)' = Stream(t) /\ query'[t].role = "admin" /\ since'[t] = since[t]
    BY <1>2, <1>7, <1>9, <2>1
  <2> QED BY <2>2, <2>3 DEF Follows
<1> QED BY <1>6, <1>8, <1>9 DEF Roles

\* handleChat of a client user files and emits together, for administrators
\* only.
LEMMA FollowChatClient ==
  ASSUME IInv, NEW s \in Sockets, HandleChatClient(s)
  PROVE  \A t \in open' : Follows(t)'
<1>1. TypeOK /\ SinceOK /\ AskedUp /\ SessionOfOpen /\ \A t \in open : Follows(t)
  BY FollowsAll DEF IInv
<1>2. s \in open /\ query[s] \in [user : Users, role : Roles] /\ query[s].role = "client"
      /\ Head(up[s]).message \in Nat
  BY <1>1, AsksFacts DEF HandleChatClient, Asks
<1>3. PICK w \in Users, txt \in Nat : w = query[s].user /\ txt = Head(up[s]).message
  BY <1>2
<1> DEFINE m == [from |-> w, message |-> txt, read |-> FALSE]
           e == [ev |-> "chat", from |-> w, message |-> txt]
<1>4. HasSession(w)
  BY <1>1, <1>2, <1>3 DEF SessionOfOpen, RoomOf
<1>5. /\ query' = query /\ open' = open /\ since' = since /\ seen' = seen
      /\ sessions' = [sessions EXCEPT ![w] = Append(sessions[w], m)]
      /\ Emit(Admins, e)
  BY <1>3, <1>4 DEF HandleChatClient
<1>6. m \in Message /\ e \in Event /\ m.from = w /\ m.message = e.message
      /\ e.ev = "chat" /\ e.from = w
  BY DEF Message, Event, Senders
<1> HIDE DEF m, e
<1>7. \A u \in Users : Messages(u)' = IF u = w THEN Append(Messages(u), m) ELSE Messages(u)
  <2>1. sessions[w] \in Seq(Message)
    BY <1>1, <1>4 DEF TypeOK, HasSession
  <2>2. Append(sessions[w], m) # None
    BY <1>6, <2>1, AppendFacts, NoneAssumption
  <2>3. \A u \in Users : sessions'[u] = IF u = w THEN Append(sessions[w], m) ELSE sessions[u]
    BY <1>1, <1>5 DEF TypeOK
  <2> QED BY <1>4, <2>2, <2>3 DEF Messages, HasSession
<1>8. "Admin" # w
  BY SenderAssumption
<1> SUFFICES ASSUME NEW t \in open PROVE Follows(t)'
  BY <1>5
<1>9. /\ t \in Sockets /\ query[t] \in [user : Users, role : Roles] /\ Stream(t) \in Seq(Event)
      /\ \A u \in Users : /\ Messages(u) \in Seq(Message) /\ since[t][u] \in Nat
                          /\ since[t][u] <= Len(Messages(u))
  BY <1>1, FollowTypes
<1>10. Stream(t)' = IF t \in Admins THEN Append(Stream(t), e) ELSE Stream(t)
  BY <1>1, <1>5, <1>6, <1>9, StreamEmit
<1>11. CASE query[t].role = "client"
  <2> PICK u \in Users : u = query[t].user
    BY <1>9
  <2>1. Mirrors(Stream(t), Messages(u), since[t][u], "Admin") /\ \A v \in Users : Chats(Stream(t), v) = {}
    BY <1>1, <1>11 DEF Follows
  <2>2. Mirrors(Stream(t), Append(Messages(u), m), since[t][u], "Admin")
    BY <1>6, <1>8, <1>9, <2>1, MirrorsMessage
  <2>3. Mirrors(Stream(t), Messages(u)', since[t][u], "Admin")
    BY <1>7, <2>1, <2>2
  <2>4. Stream(t)' = Stream(t)
    BY <1>10, <1>11 DEF Admins
  <2>5. query'[t].role = "client" /\ query'[t].user = u /\ since'[t][u] = since[t][u]
    BY <1>5, <1>11
  <2> QED BY <2>1, <2>3, <2>4, <2>5 DEF Follows
<1>12. CASE query[t].role = "admin"
  <2>1. Stream(t)' = Append(Stream(t), e)
    BY <1>10, <1>12 DEF Admins
  <2>2. ASSUME NEW u \in Users PROVE Mirrors(Append(Stream(t), e), Messages(u)', since[t][u], u)
    <3>1. Mirrors(Stream(t), Messages(u), since[t][u], u)
      BY <1>1, <1>12 DEF Follows
    <3>2. CASE u = w
      <4>1. Mirrors(Append(Stream(t), e), Append(Messages(u), m), since[t][u], u)
        BY <1>6, <1>9, <3>1, <3>2, MirrorsBoth
      <4> QED BY <1>7, <3>2, <4>1
    <3>3. CASE u # w
      <4>1. Mirrors(Append(Stream(t), e), Messages(u), since[t][u], u)
        BY <1>6, <1>9, <3>1, <3>3, MirrorsEvent
      <4> QED BY <1>7, <3>3, <4>1
    <3> QED BY <3>2, <3>3
  <2>3. query'[t].role = "admin" /\ since'[t] = since[t]
    BY <1>5, <1>12
  <2> QED BY <2>1, <2>2, <2>3 DEF Follows
<1> QED BY <1>9, <1>11, <1>12 DEF Roles

\* markAsRead changes no text, and its event is no chat message.
LEMMA FollowMark ==
  ASSUME IInv, NEW s \in Sockets, MarkAsRead(s)
  PROVE  \A t \in open' : Follows(t)'
<1>1. TypeOK /\ SinceOK /\ AskedUp /\ SessionOfOpen /\ \A t \in open : Follows(t)
  BY FollowsAll DEF IInv
<1>2. query[s] \in [user : Users, role : Roles] /\ Head(up[s]).sender \in Senders
  BY <1>1, AsksFacts DEF MarkAsRead
<1>3. PICK w \in Users, sender \in Senders : w = query[s].user /\ sender = Head(up[s]).sender
  BY <1>2
<1> DEFINE e == [ev |-> "readUpdate", user |-> w]
<1>4. query' = query /\ open' = open /\ since' = since /\ seen' = seen
  BY DEF MarkAsRead
<1>5. e \in Event /\ e.ev # "chat"
  BY DEF Event
<1>6. CASE ~HasSession(w)
  <2>1. sessions' = sessions /\ down' = down
    BY <1>3, <1>6 DEF MarkAsRead
  <2>2. \A u \in Users : Messages(u)' = Messages(u)
    BY <2>1 DEF Messages, HasSession
  <2>3. \A t \in Sockets : Stream(t)' = Stream(t)
    BY <1>4, <2>1 DEF Stream
  <2>4. \A t \in open : t \in Sockets /\ query[t].user \in Users
    BY <1>1, FollowTypes
  <2> QED BY <1>1, <1>4, <2>2, <2>3, <2>4, FollowsSame
<1>7. CASE HasSession(w)
  <2>1. sessions' = [sessions EXCEPT ![w] = Marked(sessions[w], sender)] /\ Emit(Admins, e)
    BY <1>3, <1>7 DEF MarkAsRead
  <2> HIDE DEF e
  <2>2. \A u \in Users : Messages(u)' = IF u = w THEN Marked(Messages(u), sender) ELSE Messages(u)
    <3>1. sessions[w] \in Seq(Message)
      BY <1>1, <1>7 DEF TypeOK, HasSession
    <3>2. Marked(sessions[w], sender) # None
      BY <3>1, MarkedFacts, NoneAssumption
    <3>3. \A u \in Users : sessions'[u] = IF u = w THEN Marked(sessions[w], sender) ELSE sessions[u]
      BY <1>1, <2>1 DEF TypeOK
    <3> QED BY <1>7, <3>2, <3>3 DEF Messages, HasSession
  <2> SUFFICES ASSUME NEW t \in open PROVE Follows(t)'
    BY <1>4
  <2>3. /\ t \in Sockets /\ query[t] \in [user : Users, role : Roles] /\ Stream(t) \in Seq(Event)
        /\ \A u \in Users : Messages(u) \in Seq(Message) /\ since[t][u] \in Nat
    BY <1>1, FollowTypes
  <2>4. Stream(t)' = IF t \in Admins THEN Append(Stream(t), e) ELSE Stream(t)
    BY <1>1, <1>4, <1>5, <2>1, <2>3, StreamEmit
  <2>5. ASSUME NEW u \in Users, NEW from, Mirrors(Stream(t), Messages(u), since[t][u], from)
        PROVE  Mirrors(Stream(t)', Messages(u)', since[t][u], from)
    <3>1. Mirrors(Stream(t), Messages(u)', since[t][u], from)
      BY <2>2, <2>3, <2>5, MirrorsMarked
    <3> DEFINE q == Messages(u)'
    <3> HIDE DEF q
    <3>2. Mirrors(Append(Stream(t), e), q, since[t][u], from)
      BY <1>5, <2>3, <3>1, MirrorsEvent DEF q
    <3> QED BY <2>4, <3>1, <3>2 DEF q
  <2>6. CASE query[t].role = "client"
    <3> PICK u \in Users : u = query[t].user
      BY <2>3
    <3>1. Mirrors(Stream(t), Messages(u), since[t][u], "Admin") /\ \A v \in Users : Chats(Stream(t), v) = {}
      BY <1>1, <2>6 DEF Follows
    <3>2. Stream(t)' = Stream(t)
      BY <2>4, <2>6 DEF Admins
    <3>3. Mirrors(Stream(t)', Messages(u)', since[t][u], "Admin")
      BY <2>5, <3>1
    <3>4. query'[t].role = "client" /\ query'[t].user = u /\ since'[t][u] = since[t][u]
      BY <1>4, <2>6
    <3> QED BY <3>1, <3>2, <3>3, <3>4 DEF Follows
  <2>7. CASE query[t].role = "admin"
    <3>1. \A u \in Users : Mirrors(Stream(t)', Messages(u)', since[t][u], u)
      BY <1>1, <2>5, <2>7 DEF Follows
    <3>2. query'[t].role = "admin" /\ since'[t] = since[t]
      BY <1>4, <2>7
    <3> QED BY <3>1, <3>2 DEF Follows
  <2> QED BY <2>3, <2>6, <2>7 DEF Roles
<1> QED BY <1>6, <1>7

\* The other steps leave sessions, and the streams of sockets that stay open,
\* as they are.
LEMMA FollowRest ==
  ASSUME IInv, NEW s \in Sockets,
         \/ SendChat(s) \/ SendRead(s) \/ Receive(s) \/ Disconnect(s) \/ UNCHANGED vars
  PROVE  \A t \in open' : Follows(t)'
<1>1. TypeOK /\ SinceOK /\ \A t \in open : Follows(t)
  BY FollowsAll DEF IInv
<1>2. sessions' = sessions /\ query' = query /\ since' = since /\ open' \subseteq open
  BY DEF SendChat, SendRead, Ask, Receive, Disconnect, vars
<1>3. \A u \in Users : Messages(u)' = Messages(u)
  BY <1>2 DEF Messages, HasSession
<1> SUFFICES ASSUME NEW t \in open' PROVE Follows(t)'
  OBVIOUS
<1>4. t \in open /\ t \in Sockets /\ query[t].user \in Users
  BY <1>1, <1>2, FollowTypes
<1>5. Stream(t)' = Stream(t)
  <2>1. CASE Receive(s)
    BY <1>1, <1>4, <2>1, StreamReceive
  <2>2. CASE Disconnect(s)
    BY <1>1, <1>4, <2>2 DEF Disconnect, Stream, TypeOK
  <2>3. CASE SendChat(s) \/ SendRead(s) \/ UNCHANGED vars
    BY <2>3 DEF SendChat, SendRead, Ask, vars, Stream
  <2> QED BY <2>1, <2>2, <2>3
<1> QED BY <1>1, <1>2, <1>3, <1>4, <1>5, FollowsSame

\* Every step keeps the pages in step with the sessions.
LEMMA PagesFollow == IInv /\ [Next]_vars => (ClientSeesSession /\ AdminSeesSessions)'
<1> SUFFICES ASSUME IInv, [Next]_vars PROVE \A t \in open' : Follows(t)'
  BY DEF ClientSeesSession, AdminSeesSessions, Admins, Follows
<1>1. CASE Restart
  BY <1>1 DEF Restart
<1>2. CASE UNCHANGED vars
  <2>1. ASSUME NEW t \in open' PROVE Follows(t)'
    <3>1. t \in Sockets
      BY <1>2 DEF vars, IInv, TypeOK
    <3> QED BY <1>2, <2>1, <3>1, FollowRest
  <2> QED BY <2>1
<1> QED BY <1>1, <1>2, FollowConnection, FollowChatAdmin, FollowChatClient, FollowMark, FollowRest
    DEF Next

\* Sessions do not shrink under an open socket.
LEMMA SinceStays == IInv /\ [Next]_vars => SinceOK'
<1> SUFFICES ASSUME IInv, [Next]_vars, NEW s \in open', NEW u \in Users
             PROVE  since'[s][u] <= LengthOf(u)'
  BY DEF SinceOK
<1>1. TypeOK /\ AskedUp /\ SinceOK
  BY DEF IInv
<1>2. ~Restart
  BY DEF Restart
<1>3. LengthOf(u) \in Nat /\ LengthOf(u)' \in Nat /\ LengthOf(u)' >= LengthOf(u)
  <2>1. SessionStep(u)
    BY <1>1, <1>2, SessionSteps
  <2>2. sessions[u] \in Seq(Message) \cup {None} /\ sessions'[u] \in Seq(Message) \cup {None}
    BY <1>1, <2>1, SessionStepFacts DEF TypeOK
  <2>3. HasSession(u) => sessions'[u] # None /\ Len(sessions'[u]) >= Len(sessions[u])
    BY <1>1, <2>1, SessionStepFacts
  <2> QED BY <2>2, <2>3 DEF LengthOf, Messages, HasSession
<1>4. CASE s \in open /\ since' = since
  BY <1>1, <1>3, <1>4 DEF SinceOK, TypeOK
<1>5. ASSUME NEW t \in Sockets, NEW v \in Users, NEW role \in Roles, HandleConnection(t, v, role)
      PROVE  since'[s][u] <= LengthOf(u)'
  <2>1. since' = [since EXCEPT ![t] = [w \in Users |-> LengthOf(w)]] /\ open' = open \cup {t}
    BY <1>5 DEF HandleConnection, Opened
  <2>2. CASE s = t
    <3>1. since'[s][u] = LengthOf(u)
      BY <1>1, <2>1, <2>2 DEF TypeOK
    <3> QED BY <1>3, <3>1
  <2>3. CASE s # t
    <3>1. s \in open /\ since'[s][u] = since[s][u] /\ since[s][u] \in Nat
      BY <1>1, <2>1, <2>3 DEF TypeOK
    <3> QED BY <1>1, <1>3, <3>1 DEF SinceOK
  <2> QED BY <2>2, <2>3
<1>6. ASSUME NEW t \in Sockets,
             \/ HandleChatAdmin(t) \/ HandleChatClient(t) \/ MarkAsRead(t)
             \/ SendChat(t) \/ SendRead(t) \/ Receive(t) \/ Disconnect(t)
      PROVE  s \in open /\ since' = since
  BY <1>6 DEF HandleChatAdmin, HandleChatClient, MarkAsRead, SendChat, SendRead, Ask, Receive, Disconnect
<1>7. UNCHANGED vars => s \in open /\ since' = since
  BY DEF vars
<1> QED BY <1>2, <1>4, <1>5, <1>6, <1>7 DEF Next

\* A socket that has not connected gets nothing.
LEMMA UnusedStays == IInv /\ [Next]_vars => UnusedOK'
<1> SUFFICES ASSUME IInv, [Next]_vars, NEW s \in Sockets, query'[s] = None
             PROVE  seen'[s] = <<>> /\ down'[s] = <<>>
  BY DEF UnusedOK
<1>1. TypeOK /\ UnusedOK
  BY DEF IInv
<1>2. query[s] = None /\ s \notin open
  <2>1. ASSUME NEW t \in Sockets, NEW v \in Users, NEW role \in Roles, HandleConnection(t, v, role)
        PROVE  query[s] = None
    BY <1>1, <2>1 DEF HandleConnection, Opened, TypeOK
  <2>2. query[s] = None
    BY <2>1 DEF Next, vars, Restart, HandleChatAdmin, HandleChatClient, MarkAsRead, SendChat, SendRead,
                Ask, Receive, Disconnect
  <2> QED BY <1>1, <2>2 DEF TypeOK
<1>3. seen[s] = <<>> /\ down[s] = <<>>
  BY <1>1, <1>2 DEF UnusedOK
<1>4. ASSUME NEW room, NEW e, room \subseteq open, Emit(room, e), seen' = seen
      PROVE  seen'[s] = <<>> /\ down'[s] = <<>>
  BY <1>2, <1>3, <1>4 DEF Emit
<1>5. ASSUME NEW t \in Sockets, HandleChatAdmin(t)
      PROVE  seen'[s] = <<>> /\ down'[s] = <<>>
  <2> DEFINE room == UNION {RoomOf(u) : u \in {v \in Users : HasSession(v)}}
  <2>1. room \subseteq open
    BY DEF RoomOf
  <2>2. PICK e : Emit(room, e)
    BY <1>5 DEF HandleChatAdmin
  <2>3. seen' = seen
    BY <1>5 DEF HandleChatAdmin
  <2> HIDE DEF room
  <2> QED BY <1>4, <2>1, <2>2, <2>3
<1>6. ASSUME NEW t \in Sockets, HandleChatClient(t) \/ MarkAsRead(t)
      PROVE  seen'[s] = <<>> /\ down'[s] = <<>>
  <2>1. Admins \subseteq open /\ seen' = seen
    BY <1>6 DEF Admins, HandleChatClient, MarkAsRead
  <2>2. down' = down \/ \E e : Emit(Admins, e)
    BY <1>6 DEF HandleChatClient, MarkAsRead
  <2> QED BY <1>3, <1>4, <2>1, <2>2
<1>7. ASSUME NEW t \in Sockets, Receive(t) \/ Disconnect(t)
      PROVE  seen'[s] = <<>> /\ down'[s] = <<>>
  <2>1. t # s
    BY <1>2, <1>7 DEF Receive, Disconnect
  <2> QED BY <1>1, <1>3, <1>7, <2>1 DEF Receive, Disconnect, TypeOK
<1>8. CASE UNCHANGED vars
  BY <1>3, <1>8 DEF vars
<1>9. CASE Restart
  BY <1>3, <1>9 DEF Restart
<1>10. ASSUME NEW t \in Sockets,
              \/ SendChat(t) \/ SendRead(t)
              \/ \E u \in Users, role \in Roles : HandleConnection(t, u, role)
       PROVE  seen' = seen /\ down' = down
  BY <1>10 DEF SendChat, SendRead, Ask, HandleConnection, Opened
<1> QED BY <1>3, <1>5, <1>6, <1>7, <1>8, <1>9, <1>10 DEF Next

\* The inductive invariant holds in every reachable state of the gateway.
THEOREM Inductive == Spec => []IInv
<1>1. Init => IInv
  BY BoundsAssumption DEF Init, IInv, TypeOK, SessionOfOpen, AskedUp, ReadWasAsked, RoomOf, LengthOf,
     Messages, HasSession, SinceOK, UnusedOK, ClientSeesSession, AdminSeesSessions, Admins
<1>2. IInv /\ [Next]_vars => IInv'
  BY TypeStep, AskedUpStep, SessionStays, ReadStays, SinceStays, UnusedStays, PagesFollow DEF IInv
<1> QED BY <1>1, <1>2, PTL DEF Spec

\* The sessions, sockets and events of the gateway keep their types.
THEOREM ChatTypes == Spec => []TypeOK
<1>1. IInv => TypeOK
  BY DEF IInv
<1> QED BY <1>1, Inductive, PTL

\* handleChat always finds the session of a connected client user.
THEOREM SessionsOfOpen == Spec => []SessionOfOpen
<1>1. IInv => SessionOfOpen
  BY DEF IInv
<1> QED BY <1>1, Inductive, PTL

\* markAsRead marks nothing that the session's user did not ask for.
THEOREM ReadsWereAsked == Spec => []ReadWasAsked
<1>1. IInv => ReadWasAsked
  BY DEF IInv
<1> QED BY <1>1, Inductive, PTL

\* The page of a client user gets the administrators' messages of its session,
\* once each and in order.
THEOREM ClientsSeeSession == Spec => []ClientSeesSession
<1>1. IInv => ClientSeesSession
  BY DEF IInv
<1> QED BY <1>1, Inductive, PTL

\* The page of an administrator gets every client user's messages, once each
\* and in order.
THEOREM AdminsSeeSessions == Spec => []AdminSeesSessions
<1>1. IInv => AdminSeesSessions
  BY DEF IInv
<1> QED BY <1>1, Inductive, PTL

\* No handler drops, reorders or unmarks a message that a session holds.
THEOREM HistoriesKept == Spec => HistoryKept
<1> DEFINE Kept(u) ==
      /\ sessions'[u] # None
      /\ Len(sessions'[u]) >= Len(sessions[u])
      /\ \A i \in 1..Len(sessions[u]) :
           /\ sessions'[u][i].message = sessions[u][i].message
           /\ sessions[u][i].read => sessions'[u][i].read
<1>1. IInv /\ [Next]_vars => [\A u \in Users : HasSession(u) /\ restarts' = restarts => Kept(u)]_vars
  <2> SUFFICES ASSUME IInv, [Next]_vars, NEW u \in Users, HasSession(u), restarts' = restarts
               PROVE  Kept(u)
    OBVIOUS
  <2>1. TypeOK /\ AskedUp
    BY DEF IInv
  <2>2. ~Restart
    BY <2>1 DEF Restart, TypeOK
  <2> QED BY <2>1, <2>2, SessionSteps, SessionStepFacts
<1> QED BY <1>1, Inductive, PTL DEF Spec, HistoryKept
=============================================================================
