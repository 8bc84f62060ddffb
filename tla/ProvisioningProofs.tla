------------------------- MODULE ProvisioningProofs -------------------------
(***************************************************************************)
(* Proofs about Provisioning, for any number of clients, addresses and     *)
(* requests in flight, with and without failures.                          *)
(***************************************************************************)
EXTENDS Provisioning, TLAPS

-----------------------------------------------------------------------------
(* The strengthening that makes TypeOK, MigrationsConfined and             *)
(* AtMostOneAdmin inductive, and that VerifiedByMail follows from.         *)

SetupPcs == {"find", "create", "env", "gen", "deploy", "generate", "update", "meta"}

\* Which handler a request runs at each await, on which arguments.
OpOK(p) ==
  LET f == frame[p]
  IN /\ f.code \in Codes
     /\ f.pc # "lookup" => f.email \in Emails
     /\ f.pc = "publish" => f.op = "user"
     /\ f.pc = "user" => f.op \in {"admin", "user"}
     /\ f.pc \in {"lookup", "mark"} => f.op = "verify"
     /\ f.pc \in SetupPcs => f.op = "admin"

\* How far the database of an administrator's request has come.
SetupOK(p) ==
  /\ frame[p].pc \in {"env", "gen", "deploy", "generate"} => frame[p].code \in databases
  /\ frame[p].pc \in {"gen", "deploy", "generate"} => frame[p].code \in envKeys
  /\ frame[p].pc \in {"deploy", "generate"} => schemaFile # None

SchemaOK == schemaFile # None => schemaFile \in databases \cap envKeys

\* Request p holds the only claim to become the administrator of c.
Claims(p, c) == frame[p].pc = "user" /\ frame[p].op = "admin" /\ frame[p].code = c

ClaimsOK ==
  \A p \in Reqs, c \in Codes : Claims(p, c) =>
    /\ c \in metas
    /\ \A q \in Reqs : Claims(q, c) => q = p
    /\ \A u \in users : ~(u.admin /\ u.code = c)

AdminsOK == \A u \in users : u.admin => u.code \in metas

\* The address of a user is unique in its database.
EmailsUnique == \A u, v \in users : u.code = v.code /\ u.email = v.email => u = v

\* A token belongs to one client and one address: those of its request.
TokensOf(p) == {m \in outbox \cup mails : m.tok = p} \cup {u \in users : u.tok = p}

TokensOK ==
  \A p \in Reqs :
    /\ At(p, "new") => TokensOf(p) = {}
    /\ frame[p].op \in {"admin", "user"} =>
         \A x \in TokensOf(p) : x.code = frame[p].code /\ x.email = frame[p].email
    /\ \A x, y \in TokensOf(p) : x.code = y.code /\ x.email = y.email

\* The link of user u.
LinkOf(u) == [code |-> u.code, email |-> u.email, tok |-> u.tok]

\* A verification with a token follows a delivered mail; past the lookup, the
\* row it is about to mark is the row of that mail.
VerifyOK(p) ==
  LET f == frame[p]
  IN /\ f.pc = "lookup" /\ f.tok # None => \E m \in mails : m.tok = f.tok
     /\ f.pc = "mark" =>
          \E u \in users :
            /\ u.code = f.code /\ u.email = f.email
            /\ f.tok # None => f.tok = u.tok /\ LinkOf(u) \in mails

RequestsOK == \A p \in InFlight : OpOK(p) /\ SetupOK(p) /\ VerifyOK(p)

IInv ==
  /\ TypeOK /\ RequestsOK /\ SchemaOK /\ MigrationsConfined
  /\ ClaimsOK /\ AdminsOK /\ AtMostOneAdmin
  /\ EmailsUnique /\ TokensOK

-----------------------------------------------------------------------------
\* What no step takes away.
Grows ==
  /\ databases \subseteq databases' /\ envKeys \subseteq envKeys'
  /\ schemaFile # None => schemaFile' # None
  /\ mails \subseteq mails'
  /\ \A u \in users : \E v \in users' : v.code = u.code /\ v.tok = u.tok /\ v.email = u.email

\* A request that answered, or has not been sent, holds nothing.
LEMMA IdleFrame ==
  ASSUME NEW pc \in {"new", "done"}
  PROVE  Idle(pc) \in Frame /\ Idle(pc).pc = pc /\ Idle(pc).op = "none"
  BY DEF Idle, Frame, Pcs

\* A lookup that goes on has found a user of the link's tenant and, if the link
\* carries a token, of that token.
LEMMA LookupMoves ==
  ASSUME TypeOK, NEW p \in Reqs, LookupToken(p), ~Drop(p)
  PROVE  \E u \in users, g \in Frame :
           /\ u.code = frame[p].code /\ frame[p].tok \in {u.tok, None}
           /\ frame' = [frame EXCEPT ![p] = g] /\ frame'[p] = g
           /\ g.pc = "mark" /\ g.op = frame[p].op /\ g.code = frame[p].code
           /\ g.tok = frame[p].tok /\ g.email = u.email
<1>1. PICK u \in FoundUsers(p) : frame' = [frame EXCEPT ![p].pc = "mark", ![p].email = u.email]
  BY DEF LookupToken
<1>2. u \in users /\ u.code = frame[p].code /\ frame[p].tok \in {u.tok, None}
  BY DEF FoundUsers
<1> DEFINE g == [frame[p] EXCEPT !.pc = "mark", !.email = u.email]
<1>3. frame[p] \in Frame /\ u.email \in Emails /\ frame \in [Reqs -> Frame]
  BY <1>2 DEF TypeOK, User
<1>4. /\ g \in Frame /\ g.pc = "mark" /\ g.op = frame[p].op /\ g.code = frame[p].code
      /\ g.tok = frame[p].tok /\ g.email = u.email
  BY <1>3 DEF Frame, Pcs
<1>5. frame' = [frame EXCEPT ![p] = g]
  BY <1>1
<1> HIDE DEF g
<1>6. frame'[p] = g
  BY <1>3, <1>5
<1> QED BY <1>2, <1>4, <1>5, <1>6

\* What a request that arrives starts from.
LEMMA Arrivals ==
  ASSUME TypeOK, NEW p \in Reqs, Arrive(p)
  PROVE  \E op \in {"admin", "user", "verify"}, pc \in {"find", "publish", "lookup"},
            c \in Codes, e \in Emails \cup {None}, tok \in Reqs \cup {None} :
           /\ Request(p, NewFrame(op, pc, c, e, tok))
           /\ \/ op = "admin" /\ pc = "find" /\ e \in Emails
              \/ op = "user" /\ pc = "publish" /\ e \in Emails
              \/ /\ op = "verify" /\ pc = "lookup" /\ \E m \in mails : m.code = c
                 /\ tok # None => \E m \in mails : m.tok = tok
<1>1. CASE CreateClientAdmin(p)
  <2>1. PICK c \in Codes, e \in Emails : Request(p, NewFrame("admin", "find", c, e, p))
    BY <1>1, PaidAssumption DEF CreateClientAdmin
  <2> QED BY <2>1
<1>2. CASE CreateClientUser(p)
  <2>1. PICK c \in Codes, e \in Emails : Request(p, NewFrame("user", "publish", c, e, p))
    BY <1>2, PaidAssumption DEF CreateClientUser
  <2> QED BY <2>1
<1>3. CASE VerifyUserEmail(p)
  <2>1. PICK c \in {m.code : m \in mails}, tok \in {m.tok : m \in mails} \cup {None} :
          Request(p, NewFrame("verify", "lookup", c, None, tok))
    BY <1>3 DEF VerifyUserEmail
  <2>2. c \in Codes /\ tok \in Reqs \cup {None}
    BY DEF TypeOK, Mail
  <2>3. (\E m \in mails : m.code = c) /\ (tok # None => \E m \in mails : m.tok = tok)
    OBVIOUS
  <2> QED BY <2>1, <2>2, <2>3
<1> QED BY <1>1, <1>2, <1>3 DEF Arrive

\* Every step of the specification, by one request.
LEMMA Steps ==
  ASSUME [Next]_vars
  PROVE  \/ UNCHANGED vars
         \/ SendMail
         \/ \E p \in Reqs : Arrive(p) \/ Settle(p)
  BY DEF Next

\* The databases, the files and the locals of the handlers keep their types.
LEMMA TypeStep == IInv /\ [Next]_vars => TypeOK'
<1> SUFFICES ASSUME IInv, [Next]_vars PROVE TypeOK'
  OBVIOUS
<1> USE DEF disk, tables, post
<1>0. TypeOK /\ RequestsOK
  BY DEF IInv
<1>1. CASE UNCHANGED vars
  BY <1>0, <1>1 DEF vars, TypeOK
<1>2. CASE SendMail
  BY <1>0, <1>2 DEF SendMail, TypeOK
<1>3. ASSUME NEW p \in Reqs, Arrive(p) PROVE TypeOK'
  <2>1. PICK op \in {"admin", "user", "verify"}, pc \in {"find", "publish", "lookup"},
             c \in Codes, e \in Emails \cup {None}, tok \in Reqs \cup {None} :
          frame' = [frame EXCEPT ![p] = NewFrame(op, pc, c, e, tok)]
    BY <1>0, <1>3, Arrivals DEF Request
  <2>2. NewFrame(op, pc, c, e, tok) \in Frame
    BY DEF NewFrame, Frame, Pcs
  <2>3. UNCHANGED <<disk, tables, post>>
    BY <1>3 DEF Arrive, CreateClientAdmin, CreateClientUser, VerifyUserEmail
  <2> QED BY <1>0, <2>1, <2>2, <2>3 DEF TypeOK
<1>4. ASSUME NEW p \in Reqs, Settle(p) PROVE TypeOK'
  <2> DEFINE f == frame[p]
  <2>1. f \in Frame /\ f.pc \notin {"new", "done"}
    BY <1>0, <1>4 DEF TypeOK, Settle, FindSchema, CreateDatabase, RegisterEnvKey,
       GenerateSchema, MigrateDeploy, PrismaGenerate, UpdateClient, CreateMeta,
       PublishCreated, CreateUser, LookupToken, MarkVerified, Fail, At, InFlight
  <2>2. p \in InFlight
    BY <2>1 DEF InFlight
  <2>3. f.code \in Codes /\ (f.pc # "lookup" => f.email \in Emails)
    BY <1>0, <2>2 DEF RequestsOK, OpOK
  <2>4. ASSUME NEW pc \in Pcs, Goto(p, pc) PROVE frame' \in [Reqs -> Frame]
    <3>1. [f EXCEPT !.pc = pc] \in Frame
      BY <2>1 DEF Frame
    <3>2. frame' = [frame EXCEPT ![p] = [f EXCEPT !.pc = pc]]
      BY <2>4 DEF Goto
    <3> QED BY <1>0, <3>1, <3>2 DEF TypeOK
  <2>5. ASSUME Drop(p) PROVE frame' \in [Reqs -> Frame]
    BY <1>0, <2>5, IdleFrame DEF Drop, TypeOK
  <2>6. CASE FindSchema(p) \/ LookupToken(p) \/ Fail(p)
    <3>1. UNCHANGED <<disk, tables, post>>
      BY <2>6 DEF FindSchema, LookupToken, Fail
    <3>2. CASE LookupToken(p) /\ ~Drop(p)
      BY <1>0, <3>1, <3>2, LookupMoves DEF TypeOK
    <3>3. CASE ~LookupToken(p) \/ Drop(p)
      <4>1. Drop(p) \/ Goto(p, "create")
        BY <2>6, <3>3 DEF FindSchema, Fail
      <4>2. frame' \in [Reqs -> Frame]
        BY <2>4, <2>5, <4>1 DEF Pcs
      <4> QED BY <1>0, <3>1, <4>2 DEF TypeOK
    <3> QED BY <3>2, <3>3
  <2>7. CASE CreateDatabase(p)
    <3>1. frame' \in [Reqs -> Frame]
      BY <2>4, <2>7 DEF CreateDatabase, Pcs
    <3> QED BY <1>0, <2>3, <2>7, <3>1 DEF CreateDatabase, TypeOK
  <2>8. CASE RegisterEnvKey(p)
    <3>1. frame' \in [Reqs -> Frame]
      BY <2>4, <2>8 DEF RegisterEnvKey, Pcs
    <3> QED BY <1>0, <2>3, <2>8, <3>1 DEF RegisterEnvKey, TypeOK
  <2>9. CASE GenerateSchema(p)
    <3>1. frame' \in [Reqs -> Frame]
      BY <2>4, <2>9 DEF GenerateSchema, Pcs
    <3> QED BY <1>0, <2>3, <2>9, <3>1 DEF GenerateSchema, TypeOK
  <2>10. CASE MigrateDeploy(p) \/ PrismaGenerate(p)
    <3>1. schemaFile \in Codes
      BY <1>0, <2>2, <2>10 DEF MigrateDeploy, PrismaGenerate, At, RequestsOK, SetupOK, TypeOK
    <3>2. CASE MigrateDeploy(p)
      <4>1. frame' \in [Reqs -> Frame]
        BY <2>4, <3>2 DEF MigrateDeploy, Pcs
      <4> QED BY <1>0, <3>1, <3>2, <4>1 DEF MigrateDeploy, TypeOK
    <3>3. CASE PrismaGenerate(p)
      <4> DEFINE pc == IF f.round = 1 THEN "gen" ELSE "update"
                 g == [f EXCEPT !.pc = pc, !.round = 2]
      <4>1. pc \in Pcs
        BY DEF Pcs
      <4>2. frame' = [frame EXCEPT ![p] = g]
        BY <3>3 DEF PrismaGenerate
      <4> HIDE DEF pc
      <4>3. g \in Frame
        BY <2>1, <4>1 DEF Frame
      <4> HIDE DEF g
      <4>4. frame' \in [Reqs -> Frame]
        BY <1>0, <4>2, <4>3 DEF TypeOK
      <4> QED BY <1>0, <3>1, <3>3, <4>4 DEF PrismaGenerate, TypeOK
    <3> QED BY <2>10, <3>2, <3>3
  <2>11. f.pc # "lookup" => Event(p) \in Mail
    BY <2>3 DEF Event, Mail
  <2>12. CASE UpdateClient(p)
    <3>1. frame' \in [Reqs -> Frame]
      BY <2>4, <2>12 DEF UpdateClient, Pcs
    <3> QED BY <1>0, <2>3, <2>11, <2>12, <3>1 DEF UpdateClient, TypeOK, At
  <2>13. CASE CreateMeta(p)
    <3>1. Drop(p) \/ Goto(p, "user")
      BY <2>13 DEF CreateMeta
    <3>2. frame' \in [Reqs -> Frame]
      BY <2>4, <2>5, <3>1 DEF Pcs
    <3> QED BY <1>0, <2>3, <2>13, <3>2 DEF CreateMeta, TypeOK
  <2>14. CASE PublishCreated(p)
    <3>1. frame' \in [Reqs -> Frame]
      BY <2>4, <2>14 DEF PublishCreated, Pcs
    <3> QED BY <1>0, <2>11, <2>14, <3>1 DEF PublishCreated, TypeOK, At
  <2>15. CASE CreateUser(p)
    <3>1. frame' \in [Reqs -> Frame]
      BY <2>5, <2>15 DEF CreateUser
    <3>2. [code |-> f.code, email |-> f.email, tok |-> p, admin |-> f.op = "admin",
           verified |-> FALSE] \in User
      BY <2>3, <2>15 DEF User, CreateUser, At
    <3>3. users' \subseteq User
      BY <1>0, <2>15, <3>2 DEF CreateUser, TypeOK
    <3> QED BY <1>0, <2>15, <3>1, <3>3 DEF CreateUser, TypeOK
  <2>16. CASE MarkVerified(p)
    <3>1. frame' \in [Reqs -> Frame]
      BY <2>5, <2>16 DEF MarkVerified
    <3>2. \A u \in User : [u EXCEPT !.verified = TRUE] \in User
      BY DEF User
    <3>3. users' \subseteq User
      BY <1>0, <2>16, <3>2 DEF MarkVerified, TypeOK
    <3> QED BY <1>0, <2>16, <3>1, <3>3 DEF MarkVerified, TypeOK
  <2> QED BY <1>4, <2>6, <2>7, <2>8, <2>9, <2>10, <2>12, <2>13, <2>14, <2>15, <2>16 DEF Settle
<1> QED BY <1>1, <1>2, <1>3, <1>4, Steps

-----------------------------------------------------------------------------
(* The requests and the migrations.                                        *)

\* A handler that moves was waiting, on arguments of its own.
LEMMA Awaiting ==
  ASSUME IInv, NEW p \in Reqs, Settle(p)
  PROVE  /\ p \in InFlight /\ frame[p].pc \notin {"new", "done"} /\ frame[p] \in Frame
         /\ OpOK(p) /\ SetupOK(p) /\ VerifyOK(p)
<1>1. frame[p].pc \notin {"new", "done"}
  BY DEF Settle, FindSchema, CreateDatabase, RegisterEnvKey, GenerateSchema, MigrateDeploy,
     PrismaGenerate, UpdateClient, CreateMeta, PublishCreated, CreateUser, LookupToken,
     MarkVerified, Fail, At, InFlight
<1>2. p \in InFlight
  BY <1>1 DEF InFlight
<1> QED BY <1>1, <1>2 DEF IInv, TypeOK, RequestsOK

\* Rows only gain a verified flag.
LEMMA UsersMarked ==
  ASSUME TypeOK, NEW p \in Reqs, MarkVerified(p)
  PROVE  /\ \A u \in users : \E v \in users' :
              v.code = u.code /\ v.tok = u.tok /\ v.email = u.email /\ v.admin = u.admin
         /\ \A v \in users' : \E u \in users :
              /\ v.code = u.code /\ v.tok = u.tok /\ v.email = u.email /\ v.admin = u.admin
              /\ v = u \/ (u.code = frame[p].code /\ u.email = frame[p].email)
<1> DEFINE M(u) == IF u.code = frame[p].code /\ u.email = frame[p].email
                   THEN [u EXCEPT !.verified = TRUE] ELSE u
<1>1. users' = {M(u) : u \in users}
  BY DEF MarkVerified
<1>2. \A u \in User : /\ M(u).code = u.code /\ M(u).tok = u.tok /\ M(u).email = u.email
                      /\ M(u).admin = u.admin
  BY DEF User
<1>3. users \subseteq User
  BY DEF TypeOK
<1>4. ASSUME NEW u \in users
      PROVE  \E v \in users' :
               v.code = u.code /\ v.tok = u.tok /\ v.email = u.email /\ v.admin = u.admin
  <2>1. M(u) \in users' /\ u \in User
    BY <1>1, <1>3
  <2> HIDE DEF M
  <2> QED BY <1>2, <2>1
<1>5. ASSUME NEW v \in users'
      PROVE  \E u \in users :
               /\ v.code = u.code /\ v.tok = u.tok /\ v.email = u.email /\ v.admin = u.admin
               /\ v = u \/ (u.code = frame[p].code /\ u.email = frame[p].email)
  <2>1. PICK u \in users : v = M(u)
    BY <1>1
  <2>2. v = u \/ (u.code = frame[p].code /\ u.email = frame[p].email)
    BY <2>1
  <2> HIDE DEF M
  <2> QED BY <1>2, <1>3, <2>1, <2>2
<1> HIDE DEF M
<1> QED BY <1>4, <1>5

\* Databases, keys, mails and users are never taken away.
LEMMA GrowsStep ==
  ASSUME IInv, [Next]_vars PROVE Grows
<1> USE DEF disk, tables, post, Grows
<1>0. TypeOK
  BY DEF IInv
<1>1. CASE UNCHANGED vars
  BY <1>1 DEF vars
<1>2. CASE SendMail
  BY <1>2 DEF SendMail
<1>3. ASSUME NEW p \in Reqs, Arrive(p) PROVE Grows
  BY <1>3 DEF Arrive, CreateClientAdmin, CreateClientUser, VerifyUserEmail
<1>4. ASSUME NEW p \in Reqs, Settle(p) PROVE Grows
  <2>1. CASE MarkVerified(p)
    <3>1. \A u \in users : \E v \in users' :
            v.code = u.code /\ v.tok = u.tok /\ v.email = u.email
      BY <1>0, <2>1, UsersMarked
    <3> QED BY <2>1, <3>1 DEF MarkVerified
  <2>2. CASE CreateUser(p)
    <3>1. users \subseteq users'
      BY <2>2 DEF CreateUser
    <3> QED BY <2>2, <3>1 DEF CreateUser
  <2>3. CASE GenerateSchema(p)
    <3>1. frame[p].code # None
      BY <1>4, Awaiting, AbsentAssumption DEF OpOK
    <3> QED BY <2>3, <3>1 DEF GenerateSchema
  <2>4. CASE FindSchema(p) \/ CreateDatabase(p) \/ RegisterEnvKey(p) \/ MigrateDeploy(p)
    BY <2>4 DEF FindSchema, CreateDatabase, RegisterEnvKey, MigrateDeploy
  <2>5. CASE \/ PrismaGenerate(p) \/ UpdateClient(p) \/ CreateMeta(p) \/ PublishCreated(p)
             \/ LookupToken(p) \/ Fail(p)
    BY <2>5 DEF PrismaGenerate, UpdateClient, CreateMeta, PublishCreated, LookupToken, Fail
  <2> QED BY <1>4, <2>1, <2>2, <2>3, <2>4, <2>5 DEF Settle
<1> QED BY <1>1, <1>2, <1>3, <1>4, Steps

\* What a waiting request relies on stays while others move.
LEMMA OthersKept ==
  ASSUME IInv, Grows, NEW q \in InFlight, frame'[q] = frame[q]
  PROVE  OpOK(q)' /\ SetupOK(q)' /\ VerifyOK(q)'
<1>1. OpOK(q) /\ SetupOK(q) /\ VerifyOK(q)
  BY DEF IInv, RequestsOK
<1>2. OpOK(q)'
  BY <1>1 DEF OpOK
<1>3. SetupOK(q)'
  BY <1>1 DEF SetupOK, Grows
<1>4. VerifyOK(q)'
  <2>1. ASSUME frame[q].pc = "mark"
        PROVE  \E v \in users' :
                 /\ v.code = frame[q].code /\ v.email = frame[q].email
                 /\ frame[q].tok # None => frame[q].tok = v.tok /\ LinkOf(v) \in mails'
    <3>1. PICK u \in users :
            /\ u.code = frame[q].code /\ u.email = frame[q].email
            /\ frame[q].tok # None => frame[q].tok = u.tok /\ LinkOf(u) \in mails
      BY <1>1, <2>1 DEF VerifyOK
    <3>2. PICK v \in users' : v.code = u.code /\ v.tok = u.tok /\ v.email = u.email
      BY DEF Grows
    <3>3. LinkOf(v) = LinkOf(u)
      BY <3>2 DEF LinkOf
    <3> QED BY <3>1, <3>2, <3>3 DEF Grows
  <2>2. ASSUME frame[q].pc = "lookup", frame[q].tok # None
        PROVE  \E m \in mails' : m.tok = frame[q].tok
    BY <1>1, <2>2 DEF VerifyOK, Grows
  <2> QED BY <2>1, <2>2 DEF VerifyOK, LinkOf
<1> QED BY <1>2, <1>3, <1>4

\* Only the request that moves has to be looked at.
LEMMA RequestsMove ==
  ASSUME IInv, Grows, NEW p \in Reqs, NEW g, frame' = [frame EXCEPT ![p] = g],
         g.pc # "done" => OpOK(p)' /\ SetupOK(p)' /\ VerifyOK(p)'
  PROVE  RequestsOK'
<1> SUFFICES ASSUME NEW q \in InFlight' PROVE (OpOK(q) /\ SetupOK(q) /\ VerifyOK(q))'
  BY DEF RequestsOK
<1>1. q \in Reqs /\ frame'[q].pc \notin {"new", "done"} /\ frame \in [Reqs -> Frame]
  BY DEF InFlight, IInv, TypeOK
<1>2. CASE q = p
  BY <1>1, <1>2
<1>3. CASE q # p
  <2>1. frame'[q] = frame[q]
    BY <1>1, <1>3
  <2>2. q \in InFlight
    BY <1>1, <2>1 DEF InFlight
  <2> QED BY <2>1, <2>2, OthersKept
<1> QED BY <1>2, <1>3

\* Requests stay within their handler; a database request that goes on has
\* created its database and registered its key.
LEMMA RequestsStep == IInv /\ [Next]_vars => RequestsOK'
<1> SUFFICES ASSUME IInv, [Next]_vars PROVE RequestsOK'
  OBVIOUS
<1> USE DEF disk, tables, post
<1>0. Grows /\ TypeOK /\ frame \in [Reqs -> Frame]
  BY GrowsStep DEF IInv, TypeOK
<1>1. CASE frame' = frame
  BY <1>0, <1>1, OthersKept DEF RequestsOK, InFlight
<1>2. ASSUME NEW p \in Reqs, Arrive(p) PROVE RequestsOK'
  <2>1. PICK op \in {"admin", "user", "verify"}, pc \in {"find", "publish", "lookup"},
             c \in Codes, e \in Emails \cup {None}, tok \in Reqs \cup {None} :
          /\ frame' = [frame EXCEPT ![p] = NewFrame(op, pc, c, e, tok)]
          /\ \/ op = "admin" /\ pc = "find" /\ e \in Emails
             \/ op = "user" /\ pc = "publish" /\ e \in Emails
             \/ op = "verify" /\ pc = "lookup" /\ (tok # None => \E m \in mails : m.tok = tok)
    BY <1>0, <1>2, Arrivals DEF Request
  <2> DEFINE g == NewFrame(op, pc, c, e, tok)
  <2>2. g = [op |-> op, pc |-> pc, code |-> c, email |-> e, tok |-> tok, round |-> 1]
    BY DEF NewFrame
  <2>3. frame'[p] = g /\ frame' = [frame EXCEPT ![p] = g]
    BY <1>0, <2>1
  <2>4. mails' = mails
    BY <1>2 DEF Arrive, CreateClientAdmin, CreateClientUser, VerifyUserEmail
  <2> HIDE DEF g
  <2>5. OpOK(p)' /\ SetupOK(p)'
    BY <2>1, <2>2, <2>3 DEF OpOK, SetupOK, SetupPcs
  <2>6. VerifyOK(p)'
    BY <2>1, <2>2, <2>3, <2>4 DEF VerifyOK
  <2> QED BY <1>0, <2>3, <2>5, <2>6, RequestsMove
<1>3. ASSUME NEW p \in Reqs, Settle(p) PROVE RequestsOK'
  <2> DEFINE f == frame[p]
  <2>1. f \in Frame /\ OpOK(p) /\ SetupOK(p) /\ VerifyOK(p)
    BY <1>3, Awaiting
  <2>2. CASE Drop(p)
    <3>1. frame' = [frame EXCEPT ![p] = Idle("done")] /\ Idle("done").pc = "done"
      BY <2>2, IdleFrame DEF Drop
    <3> QED BY <1>0, <3>1, RequestsMove
  <2>3. ASSUME NEW pc \in {"create", "env", "gen", "deploy", "generate", "update", "meta",
                           "user", "mark"},
               NEW g \in Frame, frame' = [frame EXCEPT ![p] = g],
               g.pc = pc, g.op = f.op, g.code = f.code, g.tok = f.tok, g.email \in Emails,
               pc \in SetupPcs => f.op = "admin",
               pc = "user" => f.op \in {"admin", "user"},
               pc = "mark" => f.op = "verify" /\ VerifyOK(p)',
               pc \in {"env", "gen", "deploy", "generate"} => f.code \in databases',
               pc \in {"gen", "deploy", "generate"} => f.code \in envKeys',
               pc \in {"deploy", "generate"} => schemaFile' # None
        PROVE  RequestsOK'
    <3>1. frame'[p] = g
      BY <1>0, <2>3
    <3>2. OpOK(p)'
      BY <2>1, <2>3, <3>1 DEF OpOK
    <3>3. SetupOK(p)'
      BY <2>3, <3>1 DEF SetupOK
    <3>4. VerifyOK(p)'
      BY <2>3, <3>1 DEF VerifyOK
    <3> QED BY <1>0, <2>3, <3>2, <3>3, <3>4, RequestsMove
  <2>4. ASSUME NEW pc \in {"create", "env", "gen", "deploy", "generate", "update", "meta",
                           "user"},
               Goto(p, pc), f.pc # "lookup"
        PROVE  /\ [f EXCEPT !.pc = pc] \in Frame
               /\ frame' = [frame EXCEPT ![p] = [f EXCEPT !.pc = pc]]
               /\ [f EXCEPT !.pc = pc].pc = pc /\ [f EXCEPT !.pc = pc].op = f.op
               /\ [f EXCEPT !.pc = pc].code = f.code /\ [f EXCEPT !.pc = pc].email \in Emails
               /\ [f EXCEPT !.pc = pc].tok = f.tok
    BY <2>1, <2>4 DEF Goto, Frame, Pcs, OpOK
  <2>5. CASE FindSchema(p) /\ ~Drop(p)
    <3>1. Goto(p, "create") /\ f.pc = "find"
      BY <2>5 DEF FindSchema, At
    <3>2. f.op = "admin"
      BY <2>1, <3>1 DEF OpOK, SetupPcs
    <3> QED BY <2>3, <2>4, <3>1, <3>2
  <2>6. CASE CreateDatabase(p)
    <3>1. Goto(p, "env") /\ f.pc = "create" /\ f.code \in databases'
      BY <2>6 DEF CreateDatabase, At
    <3>2. f.op = "admin"
      BY <2>1, <3>1 DEF OpOK, SetupPcs
    <3> QED BY <2>3, <2>4, <3>1, <3>2
  <2>7. CASE RegisterEnvKey(p)
    <3>1. Goto(p, "gen") /\ f.pc = "env" /\ f.code \in envKeys'
      BY <2>7 DEF RegisterEnvKey, At
    <3>2. f.op = "admin" /\ f.code \in databases'
      BY <1>0, <2>1, <3>1 DEF OpOK, SetupPcs, SetupOK, Grows
    <3> QED BY <2>3, <2>4, <3>1, <3>2
  <2>8. CASE GenerateSchema(p)
    <3>1. Goto(p, "deploy") /\ f.pc = "gen" /\ schemaFile' = f.code
      BY <2>8 DEF GenerateSchema, At
    <3>2. /\ f.op = "admin" /\ f.code \in databases' /\ f.code \in envKeys'
          /\ schemaFile' # None
      BY <1>0, <2>1, <3>1, AbsentAssumption DEF OpOK, SetupPcs, SetupOK, Grows
    <3> QED BY <2>3, <2>4, <3>1, <3>2
  <2>9. CASE MigrateDeploy(p)
    <3>1. Goto(p, "generate") /\ f.pc = "deploy"
      BY <2>9 DEF MigrateDeploy, At
    <3>2. /\ f.op = "admin" /\ f.code \in databases' /\ f.code \in envKeys'
          /\ schemaFile' # None
      BY <1>0, <2>1, <3>1 DEF OpOK, SetupPcs, SetupOK, Grows
    <3> QED BY <2>3, <2>4, <3>1, <3>2
  <2>10. CASE PrismaGenerate(p)
    <3> DEFINE pc == IF f.round = 1 THEN "gen" ELSE "update"
               g == [f EXCEPT !.pc = pc, !.round = 2]
    <3>1. frame' = [frame EXCEPT ![p] = g] /\ f.pc = "generate"
      BY <2>10 DEF PrismaGenerate, At
    <3>2. pc \in {"gen", "update"}
      OBVIOUS
    <3> HIDE DEF pc
    <3>3. /\ g \in Frame /\ g.pc = pc /\ g.op = f.op /\ g.code = f.code
          /\ g.email \in Emails /\ g.tok = f.tok
      BY <2>1, <3>1, <3>2 DEF Frame, Pcs, OpOK
    <3> HIDE DEF g
    <3>4. f.op = "admin" /\ f.code \in databases' /\ f.code \in envKeys'
      BY <1>0, <2>1, <3>1 DEF OpOK, SetupPcs, SetupOK, Grows
    <3> QED BY <2>3, <3>1, <3>2, <3>3, <3>4
  <2>11. CASE UpdateClient(p)
    <3>1. Goto(p, "meta") /\ f.pc = "update"
      BY <2>11 DEF UpdateClient, At
    <3>2. f.op = "admin"
      BY <2>1, <3>1 DEF OpOK, SetupPcs
    <3> QED BY <2>3, <2>4, <3>1, <3>2
  <2>12. CASE (CreateMeta(p) \/ PublishCreated(p)) /\ ~Drop(p)
    <3>1. Goto(p, "user") /\ f.pc \in {"meta", "publish"}
      BY <2>12 DEF CreateMeta, PublishCreated, At
    <3>2. f.op \in {"admin", "user"} /\ "user" \notin SetupPcs
      BY <2>1, <3>1 DEF OpOK, SetupPcs
    <3> QED BY <2>3, <2>4, <3>1, <3>2
  <2>13. CASE LookupToken(p) /\ ~Drop(p)
    <3>1. f.pc = "lookup" /\ f.op = "verify" /\ users' = users /\ mails' = mails
      BY <2>1, <2>13 DEF LookupToken, At, OpOK
    <3>2. PICK u \in users, g \in Frame :
            /\ u.code = f.code /\ f.tok \in {u.tok, None}
            /\ frame' = [frame EXCEPT ![p] = g] /\ frame'[p] = g
            /\ g.pc = "mark" /\ g.op = f.op /\ g.code = f.code
            /\ g.tok = f.tok /\ g.email = u.email
      BY <1>0, <2>13, LookupMoves
    <3>3. u.email \in Emails /\ u.tok \in Reqs /\ "mark" \notin SetupPcs
      BY <1>0 DEF TypeOK, User, SetupPcs
    <3>4. f.tok # None => f.tok = u.tok /\ LinkOf(u) \in mails
      <4>1. HAVE f.tok # None
      <4>2. PICK m \in mails : m.tok = f.tok
        BY <2>1, <3>1, <4>1 DEF VerifyOK
      <4>3. f.tok = u.tok /\ m \in TokensOf(u.tok) /\ u \in TokensOf(u.tok)
        BY <3>2, <4>1, <4>2 DEF TokensOf
      <4>4. m.code = u.code /\ m.email = u.email
        BY <3>3, <4>3 DEF IInv, TokensOK
      <4>5. m = LinkOf(u)
        BY <1>0, <4>2, <4>3, <4>4 DEF TypeOK, Mail, LinkOf
      <4> QED BY <4>3, <4>5
    <3>5. VerifyOK(p)'
      BY <3>1, <3>2, <3>4 DEF VerifyOK, LinkOf
    <3> QED BY <2>3, <3>1, <3>2, <3>3, <3>5
  <2>14. CreateUser(p) \/ MarkVerified(p) \/ Fail(p) => Drop(p)
    BY DEF CreateUser, MarkVerified, Fail
  <2> QED BY <1>3, <2>2, <2>5, <2>6, <2>7, <2>8, <2>9, <2>10, <2>11, <2>12, <2>13, <2>14
      DEF Settle
<1>4. UNCHANGED vars \/ SendMail => frame' = frame
  BY DEF vars, SendMail
<1> QED BY <1>1, <1>2, <1>3, <1>4, Steps

\* The schema file names a database that exists and a key that is registered,
\* so nothing else is migrated or generated.
LEMMA MigrationsStep == IInv /\ [Next]_vars => SchemaOK' /\ MigrationsConfined'
<1> SUFFICES ASSUME IInv, [Next]_vars PROVE SchemaOK' /\ MigrationsConfined'
  OBVIOUS
<1> USE DEF disk, tables, post
<1>0. Grows /\ SchemaOK /\ MigrationsConfined
  BY GrowsStep DEF IInv
<1>1. ASSUME NEW p \in Reqs, GenerateSchema(p)
      PROVE  SchemaOK' /\ MigrationsConfined'
  <2>1. SetupOK(p) /\ frame[p].pc = "gen"
    BY <1>1, Awaiting DEF GenerateSchema, At, Settle
  <2>2. frame[p].code \in databases \cap envKeys
    BY <2>1 DEF SetupOK
  <2> QED BY <1>0, <1>1, <2>2 DEF GenerateSchema, SchemaOK, MigrationsConfined
<1>2. ASSUME NEW p \in Reqs, MigrateDeploy(p) \/ PrismaGenerate(p)
      PROVE  SchemaOK' /\ MigrationsConfined'
  <2>1. SetupOK(p) /\ frame[p].pc \in {"deploy", "generate"}
    BY <1>2, Awaiting DEF MigrateDeploy, PrismaGenerate, At, Settle
  <2>2. schemaFile \in databases \cap envKeys
    BY <1>0, <2>1 DEF SetupOK, SchemaOK
  <2> QED BY <1>0, <1>2, <2>2 DEF MigrateDeploy, PrismaGenerate, SchemaOK, MigrationsConfined
<1>3. CASE schemaFile' = schemaFile /\ migrated' = migrated /\ generated' = generated
  BY <1>0, <1>3 DEF SchemaOK, MigrationsConfined, Grows
<1>4. ASSUME NEW p \in Reqs, Arrive(p)
      PROVE  schemaFile' = schemaFile /\ migrated' = migrated /\ generated' = generated
  BY <1>4 DEF Arrive, CreateClientAdmin, CreateClientUser, VerifyUserEmail
<1>5. ASSUME NEW p \in Reqs, Settle(p),
             ~GenerateSchema(p), ~MigrateDeploy(p), ~PrismaGenerate(p)
      PROVE  schemaFile' = schemaFile /\ migrated' = migrated /\ generated' = generated
  BY <1>5 DEF Settle, FindSchema, CreateDatabase, RegisterEnvKey, UpdateClient, CreateMeta,
     PublishCreated, CreateUser, LookupToken, MarkVerified, Fail
<1>6. UNCHANGED vars \/ SendMail =>
        schemaFile' = schemaFile /\ migrated' = migrated /\ generated' = generated
  BY DEF vars, SendMail
<1> QED BY <1>1, <1>2, <1>3, <1>4, <1>5, <1>6, Steps

-----------------------------------------------------------------------------
(* The rows of the tenants' databases.                                     *)

\* A request that arrives waits at the first await of its handler.
LEMMA ArriveFrame ==
  ASSUME IInv, NEW p \in Reqs, Arrive(p)
  PROVE  /\ frame[p].pc = "new" /\ frame'[p].pc \in {"find", "publish", "lookup"}
         /\ \A q \in Reqs \ {p} : frame'[q] = frame[q]
<1>0. frame \in [Reqs -> Frame]
  BY DEF IInv, TypeOK
<1>1. ASSUME NEW op, NEW pc \in {"find", "publish", "lookup"}, NEW c, NEW e, NEW tok,
             Request(p, NewFrame(op, pc, c, e, tok))
      PROVE  /\ frame[p].pc = "new" /\ frame'[p].pc \in {"find", "publish", "lookup"}
             /\ \A q \in Reqs \ {p} : frame'[q] = frame[q]
  <2>1. NewFrame(op, pc, c, e, tok).pc = pc
    BY DEF NewFrame
  <2> QED BY <1>0, <1>1, <2>1 DEF Request, At
<1> QED BY <1>1 DEF Arrive, CreateClientAdmin, CreateClientUser, VerifyUserEmail

\* Only three steps touch the claims, the client rows and the users.
LEMMA RowsQuiet ==
  ASSUME IInv, [Next]_vars,
         \A p \in Reqs : ~CreateMeta(p) /\ ~CreateUser(p) /\ ~MarkVerified(p)
  PROVE  /\ users' = users /\ metas' = metas
         /\ \A q \in Reqs, c \in Codes : Claims(q, c)' => Claims(q, c)
<1> USE DEF disk, tables, post
<1>0. frame \in [Reqs -> Frame]
  BY DEF IInv, TypeOK
<1>1. CASE UNCHANGED vars \/ SendMail
  BY <1>1 DEF vars, SendMail, Claims
<1>2. ASSUME NEW p \in Reqs, Arrive(p)
      PROVE  /\ users' = users /\ metas' = metas
             /\ \A q \in Reqs, c \in Codes : Claims(q, c)' => Claims(q, c)
  <2>1. /\ frame'[p].pc \in {"find", "publish", "lookup"}
        /\ \A q \in Reqs \ {p} : frame'[q] = frame[q]
    BY <1>2, ArriveFrame
  <2>2. users' = users /\ metas' = metas
    BY <1>2 DEF Arrive, CreateClientAdmin, CreateClientUser, VerifyUserEmail
  <2> QED BY <1>0, <2>1, <2>2 DEF Claims
<1>3. ASSUME NEW p \in Reqs, Settle(p)
      PROVE  /\ users' = users /\ metas' = metas
             /\ \A q \in Reqs, c \in Codes : Claims(q, c)' => Claims(q, c)
  <2>0. /\ ~CreateMeta(p) /\ ~CreateUser(p) /\ ~MarkVerified(p)
        /\ frame[p] \in Frame /\ OpOK(p)
    BY <1>3, Awaiting
  <2>1. users' = users /\ metas' = metas
    BY <1>3, <2>0 DEF Settle, FindSchema, CreateDatabase, RegisterEnvKey, GenerateSchema,
       MigrateDeploy, PrismaGenerate, UpdateClient, PublishCreated, LookupToken, Fail
  <2>2. CASE Drop(p)
    BY <1>0, <2>1, <2>2, IdleFrame DEF Drop, Claims
  <2>3. ASSUME NEW pc \in {"create", "env", "gen", "deploy", "generate", "meta"},
               Goto(p, pc)
        PROVE  \A q \in Reqs, c \in Codes : Claims(q, c)' => Claims(q, c)
    <3>1. frame'[p].pc = pc /\ \A q \in Reqs \ {p} : frame'[q] = frame[q]
      BY <1>0, <2>0, <2>3 DEF Goto, Frame
    <3> QED BY <3>1 DEF Claims
  <2>6. CASE LookupToken(p) /\ ~Drop(p)
    <3>1. frame'[p].pc = "mark" /\ \A q \in Reqs \ {p} : frame'[q] = frame[q]
      BY <1>0, <2>6, LookupMoves DEF IInv
    <3> QED BY <2>1, <3>1 DEF Claims
  <2>4. CASE PrismaGenerate(p)
    <3>1. /\ frame'[p].pc \in {"gen", "update"}
          /\ \A q \in Reqs \ {p} : frame'[q] = frame[q]
      BY <1>0, <2>0, <2>4 DEF PrismaGenerate, Frame
    <3> QED BY <2>1, <3>1 DEF Claims
  <2>5. CASE PublishCreated(p)
    <3>1. frame[p].op = "user"
      BY <2>0, <2>5 DEF PublishCreated, At, OpOK
    <3>2. frame'[p].op = "user" /\ \A q \in Reqs \ {p} : frame'[q] = frame[q]
      BY <1>0, <2>0, <2>5, <3>1 DEF PublishCreated, Goto, Frame
    <3> QED BY <2>1, <3>2 DEF Claims
  <2> QED BY <1>3, <2>0, <2>1, <2>2, <2>3, <2>4, <2>5, <2>6
      DEF Settle, FindSchema, CreateDatabase, RegisterEnvKey, GenerateSchema, MigrateDeploy,
          UpdateClient, Fail
<1> QED BY <1>1, <1>2, <1>3, Steps

\* The primary key of the tenant's client row lets one request through.
LEMMA AdminsStep == IInv /\ [Next]_vars => ClaimsOK' /\ AdminsOK' /\ AtMostOneAdmin'
<1> SUFFICES ASSUME IInv, [Next]_vars PROVE ClaimsOK' /\ AdminsOK' /\ AtMostOneAdmin'
  OBVIOUS
<1>0. /\ ClaimsOK /\ AdminsOK /\ AtMostOneAdmin /\ TypeOK
      /\ frame \in [Reqs -> Frame] /\ users \subseteq User
  BY DEF IInv, TypeOK
<1>1. CASE \A p \in Reqs : ~CreateMeta(p) /\ ~CreateUser(p) /\ ~MarkVerified(p)
  <2>1. /\ users' = users /\ metas' = metas
        /\ \A q \in Reqs, c \in Codes : Claims(q, c)' => Claims(q, c)
    BY <1>1, RowsQuiet
  <2>2. ClaimsOK'
    BY <1>0, <2>1 DEF ClaimsOK
  <2> QED BY <1>0, <2>1, <2>2 DEF AdminsOK, AtMostOneAdmin
<1>2. ASSUME NEW p \in Reqs, CreateMeta(p)
      PROVE  ClaimsOK' /\ AdminsOK' /\ AtMostOneAdmin'
  <2>0. users' = users /\ metas \subseteq metas' /\ frame[p] \in Frame
    BY <1>0, <1>2 DEF CreateMeta
  <2>1. CASE Drop(p)
    <3>1. \A q \in Reqs, c \in Codes : Claims(q, c)' => Claims(q, c)
      BY <1>0, <2>1, IdleFrame DEF Drop, Claims
    <3>2. ClaimsOK'
      BY <1>0, <2>0, <3>1 DEF ClaimsOK
    <3> QED BY <1>0, <2>0, <3>2 DEF AdminsOK, AtMostOneAdmin
  <2>2. CASE ~Drop(p)
    <3> DEFINE c0 == frame[p].code
    <3>1. c0 \notin metas /\ metas' = metas \cup {c0} /\ Goto(p, "user")
      BY <1>2, <2>2 DEF CreateMeta
    <3>2. /\ \A q \in Reqs \ {p} : frame'[q] = frame[q]
          /\ frame'[p].code = c0
      BY <1>0, <2>0, <3>1 DEF Goto, Frame
    <3>3. \A q \in Reqs \ {p}, c \in Codes : Claims(q, c)' => Claims(q, c)
      BY <3>2 DEF Claims
    <3>4. \A c \in Codes : Claims(p, c)' => c = c0
      BY <3>2 DEF Claims
    <3>5. \A u \in users : ~(u.admin /\ u.code = c0)
      BY <1>0, <3>1 DEF AdminsOK
    <3>6. \A q \in Reqs, c \in Codes : Claims(q, c) => c # c0
      BY <1>0, <3>1 DEF ClaimsOK
    <3> HIDE DEF c0
    <3>7. ClaimsOK'
      BY <1>0, <2>0, <3>1, <3>3, <3>4, <3>5, <3>6 DEF ClaimsOK
    <3> QED BY <1>0, <2>0, <3>7 DEF AdminsOK, AtMostOneAdmin
  <2> QED BY <2>1, <2>2
<1>3. ASSUME NEW p \in Reqs, CreateUser(p)
      PROVE  ClaimsOK' /\ AdminsOK' /\ AtMostOneAdmin'
  <2> DEFINE c0 == frame[p].code
             n == [code |-> c0, email |-> frame[p].email, tok |-> p,
                   admin |-> frame[p].op = "admin", verified |-> FALSE]
  <2>1. metas' = metas /\ Drop(p) /\ frame[p].pc = "user" /\ c0 \in Codes
    BY <1>3, Awaiting DEF CreateUser, At, Settle, OpOK, tables
  <2>2. users' = users \/ (users' = users \cup {n} /\ c0 \in metas)
    BY <1>3 DEF CreateUser
  <2>3. /\ \A q \in Reqs \ {p} : frame'[q] = frame[q]
        /\ \A c \in Codes : ~Claims(p, c)'
    BY <1>0, <2>1, IdleFrame DEF Drop, Claims
  <2>4. \A q \in Reqs, c \in Codes : Claims(q, c)' => q # p /\ Claims(q, c)
    BY <2>3 DEF Claims
  <2>5. n.code = c0 /\ (n.admin => Claims(p, c0))
    BY <2>1 DEF Claims
  <2> HIDE DEF n, c0
  <2>6. n.admin => \A u \in users : ~(u.admin /\ u.code = c0)
    BY <1>0, <2>1, <2>5 DEF ClaimsOK
  <2>7. n.admin => \A q \in Reqs, c \in Codes : Claims(q, c)' => c # c0
    BY <1>0, <2>1, <2>4, <2>5 DEF ClaimsOK
  <2>8. ClaimsOK'
    BY <1>0, <2>1, <2>2, <2>4, <2>5, <2>7 DEF ClaimsOK
  <2>9. AdminsOK' /\ AtMostOneAdmin'
    BY <1>0, <2>1, <2>2, <2>5, <2>6 DEF AdminsOK, AtMostOneAdmin
  <2> QED BY <2>8, <2>9
<1>4. ASSUME NEW p \in Reqs, MarkVerified(p)
      PROVE  ClaimsOK' /\ AdminsOK' /\ AtMostOneAdmin'
  <2> DEFINE M(u) == IF u.code = frame[p].code /\ u.email = frame[p].email
                     THEN [u EXCEPT !.verified = TRUE] ELSE u
  <2>1. metas' = metas /\ Drop(p) /\ users' = {M(u) : u \in users}
    BY <1>4 DEF MarkVerified
  <2>2. \A u \in User : M(u).code = u.code /\ M(u).admin = u.admin
    BY DEF User
  <2> HIDE DEF M
  <2>3. \A q \in Reqs, c \in Codes : Claims(q, c)' => Claims(q, c)
    BY <1>0, <2>1, IdleFrame DEF Drop, Claims
  <2>4. \A v \in users' : \E u \in users : v = M(u) /\ v.code = u.code /\ v.admin = u.admin
    BY <1>0, <2>1, <2>2
  <2>5. ClaimsOK'
    BY <1>0, <2>1, <2>3, <2>4 DEF ClaimsOK
  <2>6. AdminsOK' /\ AtMostOneAdmin'
    BY <1>0, <2>1, <2>4 DEF AdminsOK, AtMostOneAdmin
  <2> QED BY <2>5, <2>6
<1> QED BY <1>1, <1>2, <1>3, <1>4

\* The unique index keeps the addresses of a tenant's users apart.
LEMMA EmailsStep == IInv /\ [Next]_vars => EmailsUnique'
<1> SUFFICES ASSUME IInv, [Next]_vars PROVE EmailsUnique'
  OBVIOUS
<1>0. EmailsUnique /\ users \subseteq User
  BY DEF IInv, TypeOK
<1>1. CASE users' = users
  BY <1>0, <1>1 DEF EmailsUnique
<1>2. ASSUME NEW p \in Reqs, CreateUser(p) PROVE EmailsUnique'
  <2> DEFINE n == [code |-> frame[p].code, email |-> frame[p].email, tok |-> p,
                   admin |-> frame[p].op = "admin", verified |-> FALSE]
  <2>1. \/ users' = users
        \/ /\ users' = users \cup {n}
           /\ \A u \in users : ~(u.code = n.code /\ u.email = n.email)
    BY <1>2 DEF CreateUser
  <2> HIDE DEF n
  <2> QED BY <1>0, <2>1 DEF EmailsUnique
<1>3. ASSUME NEW p \in Reqs, MarkVerified(p) PROVE EmailsUnique'
  <2> DEFINE M(u) == IF u.code = frame[p].code /\ u.email = frame[p].email
                     THEN [u EXCEPT !.verified = TRUE] ELSE u
  <2>1. users' = {M(u) : u \in users}
    BY <1>3 DEF MarkVerified
  <2>2. \A u \in User : M(u).code = u.code /\ M(u).email = u.email
    BY DEF User
  <2> HIDE DEF M
  <2>3. \A v \in users' : \E u \in users : v = M(u) /\ v.code = u.code /\ v.email = u.email
    BY <1>0, <2>1, <2>2
  <2> QED BY <1>0, <2>3 DEF EmailsUnique
<1>4. (\A p \in Reqs : ~CreateMeta(p) /\ ~CreateUser(p) /\ ~MarkVerified(p)) => users' = users
  BY RowsQuiet
<1>5. ASSUME NEW p \in Reqs, CreateMeta(p) PROVE users' = users
  BY <1>5 DEF CreateMeta
<1> QED BY <1>1, <1>2, <1>3, <1>4, <1>5

-----------------------------------------------------------------------------
(* Tokens and mails.                                                       *)

\* What is published or stored in a step by request q carries q's own client
\* and address.
Fresh(q, x) ==
  /\ frame[q].op \in {"admin", "user"} /\ frame[q].pc # "new"
  /\ x.code = frame[q].code /\ x.email = frame[q].email

Old(q, x) == \E y \in TokensOf(q) : y.code = x.code /\ y.email = x.email

\* The cases of a step on the locals of a request.
LocalsKept(q) ==
  /\ frame'[q].pc = "new" => frame'[q] = frame[q]
  /\ frame'[q].op \in {"admin", "user"} =>
       \/ frame[q].pc = "new"
       \/ /\ frame'[q].op = frame[q].op /\ frame'[q].code = frame[q].code
          /\ frame'[q].email = frame[q].email

\* A request keeps its client and its address until it ends.
LEMMA LocalsStep ==
  ASSUME IInv, [Next]_vars, NEW q \in Reqs PROVE LocalsKept(q)
<1>0. frame \in [Reqs -> Frame]
  BY DEF IInv, TypeOK
<1>1. CASE frame'[q] = frame[q]
  BY <1>1 DEF LocalsKept
<1>2. ASSUME NEW p \in Reqs, Arrive(p) PROVE LocalsKept(q)
  <2>1. /\ frame[p].pc = "new" /\ frame'[p].pc \in {"find", "publish", "lookup"}
        /\ \A r \in Reqs \ {p} : frame'[r] = frame[r]
    BY <1>2, ArriveFrame
  <2> QED BY <2>1 DEF LocalsKept
<1>3. ASSUME NEW p \in Reqs, Settle(p) PROVE LocalsKept(q)
  <2>0. frame[p] \in Frame
    BY <1>0
  <2>1. CASE Drop(p)
    BY <1>0, <2>1, IdleFrame DEF Drop, LocalsKept
  <2>2. ASSUME NEW pc \in {"create", "env", "gen", "deploy", "generate", "meta", "user"},
               Goto(p, pc)
        PROVE  LocalsKept(q)
    <3>1. /\ \A r \in Reqs \ {p} : frame'[r] = frame[r]
          /\ frame'[p].pc = pc /\ frame'[p].op = frame[p].op
          /\ frame'[p].code = frame[p].code /\ frame'[p].email = frame[p].email
      BY <1>0, <2>0, <2>2 DEF Goto, Frame
    <3> QED BY <3>1 DEF LocalsKept
  <2>3. CASE PrismaGenerate(p)
    <3>1. /\ \A r \in Reqs \ {p} : frame'[r] = frame[r]
          /\ frame'[p].pc \in {"gen", "update"} /\ frame'[p].op = frame[p].op
          /\ frame'[p].code = frame[p].code /\ frame'[p].email = frame[p].email
      BY <1>0, <2>0, <2>3 DEF PrismaGenerate, Frame
    <3> QED BY <3>1 DEF LocalsKept
  <2>4. CASE LookupToken(p) /\ ~Drop(p)
    <3>1. frame[p].op = "verify"
      BY <1>3, <2>4, Awaiting DEF LookupToken, At, OpOK
    <3>2. /\ \A r \in Reqs \ {p} : frame'[r] = frame[r]
          /\ frame'[p].pc = "mark" /\ frame'[p].op = frame[p].op
      BY <1>0, <2>4, LookupMoves DEF IInv
    <3> QED BY <3>1, <3>2 DEF LocalsKept
  <2> QED BY <1>3, <2>1, <2>2, <2>3, <2>4
      DEF Settle, FindSchema, CreateDatabase, RegisterEnvKey, GenerateSchema, MigrateDeploy,
          UpdateClient, CreateMeta, PublishCreated, CreateUser, MarkVerified, Fail
<1>4. UNCHANGED vars \/ SendMail => frame' = frame
  BY DEF vars, SendMail
<1> QED BY <1>1, <1>2, <1>3, <1>4, Steps

\* No mail and no row is made up: each is old or fresh.
LEMMA TokensFrom ==
  ASSUME IInv, [Next]_vars, NEW q \in Reqs, NEW x \in TokensOf(q)'
  PROVE  Old(q, x) \/ Fresh(q, x)
<1> USE DEF disk, tables, post
<1>0. TypeOK /\ users \subseteq User
  BY DEF IInv, TypeOK
<1>1. CASE outbox' \cup mails' \subseteq outbox \cup mails /\ users' \subseteq users
  BY <1>1 DEF TokensOf, Old
<1>2. ASSUME NEW p \in Reqs, UpdateClient(p) \/ PublishCreated(p) PROVE Old(q, x) \/ Fresh(q, x)
  <2>1. /\ outbox' = outbox \cup {Event(p)} /\ mails' = mails /\ users' = users
        /\ frame[p].pc \in {"update", "publish"}
    BY <1>2 DEF UpdateClient, PublishCreated, At
  <2>2. frame[p].op \in {"admin", "user"}
    BY <1>2, <2>1, Awaiting DEF OpOK, SetupPcs, Settle
  <2>3. CASE x = Event(p)
    <3>1. q = p
      BY <2>3 DEF TokensOf, Event
    <3> QED BY <2>1, <2>2, <2>3, <3>1 DEF Fresh, Event
  <2>4. CASE x # Event(p)
    BY <2>1, <2>4 DEF TokensOf, Old
  <2> QED BY <2>3, <2>4
<1>3. ASSUME NEW p \in Reqs, CreateUser(p) PROVE Old(q, x) \/ Fresh(q, x)
  <2> DEFINE n == [code |-> frame[p].code, email |-> frame[p].email, tok |-> p,
                   admin |-> frame[p].op = "admin", verified |-> FALSE]
  <2>1. /\ outbox' = outbox /\ mails' = mails /\ users' \subseteq users \cup {n}
        /\ frame[p].pc = "user"
    BY <1>3 DEF CreateUser, At
  <2>2. frame[p].op \in {"admin", "user"}
    BY <1>3, <2>1, Awaiting DEF OpOK, Settle
  <2>3. n.code = frame[p].code /\ n.email = frame[p].email /\ n.tok = p
    OBVIOUS
  <2> HIDE DEF n
  <2>4. CASE x = n
    <3>1. q = p
      BY <2>3, <2>4 DEF TokensOf
    <3> QED BY <2>1, <2>2, <2>3, <2>4, <3>1 DEF Fresh
  <2>5. CASE x # n
    BY <2>1, <2>5 DEF TokensOf, Old
  <2> QED BY <2>4, <2>5
<1>4. ASSUME NEW p \in Reqs, MarkVerified(p) PROVE Old(q, x) \/ Fresh(q, x)
  <2>1. outbox' = outbox /\ mails' = mails
    BY <1>4 DEF MarkVerified
  <2>2. \A v \in users' : \E u \in users : v.code = u.code /\ v.tok = u.tok /\ v.email = u.email
    BY <1>0, <1>4, UsersMarked
  <2> QED BY <2>1, <2>2 DEF TokensOf, Old
<1>5. ASSUME NEW p \in Reqs, Arrive(p)
      PROVE  outbox' \cup mails' \subseteq outbox \cup mails /\ users' \subseteq users
  BY <1>5 DEF Arrive, CreateClientAdmin, CreateClientUser, VerifyUserEmail
<1>6. ASSUME NEW p \in Reqs, Settle(p), ~UpdateClient(p), ~PublishCreated(p),
             ~CreateUser(p), ~MarkVerified(p)
      PROVE  outbox' \cup mails' \subseteq outbox \cup mails /\ users' \subseteq users
  BY <1>6 DEF Settle, FindSchema, CreateDatabase, RegisterEnvKey, GenerateSchema,
     MigrateDeploy, PrismaGenerate, CreateMeta, LookupToken, Fail
<1>7. UNCHANGED vars \/ SendMail =>
        outbox' \cup mails' \subseteq outbox \cup mails /\ users' \subseteq users
  BY DEF vars, SendMail
<1> QED BY <1>1, <1>2, <1>3, <1>4, <1>5, <1>6, <1>7, Steps

\* A signup token stands for one client and one address for ever.
LEMMA TokensStep == IInv /\ [Next]_vars => TokensOK'
<1> SUFFICES ASSUME IInv, [Next]_vars, NEW q \in Reqs
             PROVE  /\ At(q, "new")' => TokensOf(q)' = {}
                    /\ frame'[q].op \in {"admin", "user"} =>
                         \A x \in TokensOf(q)' :
                           x.code = frame'[q].code /\ x.email = frame'[q].email
                    /\ \A x, y \in TokensOf(q)' : x.code = y.code /\ x.email = y.email
  BY DEF TokensOK
<1>1. LocalsKept(q)
  BY LocalsStep
<1>2. \A x \in TokensOf(q)' : Old(q, x) \/ Fresh(q, x)
  BY TokensFrom
<1>3. /\ frame[q].pc = "new" => TokensOf(q) = {}
      /\ frame[q].op \in {"admin", "user"} =>
           \A y \in TokensOf(q) : y.code = frame[q].code /\ y.email = frame[q].email
      /\ \A x, y \in TokensOf(q) : x.code = y.code /\ x.email = y.email
  BY DEF IInv, TokensOK, At
<1>4. frame[q].pc = "new" => TokensOf(q)' = {}
  BY <1>2, <1>3 DEF Old, Fresh
<1>5. At(q, "new")' => TokensOf(q)' = {}
  BY <1>1, <1>4 DEF At, LocalsKept
<1>6. frame[q].op \in {"admin", "user"} =>
        \A x \in TokensOf(q)' : x.code = frame[q].code /\ x.email = frame[q].email
  BY <1>2, <1>3 DEF Old, Fresh
<1>7. frame'[q].op \in {"admin", "user"} =>
        \A x \in TokensOf(q)' : x.code = frame'[q].code /\ x.email = frame'[q].email
  BY <1>1, <1>4, <1>6 DEF LocalsKept
<1>8. \A x, y \in TokensOf(q)' : x.code = y.code /\ x.email = y.email
  BY <1>2, <1>3, <1>6 DEF Old, Fresh
<1> QED BY <1>5, <1>7, <1>8

\* The update by address marks the row the lookup found and no other.
LEMMA MarkOne ==
  ASSUME IInv, NEW p \in Reqs, MarkVerified(p)
  PROVE  \E w \in users :
           /\ frame[p].pc = "mark" /\ frame[p].op = "verify" /\ w.code = frame[p].code
           /\ frame[p].tok # None => frame[p].tok = w.tok /\ LinkOf(w) \in mails
           /\ users' = (users \ {w}) \cup {[w EXCEPT !.verified = TRUE]}
<1> DEFINE f == frame[p]
           M(u) == IF u.code = f.code /\ u.email = f.email
                   THEN [u EXCEPT !.verified = TRUE] ELSE u
<1>1. EmailsUnique /\ f.pc = "mark" /\ VerifyOK(p) /\ OpOK(p)
  BY Awaiting DEF IInv, MarkVerified, At, Settle
<1>2. PICK w \in users :
        /\ w.code = f.code /\ w.email = f.email
        /\ f.tok # None => f.tok = w.tok /\ LinkOf(w) \in mails
  BY <1>1 DEF VerifyOK
<1>3. users' = {M(u) : u \in users}
  BY DEF MarkVerified
<1>4. M(w) = [w EXCEPT !.verified = TRUE] /\ \A u \in users \ {w} : M(u) = u
  BY <1>1, <1>2 DEF EmailsUnique
<1> HIDE DEF M
<1>5. users' = (users \ {w}) \cup {[w EXCEPT !.verified = TRUE]}
  BY <1>3, <1>4
<1> QED BY <1>1, <1>2, <1>5 DEF OpOK

\* A user that turns up verified was marked by a request entitled to.
LEMMA VerifiedStep ==
  ASSUME IInv, [Next]_vars, NEW u \in users', u \notin users, u.verified
  PROVE  \E p \in Reqs :
           /\ At(p, "mark") /\ ~At(p, "mark")' /\ frame[p].code = u.code
           /\ \/ frame[p].tok = None
              \/ /\ frame[p].tok = u.tok
                 /\ [code |-> u.code, email |-> u.email, tok |-> u.tok] \in mails
<1>0. TypeOK /\ users \subseteq User /\ frame \in [Reqs -> Frame]
  BY DEF IInv, TypeOK
<1>1. ASSUME NEW p \in Reqs, CreateUser(p) PROVE FALSE
  <2> DEFINE n == [code |-> frame[p].code, email |-> frame[p].email, tok |-> p,
                   admin |-> frame[p].op = "admin", verified |-> FALSE]
  <2>1. users' \subseteq users \cup {n} /\ ~n.verified
    BY <1>1 DEF CreateUser
  <2> HIDE DEF n
  <2> QED BY <2>1
<1>2. PICK p \in Reqs : MarkVerified(p)
  <2>1. (\A p \in Reqs : ~CreateMeta(p) /\ ~CreateUser(p) /\ ~MarkVerified(p)) => users' = users
    BY RowsQuiet
  <2>2. ASSUME NEW p \in Reqs, CreateMeta(p) PROVE users' = users
    BY <2>2 DEF CreateMeta
  <2> QED BY <1>1, <2>1, <2>2
<1>3. PICK w \in users :
        /\ frame[p].pc = "mark" /\ w.code = frame[p].code
        /\ frame[p].tok # None => frame[p].tok = w.tok /\ LinkOf(w) \in mails
        /\ users' = (users \ {w}) \cup {[w EXCEPT !.verified = TRUE]}
  BY <1>2, MarkOne
<1>4. u.code = w.code /\ u.email = w.email /\ u.tok = w.tok
  BY <1>0, <1>3 DEF User
<1>5. At(p, "mark") /\ ~At(p, "mark")'
  BY <1>0, <1>2, <1>3, IdleFrame DEF MarkVerified, Drop, At
<1> QED BY <1>3, <1>4, <1>5 DEF LinkOf

-----------------------------------------------------------------------------
(* The theorems.                                                           *)

\* No database, no file and no user at the start.
LEMMA InitInv == Init => IInv
<1> SUFFICES ASSUME Init PROVE IInv
  OBVIOUS
<1>1. \A p \in Reqs : frame[p].pc = "new" /\ frame[p].op = "none"
  BY DEF Init, Idle
<1>2. InFlight = {}
  BY <1>1 DEF InFlight
<1>3. TypeOK
  BY IdleFrame DEF Init, TypeOK
<1>4. RequestsOK /\ SchemaOK /\ MigrationsConfined
  BY <1>2 DEF Init, RequestsOK, SchemaOK, MigrationsConfined
<1>5. ClaimsOK /\ AdminsOK /\ AtMostOneAdmin
  BY <1>1 DEF Init, ClaimsOK, Claims, AdminsOK, AtMostOneAdmin
<1>6. EmailsUnique /\ TokensOK
  BY <1>1 DEF Init, EmailsUnique, TokensOK, TokensOf
<1> QED BY <1>3, <1>4, <1>5, <1>6 DEF IInv

\* The inductive invariant of provisioning and signup.
THEOREM Inductive == Spec => []IInv
<1>1. Init => IInv
  BY InitInv
<1>2. IInv /\ [Next]_vars => IInv'
  BY TypeStep, RequestsStep, MigrationsStep, AdminsStep, EmailsStep, TokensStep
  DEF IInv
<1> QED BY <1>1, <1>2, PTL DEF Spec

\* The databases, the files and the locals of the handlers keep their types.
THEOREM ProvisioningTypes == Spec => []TypeOK
<1>1. IInv => TypeOK
  BY DEF IInv
<1> QED BY <1>1, Inductive, PTL

\* However many requests create the administrator of one client at once, and
\* whichever of them fail half way, its database holds at most one.
THEOREM OneAdmin == Spec => []AtMostOneAdmin
<1>1. IInv => AtMostOneAdmin
  BY DEF IInv
<1> QED BY <1>1, Inductive, PTL

\* The shared schema file never leads migrate.js to a database that does not
\* exist or that .env does not name.
THEOREM MigrationsStayConfined == Spec => []MigrationsConfined
<1>1. IInv => MigrationsConfined
  BY DEF IInv
<1> QED BY <1>1, Inductive, PTL

\* VerifyUserEmailHandler marks users of the link's own tenant only, and on a
\* link that carries a token only the user that token was mailed to, whatever
\* signups, confirmations and failures come between its lookup and its update.
THEOREM VerifiedOnlyByMail == Spec => VerifiedByMail
<1>1. IInv /\ [Next]_vars =>
        (\A u \in users' \ users : u.verified =>
           \E p \in Reqs :
             /\ At(p, "mark") /\ ~At(p, "mark")' /\ frame[p].code = u.code
             /\ \/ frame[p].tok = None
                \/ /\ frame[p].tok = u.tok
                   /\ [code |-> u.code, email |-> u.email, tok |-> u.tok] \in mails)
  BY VerifiedStep
<1> QED BY <1>1, Inductive, PTL DEF Spec, VerifiedByMail

-----------------------------------------------------------------------------
(* MigrationTargetsOwn fails when the child processes of two requests      *)
(* overlap (run provisioning_race).  It fails for no other reason.         *)

\* No two requests are between the write of the schema file and the end of
\* the prisma commands that read it.
OneMigration ==
  \A p, q \in Reqs :
    frame[p].pc \in {"deploy", "generate"} /\ frame[q].pc \in {"deploy", "generate"} => p = q

\* How far migrate.js has come with the client of its own request: the schema
\* file is still the one it wrote, and the commands that have exited worked on
\* that client.
OwnMigration(p) ==
  LET f == frame[p]
  IN /\ f.pc \in {"deploy", "generate"} => schemaFile = f.code
     /\ f.pc = "generate" => f.code \in migrated
     /\ f.pc = "update" => f.code \in migrated \cap generated

OwnMigrations == \A p \in Reqs : OwnMigration(p)

\* A request that does not move keeps what its run of migrate.js has done,
\* unless another request writes the schema file.
LEMMA MigrationKept ==
  ASSUME NEW q \in Reqs, OwnMigration(q), frame'[q] = frame[q],
         migrated \subseteq migrated', generated \subseteq generated',
         schemaFile' = schemaFile \/ frame[q].pc \notin {"deploy", "generate"}
  PROVE  OwnMigration(q)'
  BY DEF OwnMigration

\* A step of one request, seen from the request itself and from the others.
LEMMA OwnMigrationsStep ==
  IInv /\ OneMigration' /\ OwnMigrations /\ [Next]_vars => OwnMigrations'
<1> SUFFICES ASSUME IInv, OneMigration', OwnMigrations, [Next]_vars, NEW q \in Reqs
             PROVE  OwnMigration(q)'
  BY DEF OwnMigrations
<1> USE DEF disk, tables, post
<1>0. frame \in [Reqs -> Frame] /\ OwnMigration(q)
  BY DEF IInv, TypeOK, OwnMigrations
<1>1. CASE UNCHANGED vars \/ SendMail
  BY <1>0, <1>1, MigrationKept DEF vars, SendMail
<1>2. ASSUME NEW p \in Reqs, Arrive(p) PROVE OwnMigration(q)'
  <2>1. /\ frame'[p].pc \in {"find", "publish", "lookup"}
        /\ \A r \in Reqs \ {p} : frame'[r] = frame[r]
    BY <1>2, ArriveFrame
  <2>2. UNCHANGED <<disk, tables>>
    BY <1>2 DEF Arrive, CreateClientAdmin, CreateClientUser, VerifyUserEmail
  <2>3. CASE q = p
    BY <2>1, <2>3 DEF OwnMigration
  <2>4. CASE q # p
    BY <1>0, <2>1, <2>2, <2>4, MigrationKept
  <2> QED BY <2>3, <2>4
<1>3. ASSUME NEW p \in Reqs, Settle(p) PROVE OwnMigration(q)'
  <2>0. frame[p] \in Frame /\ OwnMigration(p)
    BY <1>0 DEF OwnMigrations
  <2>1. migrated \subseteq migrated' /\ generated \subseteq generated'
    BY <1>3 DEF Settle, FindSchema, CreateDatabase, RegisterEnvKey, GenerateSchema,
       MigrateDeploy, PrismaGenerate, UpdateClient, CreateMeta, PublishCreated, CreateUser,
       LookupToken, MarkVerified, Fail
  <2>2. PICK g : frame' = [frame EXCEPT ![p] = g]
    BY <1>3, LookupMoves DEF IInv, Settle, FindSchema, CreateDatabase, RegisterEnvKey, GenerateSchema,
       MigrateDeploy, PrismaGenerate, UpdateClient, CreateMeta, PublishCreated, CreateUser,
       MarkVerified, Fail, Drop, Goto
  <2>3. CASE q # p
    <3>1. frame'[q] = frame[q] /\ frame'[p] = g
      BY <1>0, <2>2, <2>3
    <3>2. CASE GenerateSchema(p)
      <4>1. frame'[p].pc = "deploy"
        BY <1>0, <2>0, <3>2 DEF GenerateSchema, Goto, Frame
      <4>2. frame[q].pc \notin {"deploy", "generate"}
        BY <2>3, <3>1, <4>1 DEF OneMigration
      <4> QED BY <1>0, <2>1, <3>1, <4>2, MigrationKept
    <3>3. CASE ~GenerateSchema(p)
      <4>1. schemaFile' = schemaFile
        BY <1>3, <3>3 DEF Settle, FindSchema, CreateDatabase, RegisterEnvKey,
           MigrateDeploy, PrismaGenerate, UpdateClient, CreateMeta, PublishCreated,
           CreateUser, LookupToken, MarkVerified, Fail
      <4> QED BY <1>0, <2>1, <3>1, <4>1, MigrationKept
    <3> QED BY <3>2, <3>3
  <2>4. CASE q = p
    <3>1. CASE Drop(p)
      BY <1>0, <2>4, <3>1, IdleFrame DEF Drop, OwnMigration
    <3>2. ASSUME NEW pc \in {"create", "env", "gen", "meta", "user"}, Goto(p, pc)
          PROVE  OwnMigration(q)'
      <4>1. frame'[p].pc = pc
        BY <1>0, <2>0, <3>2 DEF Goto, Frame
      <4> QED BY <2>4, <4>1 DEF OwnMigration
    <3>3. CASE GenerateSchema(p)
      <4>1. frame'[p].pc = "deploy" /\ frame'[p].code = frame[p].code
        BY <1>0, <2>0, <3>3 DEF GenerateSchema, Goto, Frame
      <4> QED BY <2>4, <3>3, <4>1 DEF GenerateSchema, OwnMigration
    <3>4. CASE MigrateDeploy(p)
      <4>1. frame'[p].pc = "generate" /\ frame'[p].code = frame[p].code
        BY <1>0, <2>0, <3>4 DEF MigrateDeploy, Goto, Frame
      <4> QED BY <2>0, <2>4, <3>4, <4>1 DEF MigrateDeploy, At, OwnMigration
    <3>5. CASE PrismaGenerate(p)
      <4>1. frame'[p].pc \in {"gen", "update"} /\ frame'[p].code = frame[p].code
        BY <1>0, <2>0, <3>5 DEF PrismaGenerate, Frame
      <4> QED BY <2>0, <2>4, <3>5, <4>1 DEF PrismaGenerate, At, OwnMigration
    <3>6. CASE LookupToken(p) /\ ~Drop(p)
      <4>1. frame'[p].pc = "mark"
        BY <3>6, LookupMoves DEF IInv
      <4> QED BY <2>4, <4>1 DEF OwnMigration
    <3> QED BY <1>3, <3>1, <3>2, <3>3, <3>4, <3>5, <3>6
        DEF Settle, FindSchema, CreateDatabase, RegisterEnvKey, UpdateClient, CreateMeta,
            PublishCreated, CreateUser, MarkVerified, Fail
  <2> QED BY <2>3, <2>4
<1> QED BY <1>1, <1>2, <1>3, Steps

\* As long as the child processes of migrate.js run one after another, a
\* handler that reports its database as migrated is right, whatever else
\* overlaps and fails: a lock around migrate.js is enough.
THEOREM MigrationsOwnWhenSerial == Spec /\ []OneMigration => []MigrationTargetsOwn
<1>1. Init => OwnMigrations
  BY DEF Init, Idle, OwnMigrations, OwnMigration
<1>2. OwnMigrations => MigrationTargetsOwn
  BY DEF OwnMigrations, OwnMigration, MigrationTargetsOwn, At
<1> QED BY <1>1, <1>2, OwnMigrationsStep, Inductive, PTL DEF Spec

-----------------------------------------------------------------------------
(* The refinement of TenantUsers.                                          *)

\* A database that holds its client row can be connected to.
MetasOK == metas \subseteq located \cap generated \cap migrated

\* The request that made a user has ended, so it makes no second one.
RowsDone == \A u \in users : At(u.tok, "done")

\* A request that has not been sent is no confirmation.
NewOK == \A p \in Reqs : At(p, "new") => frame[p].op = "none"

SignupInv == IInv /\ MetasOK /\ RowsDone /\ NewOK

\* The confirmations under way.
Asked == {[code |-> frame[p].code, tok |-> frame[p].tok] : p \in Verifying}

\* A step that starts no confirmation, and one that ends none either.
Loses(q) ==
  frame'[q].op = "verify" =>
    frame[q].op = "verify" /\ frame'[q].code = frame[q].code /\ frame'[q].tok = frame[q].tok

\* Such steps ask for no new confirmation ...
LEMMA AskedLost ==
  ASSUME \A q \in Reqs : Loses(q) PROVE Asked' \subseteq Asked
  BY DEF Loses, Asked, Verifying

\* ... and those that keep every confirmation leave the set as it is.
LEMMA AskedKept ==
  ASSUME \A q \in Reqs : Loses(q), \A q \in Reqs : frame[q].op = "verify" => frame'[q] = frame[q]
  PROVE  Asked' = Asked
  BY DEF Loses, Asked, Verifying

\* A request that moves on keeps what it confirms, or ends.
LEMMA SettleLoses ==
  ASSUME IInv, NEW p \in Reqs, Settle(p)
  PROVE  \A q \in Reqs : Loses(q) /\ (q # p => frame'[q] = frame[q])
<1>0. frame \in [Reqs -> Frame] /\ frame[p] \in Frame
  BY DEF IInv, TypeOK
<1>1. ASSUME NEW g, frame' = [frame EXCEPT ![p] = g],
             g.op = "verify" => g.op = frame[p].op /\ g.code = frame[p].code /\ g.tok = frame[p].tok
      PROVE  \A q \in Reqs : Loses(q) /\ (q # p => frame'[q] = frame[q])
  BY <1>0, <1>1 DEF Loses
<1>2. CASE Drop(p)
  BY <1>1, <1>2, IdleFrame DEF Drop
<1>3. ASSUME NEW pc, Goto(p, pc)
      PROVE  \A q \in Reqs : Loses(q) /\ (q # p => frame'[q] = frame[q])
  <2> DEFINE g == [frame[p] EXCEPT !.pc = pc]
  <2>1. frame' = [frame EXCEPT ![p] = g]
    BY <1>3 DEF Goto
  <2>2. g.op = frame[p].op /\ g.code = frame[p].code /\ g.tok = frame[p].tok
    BY <1>0 DEF Frame
  <2> HIDE DEF g
  <2> QED BY <1>1, <2>1, <2>2
<1>4. CASE PrismaGenerate(p)
  <2> DEFINE pc == IF frame[p].round = 1 THEN "gen" ELSE "update"
             g == [frame[p] EXCEPT !.pc = pc, !.round = 2]
  <2>1. frame' = [frame EXCEPT ![p] = g]
    BY <1>4 DEF PrismaGenerate
  <2> HIDE DEF pc
  <2>2. g.op = frame[p].op /\ g.code = frame[p].code /\ g.tok = frame[p].tok
    BY <1>0 DEF Frame
  <2> HIDE DEF g
  <2> QED BY <1>1, <2>1, <2>2
<1>5. CASE LookupToken(p) /\ ~Drop(p)
  BY <1>1, <1>5, LookupMoves DEF IInv
<1> QED BY <1>2, <1>3, <1>4, <1>5
    DEF Settle, FindSchema, CreateDatabase, RegisterEnvKey, GenerateSchema, MigrateDeploy,
        UpdateClient, CreateMeta, PublishCreated, CreateUser, MarkVerified, Fail

\* Tables, generated clients and urls are never taken away.
LEMMA MetasStep ==
  ASSUME MetasOK, [Next]_vars PROVE MetasOK'
<1> USE DEF disk, tables, post
<1>1. ASSUME NEW p \in Reqs, Settle(p), ~CreateMeta(p) PROVE MetasOK'
  BY <1>1 DEF MetasOK, Settle, FindSchema, CreateDatabase, RegisterEnvKey, GenerateSchema,
     MigrateDeploy, PrismaGenerate, UpdateClient, PublishCreated, CreateUser, LookupToken,
     MarkVerified, Fail
<1>2. ASSUME NEW p \in Reqs, CreateMeta(p) PROVE MetasOK'
  BY <1>2 DEF MetasOK, CreateMeta, Connectable
<1>3. ASSUME NEW p \in Reqs, Arrive(p) PROVE MetasOK'
  BY <1>3 DEF MetasOK, Arrive, CreateClientAdmin, CreateClientUser, VerifyUserEmail
<1>4. CASE UNCHANGED vars \/ SendMail
  BY <1>4 DEF MetasOK, vars, SendMail
<1> QED BY <1>1, <1>2, <1>3, <1>4, Steps

\* A request that has ended does not come back.
LEMMA DoneStays ==
  ASSUME IInv, [Next]_vars, NEW q \in Reqs, At(q, "done") PROVE At(q, "done")'
<1>0. frame \in [Reqs -> Frame]
  BY DEF IInv, TypeOK
<1>1. ASSUME NEW p \in Reqs, Arrive(p) PROVE At(q, "done")'
  BY <1>1, ArriveFrame DEF At
<1>2. ASSUME NEW p \in Reqs, Settle(p) PROVE At(q, "done")'
  <2>1. q # p
    BY <1>2, Awaiting DEF At
  <2>2. PICK g : frame' = [frame EXCEPT ![p] = g]
    BY <1>2, LookupMoves DEF IInv, Settle, FindSchema, CreateDatabase, RegisterEnvKey, GenerateSchema,
       MigrateDeploy, PrismaGenerate, UpdateClient, CreateMeta, PublishCreated, CreateUser,
       MarkVerified, Fail, Drop, Goto
  <2> QED BY <1>0, <2>1, <2>2 DEF At
<1>3. CASE UNCHANGED vars \/ SendMail
  BY <1>3 DEF vars, SendMail, At
<1> QED BY <1>1, <1>2, <1>3, Steps

\* A user row appears when its request ends, and an ended request stays ended.
LEMMA RowsDoneStep ==
  ASSUME IInv, RowsDone, [Next]_vars PROVE RowsDone'
<1>0. TypeOK /\ frame \in [Reqs -> Frame] /\ \A u \in users : u.tok \in Reqs
  BY DEF IInv, TypeOK, User
<1>1. \A u \in users : At(u.tok, "done")'
  BY <1>0, DoneStays DEF RowsDone
<1>2. CASE users' = users
  BY <1>1, <1>2 DEF RowsDone
<1>3. ASSUME NEW p \in Reqs, CreateUser(p) PROVE RowsDone'
  <2> DEFINE n == [code |-> frame[p].code, email |-> frame[p].email, tok |-> p,
                   admin |-> frame[p].op = "admin", verified |-> FALSE]
  <2>1. users' \subseteq users \cup {n} /\ Drop(p) /\ n.tok = p
    BY <1>3 DEF CreateUser
  <2> HIDE DEF n
  <2>2. At(p, "done")'
    BY <1>0, <2>1, IdleFrame DEF Drop, At
  <2> QED BY <1>1, <2>1, <2>2 DEF RowsDone
<1>4. ASSUME NEW p \in Reqs, MarkVerified(p) PROVE RowsDone'
  <2>1. \A v \in users' : \E u \in users : v.tok = u.tok
    BY <1>0, <1>4, UsersMarked
  <2> QED BY <1>1, <2>1 DEF RowsDone
<1>5. ASSUME NEW p \in Reqs, CreateMeta(p) PROVE users' = users
  BY <1>5 DEF CreateMeta
<1> QED BY <1>2, <1>3, <1>4, <1>5, RowsQuiet

\* A row becomes visible when its request has made sure of everything that
\* TenantUsers asks of it.
LEMMA JoinStep ==
  ASSUME SignupInv, SignupInv', NEW p \in Reqs, CreateUser(p)
  PROVE  Signup!Next \/ UNCHANGED Signup!vars
<1> USE DEF disk, tables, post
<1> DEFINE f == frame[p]
           n == [code |-> f.code, email |-> f.email, tok |-> p,
                 admin |-> f.op = "admin", verified |-> FALSE]
<1>0. TypeOK /\ TokensOK /\ ClaimsOK /\ OpOK(p) /\ f.pc = "user"
  BY Awaiting DEF SignupInv, IInv, Settle, CreateUser, At
<1>1. /\ mails' = mails /\ metas' = metas
      /\ {c \in metas : Connectable(c)}' = {c \in metas : Connectable(c)}
  BY DEF CreateUser, Connectable
<1>a. Asked' = Asked
  <2>1. f.op # "verify"
    BY <1>0 DEF OpOK
  <2>2. \A q \in Reqs : Loses(q) /\ (q # p => frame'[q] = frame[q])
    BY SettleLoses DEF Settle, SignupInv
  <2> QED BY <2>1, <2>2, AskedKept
<1>2. CASE users' = users
  BY <1>1, <1>a, <1>2 DEF Signup!vars, Asked
<1>3. CASE users' # users
  <2>1. /\ users' = users \cup {n} /\ Connectable(f.code) /\ f.code \in metas
        /\ \A u \in users : ~(u.code = f.code /\ u.email = f.email)
    BY <1>3 DEF CreateUser
  <2>2. n \in User
    BY <1>0 DEF OpOK, User
  <2>3. /\ n.code = f.code /\ n.email = f.email /\ n.tok = p /\ ~n.verified
        /\ n.admin => Claims(p, f.code)
    BY <1>0 DEF Claims
  <2> HIDE DEF n
  <2>4. \A v \in users : v.tok # p
    BY <1>0 DEF SignupInv, RowsDone, At
  <2>5. n.admin => \A v \in users : v.code = f.code => ~v.admin
    BY <1>0, <2>3 DEF ClaimsOK, OpOK
  <2>6. \A m \in mails : m.tok = p => m.code = f.code /\ m.email = f.email
    BY <1>0 DEF TokensOK, TokensOf, OpOK
  <2>7. Signup!Join(n)
    BY <1>1, <1>a, <2>1, <2>3, <2>4, <2>5, <2>6 DEF Signup!Join, Asked
  <2> QED BY <2>2, <2>7 DEF Signup!Next
<1> QED BY <1>2, <1>3

\* The update by address confirms the one row the confirmation is entitled to.
LEMMA ConfirmStep ==
  ASSUME SignupInv, NEW p \in Reqs, MarkVerified(p)
  PROVE  Signup!Next
<1> USE DEF disk, tables, post
<1> DEFINE k == [code |-> frame[p].code, tok |-> frame[p].tok]
<1>1. PICK w \in users :
        /\ frame[p].pc = "mark" /\ frame[p].op = "verify" /\ w.code = frame[p].code
        /\ frame[p].tok # None => frame[p].tok = w.tok /\ LinkOf(w) \in mails
        /\ users' = (users \ {w}) \cup {[w EXCEPT !.verified = TRUE]}
  BY MarkOne DEF SignupInv
<1>2. mails' = mails /\ {c \in metas : Connectable(c)}' = {c \in metas : Connectable(c)}
  BY DEF MarkVerified, Connectable
<1>3. k \in Asked
  BY <1>1 DEF Asked, Verifying
<1>4. Signup!Entitles(k, w)
  BY <1>1 DEF Signup!Entitles, LinkOf
<1>5. Asked' \subseteq Asked
  BY SettleLoses, AskedLost DEF Settle, SignupInv
<1> HIDE DEF k
<1>6. Signup!Confirm(w)
  BY <1>1, <1>2, <1>3, <1>4, <1>5 DEF Signup!Confirm, Asked
<1> QED BY <1>1, <1>6 DEF Signup!Next

\* A link that is opened starts a confirmation; any other arrival starts none.
LEMMA AskStep ==
  ASSUME SignupInv, NEW p \in Reqs, Arrive(p)
  PROVE  Signup!Next
<1> USE DEF disk, tables, post
<1>0. TypeOK /\ frame \in [Reqs -> Frame] /\ NewOK
  BY DEF SignupInv, IInv, TypeOK
<1>1. PICK op \in {"admin", "user", "verify"}, pc \in {"find", "publish", "lookup"},
           c \in Codes, e \in Emails \cup {None}, tok \in Reqs \cup {None} :
        /\ Request(p, NewFrame(op, pc, c, e, tok))
        /\ op = "verify" => /\ \E m \in mails : m.code = c
                            /\ tok # None => \E m \in mails : m.tok = tok
  BY <1>0, Arrivals
<1>2. /\ users' = users /\ mails' = mails
      /\ {x \in metas : Connectable(x)}' = {x \in metas : Connectable(x)}
  BY DEF Arrive, CreateClientAdmin, CreateClientUser, VerifyUserEmail, Connectable
<1> DEFINE g == NewFrame(op, pc, c, e, tok)
<1>3. g.op = op /\ g.code = c /\ g.tok = tok
  BY DEF NewFrame
<1>4. frame' = [frame EXCEPT ![p] = g] /\ frame[p].pc = "new" /\ frame[p].op = "none"
  BY <1>0, <1>1 DEF Request, At, NewOK
<1> HIDE DEF g
<1>5. frame'[p] = g /\ \A q \in Reqs \ {p} : frame'[q] = frame[q]
  BY <1>0, <1>4
<1>6. CASE op # "verify"
  <2>1. \A q \in Reqs : Loses(q)
    BY <1>3, <1>5, <1>6 DEF Loses
  <2>2. Asked' \subseteq Asked
    BY <2>1, AskedLost
  <2>3. Signup!Forget
    BY <1>2, <2>2 DEF Signup!Forget, Asked
  <2> QED BY <2>3 DEF Signup!Next
<1>7. CASE op = "verify"
  <2>1. Verifying' = Verifying \cup {p} /\ p \notin Verifying
    BY <1>3, <1>4, <1>5, <1>7 DEF Verifying
  <2>2. Asked' = Asked \cup {[code |-> c, tok |-> tok]}
    BY <1>3, <1>5, <2>1 DEF Asked, Verifying
  <2>3. c \in Signup!Tenants /\ tok \in Signup!Tokens \cup {None}
    BY <1>1, <1>7 DEF Signup!Tenants, Signup!Tokens
  <2>4. Signup!Ask(c, tok)
    BY <1>2, <2>2 DEF Signup!Ask, Asked
  <2> QED BY <2>3, <2>4 DEF Signup!Next
<1> QED BY <1>6, <1>7

\* Every other step delivers a link, serves a tenant, ends a confirmation or
\* does not show.
LEMMA SignupStep ==
  SignupInv /\ SignupInv' /\ [Next]_vars => [Signup!Next]_(Signup!vars)
<1> SUFFICES ASSUME SignupInv, SignupInv', [Next]_vars
             PROVE  Signup!Next \/ UNCHANGED Signup!vars
  OBVIOUS
<1> USE DEF disk, tables, post
<1>0. /\ {c \in metas : Connectable(c)} = metas
      /\ {c \in metas : Connectable(c)}' = metas'
  BY DEF SignupInv, MetasOK, Connectable
<1>1. ASSUME NEW p \in Reqs, Arrive(p) PROVE Signup!Next \/ UNCHANGED Signup!vars
  BY <1>1, AskStep
<1>2. ASSUME NEW p \in Reqs, Settle(p) PROVE Signup!Next \/ UNCHANGED Signup!vars
  <2>0. OpOK(p) /\ \A q \in Reqs : Loses(q) /\ (q # p => frame'[q] = frame[q])
    BY <1>2, Awaiting, SettleLoses DEF SignupInv
  <2>1. CASE CreateUser(p)
    BY <2>1, JoinStep
  <2>2. CASE MarkVerified(p)
    BY <2>2, ConfirmStep
  <2>3. Asked' \subseteq Asked
    BY <2>0, AskedLost
  <2>4. ~CreateUser(p) /\ ~MarkVerified(p) => users' = users /\ mails' = mails
    BY <1>2 DEF Settle, FindSchema, CreateDatabase, RegisterEnvKey, GenerateSchema,
       MigrateDeploy, PrismaGenerate, UpdateClient, CreateMeta, PublishCreated, LookupToken, Fail
  <2>5. CASE ~CreateUser(p) /\ ~MarkVerified(p) /\ metas' = metas
    <3>1. Signup!Forget
      BY <1>0, <2>3, <2>4, <2>5 DEF Signup!Forget, Asked
    <3> QED BY <3>1 DEF Signup!Next
  <2>6. CASE ~CreateUser(p) /\ ~MarkVerified(p) /\ metas' # metas
    <3>1. /\ metas' = metas \cup {frame[p].code} /\ frame[p].pc = "meta"
      BY <1>2, <2>6 DEF Settle, FindSchema, CreateDatabase, RegisterEnvKey, GenerateSchema,
         MigrateDeploy, PrismaGenerate, UpdateClient, CreateMeta, PublishCreated, LookupToken,
         Fail, At
    <3>2. frame[p].op # "verify" /\ frame[p].code \in Codes
      BY <2>0, <3>1 DEF OpOK, SetupPcs
    <3>3. Asked' = Asked
      BY <2>0, <3>2, AskedKept
    <3>4. Signup!Serve(frame[p].code)
      BY <1>0, <2>4, <2>6, <3>1, <3>3 DEF Signup!Serve, Asked
    <3> QED BY <3>2, <3>4 DEF Signup!Next
  <2> QED BY <2>1, <2>2, <2>5, <2>6
<1>3. CASE SendMail
  <2>1. PICK m \in outbox :
          /\ mails' = mails \cup {m} \/ mails' = mails
          /\ users' = users /\ metas' = metas /\ frame' = frame
    BY <1>3 DEF SendMail
  <2>2. Asked' = Asked
    BY <2>1 DEF Asked, Verifying
  <2>3. CASE mails' = mails
    BY <1>0, <2>1, <2>2, <2>3 DEF Signup!vars, Asked
  <2>4. CASE mails' = mails \cup {m}
    <3>1. m \in Mail /\ m.tok \in Reqs /\ TokensOK
      BY DEF SignupInv, IInv, TypeOK, Mail
    <3>2. \A x \in users \cup mails : x.tok = m.tok => x.code = m.code /\ x.email = m.email
      BY <3>1 DEF TokensOK, TokensOf
    <3>3. Signup!Deliver(m)
      BY <1>0, <2>1, <2>2, <2>4, <3>2 DEF Signup!Deliver, Asked
    <3> QED BY <3>1, <3>3 DEF Signup!Next
  <2> QED BY <2>1, <2>3, <2>4
<1>4. CASE UNCHANGED vars
  <2>1. Asked' = Asked /\ users' = users /\ mails' = mails /\ metas' = metas
    BY <1>4 DEF vars, Asked, Verifying
  <2> QED BY <1>0, <2>1 DEF Signup!vars, Asked
<1> QED BY <1>1, <1>2, <1>3, <1>4, Steps

\* Provisioning, signup and verification implement TenantUsers, for any number
\* of tenants, addresses and overlapping requests.
THEOREM SignupImplemented == Spec => ImplementsSignup
<1>1. Init => MetasOK /\ RowsDone /\ NewOK /\ Signup!Init
  <2>1. Init => \A p \in Reqs : frame[p].op = "none"
    BY IdleFrame DEF Init
  <2>2. Init => Asked = {}
    BY <2>1 DEF Asked, Verifying
  <2> QED BY <2>1, <2>2 DEF Init, MetasOK, RowsDone, NewOK, Signup!Init, Asked
<1>2. IInv /\ MetasOK /\ RowsDone /\ NewOK /\ [Next]_vars => MetasOK' /\ RowsDone' /\ NewOK'
  <2>1. IInv /\ NewOK /\ [Next]_vars => NewOK'
    BY LocalsStep DEF LocalsKept, NewOK, At
  <2> QED BY <2>1, MetasStep, RowsDoneStep
<1>3. Spec => []SignupInv
  BY <1>1, <1>2, Inductive, PTL DEF Spec, SignupInv
<1> QED BY <1>1, <1>3, SignupStep, PTL DEF Spec, ImplementsSignup, Signup!Spec
=============================================================================
