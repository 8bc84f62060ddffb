---------------------------- MODULE Provisioning ----------------------------
(***************************************************************************)
(* How a client gets a database of its own and its first users:            *)
(* CreateClientAdminUserHandler (database, .env key, the migrate.js child  *)
(* process, the root row, the mail, the rows in the tenant's database),    *)
(* CreateClientUserHandler and the mail verification that follows.         *)
(*                                                                         *)
(* Every HTTP request is a process; one step is what runs from one await,  *)
(* or one command of the child process, to the next.  The child processes  *)
(* of different requests share prisma/schema.tenant.prisma.                *)
(***************************************************************************)
EXTENDS Naturals, FiniteSets

CONSTANTS
  Codes,        \* client codes with a row in the root database, in lower case
  Paid,         \* the ones whose row says isPaid
  Emails,       \* mail addresses
  Reqs,         \* the requests of a behaviour (bound); a signup's token is its request
  MaxInFlight,  \* how many of them may be in flight at once (bound)
  None,
  Faulty        \* do database calls and child processes ever fail?

ASSUME PaidAssumption == Paid \subseteq Codes
ASSUME AbsentAssumption == None \notin Codes /\ None \notin Reqs
ASSUME BoundAssumption == MaxInFlight \in Nat /\ Faulty \in BOOLEAN

VARIABLES
  databases,   \* databases that exist: client_<code>
  envKeys,     \* DATABASE_URL_CLIENTCREATE_<code> lines of .env
  schemaFile,  \* the code prisma/schema.tenant.prisma was last written for
  migrated,    \* databases that hold the tables
  generated,   \* prisma/generated/client_<code> directories
  located,     \* root client rows that carry a dbUrl
  metas,       \* tenant databases that hold their own client row
  users,       \* user rows of the tenant databases
  outbox,      \* UserCreatedEvents on their way to the mail service
  mails,       \* verification mails delivered
  frame        \* the requests in flight

disk == <<envKeys, schemaFile, generated>>
tables == <<databases, migrated, located, metas, users>>
post == <<outbox, mails>>
vars == <<disk, tables, post, frame>>

User == [code : Codes, email : Emails, tok : Reqs, admin : BOOLEAN, verified : BOOLEAN]
Mail == [code : Codes, email : Emails, tok : Reqs]

Pcs == {"new", "done", "find", "create", "env", "gen", "deploy", "generate", "update",
        "meta", "publish", "user", "lookup", "mark"}

\* The locals of a request; round counts the runs of migrate.js.
Frame == [op : {"none", "admin", "user", "verify"}, pc : Pcs, code : Codes \cup {None},
          email : Emails \cup {None}, tok : Reqs \cup {None}, round : {0, 1, 2}]

NewFrame(op, pc, code, email, tok) ==
  [op |-> op, pc |-> pc, code |-> code, email |-> email, tok |-> tok, round |-> 1]

Idle(pc) == [op |-> "none", pc |-> pc, code |-> None, email |-> None, tok |-> None, round |-> 0]

Init ==
  /\ databases = {} /\ envKeys = {} /\ schemaFile = None
  /\ migrated = {} /\ generated = {} /\ located = {}
  /\ metas = {} /\ users = {} /\ outbox = {} /\ mails = {}
  /\ frame = [p \in Reqs |-> Idle("new")]

At(p, pc) == frame[p].pc = pc
InFlight == {p \in Reqs : frame[p].pc \notin {"new", "done"}}
Request(p, f) ==
  /\ At(p, "new") /\ Cardinality(InFlight) < MaxInFlight
  /\ frame' = [frame EXCEPT ![p] = f]
Goto(p, pc) == frame' = [frame EXCEPT ![p].pc = pc]
Drop(p) == frame' = [frame EXCEPT ![p] = Idle("done")]

\* What UserCreatedEvent carries.
Event(p) == [code |-> frame[p].code, email |-> frame[p].email, tok |-> p]

\* getPrismaClientByCode(code), then a query: the root row gives the url, the
\* generated client is imported and the tables are there.
Connectable(c) == c \in located \cap generated \cap migrated

-----------------------------------------------------------------------------
(* Requests arrive.                                                        *)

\* The root row exists, says isPaid, and never says isDbCreated: nothing in
\* the code sets that column.
CreateClientAdmin(p) ==
  \E c \in Paid, e \in Emails :
    /\ Request(p, NewFrame("admin", "find", c, e, p))
    /\ UNCHANGED <<disk, tables, post>>

CreateClientUser(p) ==
  \E c \in Paid, e \in Emails :
    /\ Request(p, NewFrame("user", "publish", c, e, p))
    /\ UNCHANGED <<disk, tables, post>>

\* A link: an encrypted client code and a signup token, as delivered mails carry
\* them, or the code alone (no parameter is validated).
VerifyUserEmail(p) ==
  \E c \in {m.code : m \in mails}, tok \in {m.tok : m \in mails} \cup {None} :
    /\ Request(p, NewFrame("verify", "lookup", c, None, tok))
    /\ UNCHANGED <<disk, tables, post>>

-----------------------------------------------------------------------------
(* CreateClientAdminUserHandler.                                           *)

\* createDatabase: SELECT SCHEMA_NAME ...; a database that is there already
\* ends the request, whoever made it.
FindSchema(p) ==
  /\ At(p, "find")
  /\ IF frame[p].code \in databases THEN Drop(p) ELSE Goto(p, "create")
  /\ UNCHANGED <<disk, tables, post>>

\* Mutant: the query is not awaited and is lost.
CreateDatabaseLost(p) ==
  /\ At(p, "create") /\ Goto(p, "env")
  /\ UNCHANGED <<disk, tables, post>>

\* ... then CREATE DATABASE IF NOT EXISTS.
CreateDatabase(p) ==
  /\ At(p, "create") /\ Goto(p, "env")
  /\ databases' = databases \cup {frame[p].code}
  /\ UNCHANGED <<disk, migrated, located, metas, users, post>>

\* Mutant: register-env-key.js runs without config_name.
RegisterEnvKeyAuto(p) ==
  /\ At(p, "env") /\ Goto(p, "gen")
  /\ envKeys' = envKeys \cup {None}
  /\ UNCHANGED <<schemaFile, generated, tables, post>>

\* register-env-key.js appends the key unless the file holds it.
RegisterEnvKey(p) ==
  /\ At(p, "env") /\ Goto(p, "gen")
  /\ envKeys' = envKeys \cup {frame[p].code}
  /\ UNCHANGED <<schemaFile, generated, tables, post>>

\* migrate.js: generate-schema.js writes the one schema file, with the
\* datasource and the output directory of this client ...
GenerateSchema(p) ==
  /\ At(p, "gen") /\ Goto(p, "deploy")
  /\ schemaFile' = frame[p].code
  /\ UNCHANGED <<envKeys, generated, tables, post>>

\* ... prisma migrate deploy goes where that file now says ...
MigrateDeploy(p) ==
  /\ At(p, "deploy") /\ Goto(p, "generate")
  /\ migrated' = migrated \cup {schemaFile}
  /\ UNCHANGED <<disk, databases, located, metas, users, post>>

\* ... and so does prisma generate.  The handler runs migrate.js twice: its
\* test for an existing directory looks under dist/, where none is made.
PrismaGenerate(p) ==
  /\ At(p, "generate")
  /\ generated' = generated \cup {schemaFile}
  /\ frame' = [frame EXCEPT ![p].pc = IF frame[p].round = 1 THEN "gen" ELSE "update",
                            ![p].round = 2]
  /\ UNCHANGED <<envKeys, schemaFile, tables, post>>

\* rootClientRepository.updateClient, then eventBus.publish.
UpdateClient(p) ==
  /\ At(p, "update") /\ Goto(p, "meta")
  /\ located' = located \cup {frame[p].code}
  /\ outbox' = outbox \cup {Event(p)}
  /\ UNCHANGED <<disk, databases, migrated, metas, users, mails>>

\* Mutant: the client row is upserted.
CreateMetaUpsert(p) ==
  /\ At(p, "meta")
  /\ IF Connectable(frame[p].code)
     THEN metas' = metas \cup {frame[p].code} /\ Goto(p, "user")
     ELSE UNCHANGED metas /\ Drop(p)
  /\ UNCHANGED <<disk, databases, migrated, located, users, post>>

\* createLegacyCompatibilityClientMeta: a client row with the root row's id;
\* the id is the primary key.
CreateMeta(p) ==
  /\ At(p, "meta")
  /\ IF Connectable(frame[p].code) /\ frame[p].code \notin metas
     THEN metas' = metas \cup {frame[p].code} /\ Goto(p, "user")
     ELSE UNCHANGED metas /\ Drop(p)
  /\ UNCHANGED <<disk, databases, migrated, located, users, post>>

-----------------------------------------------------------------------------
(* CreateClientUserHandler, the rows and the mails.                        *)

\* The password is hashed; the event is published before the row exists.
PublishCreated(p) ==
  /\ At(p, "publish") /\ Goto(p, "user")
  /\ outbox' = outbox \cup {Event(p)}
  /\ UNCHANGED <<disk, tables, mails>>

\* tenantUserRepository.createUser: clientId refers to the client row of the
\* tenant's database, the address is unique there.
CreateUser(p) ==
  /\ At(p, "user") /\ Drop(p)
  /\ LET c == frame[p].code
         e == frame[p].email
     IN IF /\ Connectable(c) /\ c \in metas
           /\ \A u \in users : ~(u.code = c /\ u.email = e)
        THEN users' = users \cup {[code |-> c, email |-> e, tok |-> p,
                                   admin |-> frame[p].op = "admin", verified |-> FALSE]}
        ELSE UNCHANGED users
  /\ UNCHANGED <<disk, databases, migrated, located, metas, post>>

\* UserEventsHandler sends the mail, at any time after the publish; a send
\* that fails is lost.
SendMail ==
  \E m \in outbox :
    /\ outbox' = outbox \ {m}
    /\ \/ mails' = mails \cup {m}
       \/ Faulty /\ UNCHANGED mails
    /\ UNCHANGED <<disk, tables, frame>>

-----------------------------------------------------------------------------
(* VerifyUserEmailHandler (what tenantLogin does next is in Sessions).     *)

\* Mutant: the token of the link is not part of the query.
FoundUsersAnyToken(p) == {u \in users : u.code = frame[p].code}

\* The users findUserBySignupVerifyToken can return: findFirst in the database
\* of the decrypted client code, where an undefined token is no filter.
FoundUsers(p) ==
  {u \in users : u.code = frame[p].code /\ frame[p].tok \in {u.tok, None}}

\* The user found must not be verified yet.
LookupToken(p) ==
  /\ At(p, "lookup")
  /\ IF Connectable(frame[p].code) /\ FoundUsers(p) # {}
     THEN \E u \in FoundUsers(p) :
            IF u.verified THEN Drop(p)
            ELSE frame' = [frame EXCEPT ![p].pc = "mark", ![p].email = u.email]
     ELSE Drop(p)
  /\ UNCHANGED <<disk, tables, post>>

\* Mutant: the update is not confined to the tenant's database.
MarkVerifiedEverywhere(p) ==
  /\ At(p, "mark") /\ Drop(p)
  /\ users' = {IF u.email = frame[p].email THEN [u EXCEPT !.verified = TRUE] ELSE u : u \in users}
  /\ UNCHANGED <<disk, databases, migrated, located, metas, post>>

\* updateUserVerifiedTrue, by the address of the user found.
MarkVerified(p) ==
  /\ At(p, "mark") /\ Drop(p)
  /\ users' = {IF u.code = frame[p].code /\ u.email = frame[p].email
               THEN [u EXCEPT !.verified = TRUE] ELSE u : u \in users}
  /\ UNCHANGED <<disk, databases, migrated, located, metas, post>>

-----------------------------------------------------------------------------
\* An awaited call rejects or the child process exits with an error; nothing
\* done before is undone.
Fail(p) ==
  /\ Faulty /\ p \in InFlight /\ Drop(p)
  /\ UNCHANGED <<disk, tables, post>>

Arrive(p) == CreateClientAdmin(p) \/ CreateClientUser(p) \/ VerifyUserEmail(p)

Settle(p) ==
  \/ FindSchema(p) \/ CreateDatabase(p) \/ RegisterEnvKey(p) \/ GenerateSchema(p)
  \/ MigrateDeploy(p) \/ PrismaGenerate(p) \/ UpdateClient(p) \/ CreateMeta(p)
  \/ PublishCreated(p) \/ CreateUser(p) \/ LookupToken(p) \/ MarkVerified(p) \/ Fail(p)

Next == SendMail \/ \E p \in Reqs : Arrive(p) \/ Settle(p)

Spec == Init /\ [][Next]_vars

-----------------------------------------------------------------------------
(* Properties.                                                             *)

\* What the databases, the files and the handlers can hold.
TypeOK ==
  /\ databases \subseteq Codes /\ envKeys \subseteq Codes
  /\ schemaFile \in Codes \cup {None}
  /\ migrated \subseteq Codes /\ generated \subseteq Codes
  /\ located \subseteq Codes /\ metas \subseteq Codes
  /\ users \subseteq User
  /\ outbox \subseteq Mail /\ mails \subseteq Mail
  /\ frame \in [Reqs -> Frame]

\* Two requests for one client both pass the check of createDatabase; still
\* the tenant's database never gets two administrators.
AtMostOneAdmin ==
  \A u, v \in users : u.admin /\ v.admin /\ u.code = v.code => u = v

\* migrate.js may work on another request's client, since the schema file is
\* shared; but never on a database that was not created or whose .env key the
\* schema cannot resolve.
MigrationsConfined == migrated \cup generated \subseteq databases \cap envKeys

\* VerifyUserEmailHandler marks a user of the link's own tenant, and a link that
\* carries a token marks only the user that token was mailed to: between the
\* lookup by token and the update by address no other row comes in, and the mail
\* of a signup that lost the race for the address marks nobody.  A link without
\* its token may mark any user of the tenant.
VerifiedByMail ==
  [][\A u \in users' \ users : u.verified =>
       \E p \in Reqs :
         /\ At(p, "mark") /\ ~At(p, "mark")' /\ frame[p].code = u.code
         /\ \/ frame[p].tok = None
            \/ /\ frame[p].tok = u.tok
               /\ [code |-> u.code, email |-> u.email, tok |-> u.tok] \in mails]_vars

Verifying == {p \in Reqs : frame[p].op = "verify"}

Signup == INSTANCE TenantUsers WITH
  served <- {c \in metas : Connectable(c)}, rows <- users, mailed <- mails,
  asked <- {[code |-> frame[p].code, tok |-> frame[p].tok] : p \in Verifying}

\* The handlers of provisioning, signup and verification, with their awaits,
\* the shared schema file, mails sent before the row exists and failures half
\* way, implement TenantUsers.
ImplementsSignup == Signup!Spec

\* When both runs of migrate.js have exited with 0 the handler reports its
\* own database as migrated, and migrate.js its own client as generated.
MigrationTargetsOwn ==
  \A p \in Reqs : At(p, "update") => frame[p].code \in migrated \cap generated
=============================================================================
