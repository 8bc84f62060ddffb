------------------------------ MODULE Sessions ------------------------------
(***************************************************************************)
(* The session core of the user service: how AuthService hands out access  *)
(* and refresh tokens, how CustomCacheService mirrors and revokes them in  *)
(* Redis, how UpdateRefreshAccessTokenHandler redeems a refresh token and  *)
(* how JwtStrategy decides whether a bearer token is still good.           *)
(*                                                                         *)
(* Every HTTP request is a process (a member of Reqs).  One step of a      *)
(* request is what the Node event loop runs from one `await` to the next,  *)
(* so the steps of different requests interleave exactly at the awaits.    *)
(* The database rows, the Redis keys and the clock are shared.             *)
(***************************************************************************)
EXTENDS Naturals, FiniteSets

CONSTANTS
  Users,          \* user ids, over all databases
  Tenants,        \* client codes with a database of their own
  Root,           \* the root database, and the cache namespace 'root'
  Home,           \* the database that holds each user's row
  TwoFactor,      \* the users whose row says isTwoFactorEnabled
  Ips,            \* client addresses
  Millis,         \* the sub-second part of a Date.now() put in a payload
  Reqs,           \* the requests of a behaviour (bound)
  MaxInFlight,    \* how many of them may be in flight at once (bound)
  RefreshTokens,  \* pool of uuidv4 values (bound)
  None,
  AccessLife,     \* lifetime of a signed access token
  AccessTTL,      \* accessTokenCacheExpiresIn
  BlackTTL,       \* accessTokenBlacklistCacheExpiresIn
  RefreshLife,    \* the 14 days of a refresh token row
  RefreshTTL,     \* refreshTokenCacheExpiresIn
  MaxTime,        \* bound on the clock
  Faulty,         \* do database and Redis calls ever reject?
  Prompt          \* are requests answered within one tick of the clock?

\* Redis and database namespaces: a tenant's client code, or 'root'.
Ns == Tenants \cup {Root}

ASSUME HomeAssumption == Home \in [Users -> Ns]
ASSUME RootAssumption == Root \notin Tenants
ASSUME NoneAssumption ==
  /\ None \notin RefreshTokens /\ None \notin Users
  /\ None \notin (Millis \X Ips)
ASSUME TwoFactorAssumption == TwoFactor \subseteq Users
ASSUME TimeAssumption ==
  /\ AccessLife \in Nat /\ AccessTTL \in Nat /\ BlackTTL \in Nat
  /\ RefreshLife \in Nat /\ RefreshTTL \in Nat /\ MaxTime \in Nat
\* Both default to one hour; they come from two environment variables.
ASSUME BlacklistAssumption == BlackTTL >= AccessLife
ASSUME FaultyAssumption == Faulty \in BOOLEAN /\ Prompt \in BOOLEAN
ASSUME InFlightAssumption == MaxInFlight \in Nat

\* An access token is its signed payload.  A login signs the bare user with
\* an iat in whole seconds, so two logins of one second sign one and the same
\* token; a refresh also signs the ip and the millisecond of the issue.
Tags == (Millis \X Ips) \cup {None}
Jwt == [user : Users, iat : Nat, tag : Tags]

Live(t, time) == time < t.iat + AccessLife

VARIABLES
  now,           \* the clock, in seconds
  rows,          \* RefreshToken rows, all databases: token -> row
  accessCache,   \* keys client:<ns>:user:<id>:token:access:<jwt>
  refreshCache,  \* keys client:<ns>:user:<id>:token:refresh:<uuid>
  blacklist,     \* keys client:<ns>:user:<id>:token:blacklist:<jwt>
  denied,        \* rows of ipDenylist
  verified,      \* users whose row says verified
  alerted,       \* users sent a security alert mail
  given,         \* access tokens replied to clients, with their namespace
  handed,        \* refresh tokens replied to clients
  revoked,       \* every <<namespace, token>> ever blacklisted (history)
  frame          \* the requests in flight

store == <<rows, accessCache, refreshCache, blacklist, denied, verified, alerted>>
history == <<given, handed, revoked>>
vars == <<now, store, history, frame>>

Row == [user : Users, ip : Ips, valid : BOOLEAN, exp : Nat]
AccessKey == [ns : Ns, tok : Jwt, exp : Nat]
RefreshKey == [ns : Ns, user : Users, ref : RefreshTokens, ip : Ips, exp : Nat]

\* A missing row is not a row.
ASSUME NoRowAssumption == None \notin Row

Pcs == {"new", "done", "mark", "pre", "inval", "scan", "black", "clrA", "delA",
        "clrR", "delR", "sign", "create", "cacheA", "cacheR", "getR", "findR",
        "theft", "deny", "notify", "getB", "getA", "findU", "ok"}

Facts == {"revoked"}

\* The locals of one request: the handler it runs, where it awaits, its
\* arguments, the tokens it works with, the keys a SCAN returned and it has
\* still to treat, and what was true of its tokens when it arrived.
Frame == [op : {"none", "login", "refresh", "validate"}, pc : Pcs,
          user : Users \cup {None}, ns : Ns \cup {None}, ip : Ips \cup {None},
          acc : Jwt \cup {None}, ref : RefreshTokens \cup {None},
          todo : SUBSET (Jwt \cup RefreshTokens), was : SUBSET Facts]

NewFrame(op, pc, user, ns, ip, acc, ref, was) ==
  [op |-> op, pc |-> pc, user |-> user, ns |-> ns, ip |-> ip,
   acc |-> acc, ref |-> ref, todo |-> {}, was |-> was]

Blank == NewFrame("none", "new", None, None, None, None, None, {})
Done == NewFrame("none", "done", None, None, None, None, None, {})

\* Root users exist, verified, before any session; a tenant user is verified
\* by the mail that ends in tenantLogin.
Init ==
  /\ now = 0
  /\ rows = [r \in RefreshTokens |-> None]
  /\ accessCache = {} /\ refreshCache = {} /\ blacklist = {}
  /\ denied = {}
  /\ verified = {u \in Users : Home[u] = Root}
  /\ alerted = {}
  /\ given = {} /\ handed = {} /\ revoked = {}
  /\ frame = [p \in Reqs |-> Blank]

-----------------------------------------------------------------------------
(* Helpers: the cache service's keys and the token repositories' queries.  *)

SameAccess(x, e) == x.ns = e.ns /\ x.tok = e.tok
SameRefresh(x, e) == x.ns = e.ns /\ x.user = e.user /\ x.ref = e.ref

\* cacheManager.set overwrites the value and the expiry of its key.
Put(S, e, Same(_, _)) == {x \in S : ~Same(x, e)} \cup {e}

Cached(S, ns, t) == \E e \in S : e.ns = ns /\ e.tok = t

\* SCAN MATCH <prefix>:* for one user of one namespace.
AccessKeysOf(ns, u) ==
  {e.tok : e \in {x \in accessCache : x.ns = ns /\ x.tok.user = u}}
RefreshKeysOf(ns, u) ==
  {e.ref : e \in {x \in refreshCache : x.ns = ns /\ x.user = u}}

\* The RefreshToken rows of a user in one database: rows live in Home[user].
ValidRowsOf(u, db) ==
  {r \in RefreshTokens :
     rows[r] # None /\ rows[r].user = u /\ Home[u] = db /\ rows[r].valid}

\* Mutant: only rows that have not expired are invalidated.
InvalidatedUnexpired(u, db) ==
  [r \in RefreshTokens |->
     IF r \in ValidRowsOf(u, db) /\ rows[r].exp > now
     THEN [rows[r] EXCEPT !.valid = FALSE]
     ELSE rows[r]]

\* updateMany({ userId, isValid: true }, { isValid: false }) in database db.
Invalidated(u, db) ==
  [r \in RefreshTokens |->
     IF r \in ValidRowsOf(u, db) THEN [rows[r] EXCEPT !.valid = FALSE]
     ELSE rows[r]]

At(p, pc) == frame[p].pc = pc
InFlight == {p \in Reqs : frame[p].pc \notin {"new", "done"}}
Request(p, f) ==
  /\ At(p, "new") /\ Cardinality(InFlight) < MaxInFlight
  /\ frame' = [frame EXCEPT ![p] = f]
Goto(p, pc) == frame' = [frame EXCEPT ![p].pc = pc]
Drop(p) == frame' = [frame EXCEPT ![p] = Done]

-----------------------------------------------------------------------------
(* Requests arrive.                                                        *)

LoginFrame(u, ns, ip, pc) ==
  NewFrame("login", pc, u, ns, ip, None, None, {})

\* LoginUserHandler: looks the user up in the root database; a wrong
\* password or an unverified user is refused before anything is changed.
LoginUser(p) ==
  \E u \in Users, ip \in Ips :
    /\ Home[u] = Root /\ u \in verified
    /\ Request(p, LoginFrame(u, Root, ip, "pre"))
    /\ UNCHANGED <<now, store, history>>

\* The known-user branch of GoogleSocialCreateOrLoginHandler, and the last
\* call of Login2faTrustedDeviceRegHandler: straight into AuthService.login.
LoginKnown(p) ==
  \E u \in Users, ip \in Ips :
    /\ Home[u] = Root /\ u \in verified
    /\ Request(p, LoginFrame(u, Root, ip, "inval"))
    /\ UNCHANGED <<now, store, history>>

\* Mutant: tenantLogin is called without its client code.
VerifyUserEmailNoCode(p) ==
  \E u \in Users, ip \in Ips :
    /\ Home[u] # Root /\ u \notin verified
    /\ Request(p, LoginFrame(u, None, ip, "mark"))
    /\ UNCHANGED <<now, store, history>>

\* VerifyUserEmailHandler reads the tenant's user and refuses a verified one.
VerifyUserEmail(p) ==
  \E u \in Users, ip \in Ips :
    /\ Home[u] # Root /\ u \notin verified
    /\ Request(p, LoginFrame(u, Home[u], ip, "mark"))
    /\ UNCHANGED <<now, store, history>>

\* POST /users/auth/refresh: the body carries a user id and a token, or no
\* token (no field of it is validated), the X-Tenant-ID header any namespace.
RefreshAccess(p) ==
  \E u \in Users, r \in handed \cup {None}, ns \in Ns, ip \in Ips :
    /\ Request(p, NewFrame("refresh", "getR", u, ns, ip, None, r, {}))
    /\ UNCHANGED <<now, store, history>>

ValidateFacts(ns, t) == {x \in Facts : x = "revoked" /\ <<ns, t>> \in revoked}

\* JwtAuthGuard: passport has checked the signature and the expiry before
\* JwtStrategy.validate runs; the namespace is the X-Tenant-ID header.
Validate(p) ==
  \E g \in given, ns \in Ns, ip \in Ips :
    /\ Live(g.tok, now)
    /\ Request(p, NewFrame("validate", "getB", g.tok.user, ns, ip, g.tok, None,
                           ValidateFacts(ns, g.tok)))
    /\ UNCHANGED <<now, store, history>>

\* POST /users/auth/device: once JwtAuthGuard has let the request through, its
\* handler redeems the deviceId of the body, if there is one, as a refresh token,
\* for the user of the validated token and the address of its cached payload.
UpdateTrustedDevice(p) ==
  /\ At(p, "ok") /\ frame[p].op = "validate"
  /\ \E r \in handed \cup {None}, ip \in Ips :
       frame' = [frame EXCEPT ![p] = NewFrame("refresh", "getR", frame[p].user,
                                              frame[p].ns, ip, None, r, {})]
  /\ UNCHANGED <<now, store, history>>

-----------------------------------------------------------------------------
(* AuthService.login and tenantLogin.                                      *)

\* updateUserVerifiedTrue
MarkVerified(p) ==
  /\ At(p, "mark") /\ Goto(p, "inval")
  /\ verified' = verified \cup {frame[p].user}
  /\ UNCHANGED <<now, rows, accessCache, refreshCache, blacklist, denied, alerted, history>>

\* Mutant: login clears the caches without blacklisting first.
InvalidateRefreshNoScan(p) ==
  /\ frame[p].pc \in {"pre", "inval"}
  /\ Goto(p, IF At(p, "pre") THEN "inval" ELSE "clrA")
  /\ rows' = Invalidated(frame[p].user, frame[p].ns)
  /\ UNCHANGED <<now, accessCache, refreshCache, blacklist, denied, verified, alerted, history>>

\* updateInvalidatePreviousRefreshTokens in LoginUserHandler, then the same
\* update again as the first step of login (tenantLogin: in the tenant's
\* database).
InvalidateRefresh(p) ==
  /\ frame[p].pc \in {"pre", "inval"}
  /\ Goto(p, IF At(p, "pre") THEN "inval" ELSE "scan")
  /\ rows' = Invalidated(frame[p].user, frame[p].ns)
  /\ UNCHANGED <<now, accessCache, refreshCache, blacklist, denied, verified, alerted, history>>

\* Where a request goes once the access keys it found are blacklisted.
AfterBlack(p) == IF frame[p].op = "login" THEN "clrA" ELSE "cacheA"

\* setUserAccessTokenBlacklistCache: the SCAN ...
ScanAccess(p) ==
  /\ At(p, "scan")
  /\ LET keys == AccessKeysOf(frame[p].ns, frame[p].user)
     IN frame' = [frame EXCEPT ![p].todo = keys,
                               ![p].pc = IF keys = {} THEN AfterBlack(p) ELSE "black"]
  /\ UNCHANGED <<now, store, history>>

\* ... and one awaited set per key it returned.
BlacklistKey(p) ==
  /\ At(p, "black")
  /\ \E t \in frame[p].todo :
       /\ blacklist' = Put(blacklist,
                           [ns |-> frame[p].ns, tok |-> t, exp |-> now + BlackTTL],
                           SameAccess)
       /\ revoked' = revoked \cup {<<frame[p].ns, t>>}
       /\ frame' = [frame EXCEPT ![p].todo = @ \ {t},
                                 ![p].pc = IF frame[p].todo = {t} THEN AfterBlack(p)
                                           ELSE "black"]
  /\ UNCHANGED <<now, rows, accessCache, refreshCache, denied, verified, alerted,
                 given, handed>>

\* clearUserAllTokenCaches: deleteKeysByPattern on the access keys ...
ScanClearAccess(p) ==
  /\ At(p, "clrA")
  /\ LET keys == AccessKeysOf(frame[p].ns, frame[p].user)
     IN frame' = [frame EXCEPT ![p].todo = keys,
                               ![p].pc = IF keys = {} THEN "clrR" ELSE "delA"]
  /\ UNCHANGED <<now, store, history>>

DeleteAccess(p) ==
  /\ At(p, "delA")
  /\ \E t \in frame[p].todo :
       /\ accessCache' = {e \in accessCache : ~(e.ns = frame[p].ns /\ e.tok = t)}
       /\ frame' = [frame EXCEPT ![p].todo = @ \ {t},
                                 ![p].pc = IF frame[p].todo = {t} THEN "clrR" ELSE "delA"]
  /\ UNCHANGED <<now, rows, refreshCache, blacklist, denied, verified, alerted, history>>

\* Mutant: only the access keys are cleared.
ScanClearRefreshNone(p) ==
  /\ At(p, "clrR") /\ Goto(p, "sign")
  /\ UNCHANGED <<now, store, history>>

\* ... and on the refresh keys.
ScanClearRefresh(p) ==
  /\ At(p, "clrR")
  /\ LET keys == RefreshKeysOf(frame[p].ns, frame[p].user)
     IN frame' = [frame EXCEPT ![p].todo = keys,
                               ![p].pc = IF keys = {} THEN "sign" ELSE "delR"]
  /\ UNCHANGED <<now, store, history>>

DeleteRefresh(p) ==
  /\ At(p, "delR")
  /\ \E r \in frame[p].todo :
       /\ refreshCache' = {e \in refreshCache :
                             ~(e.ns = frame[p].ns /\ e.user = frame[p].user /\ e.ref = r)}
       /\ frame' = [frame EXCEPT ![p].todo = @ \ {r},
                                 ![p].pc = IF frame[p].todo = {r} THEN "sign" ELSE "delR"]
  /\ UNCHANGED <<now, rows, accessCache, blacklist, denied, verified, alerted, history>>

\* A user with 2FA enabled and no device token is turned away here, after
\* the old session is gone (no caller of login passes a device token).
RefuseTwoFactor(p) ==
  /\ At(p, "sign") /\ frame[p].op = "login" /\ frame[p].user \in TwoFactor
  /\ Drop(p)
  /\ UNCHANGED <<now, store, history>>

\* generateTokens / newAccessToken: jwtService.sign.
SignLogin(p) ==
  /\ At(p, "sign") /\ frame[p].op = "login" /\ frame[p].user \notin TwoFactor
  /\ frame' = [frame EXCEPT ![p].pc = "create",
                            ![p].acc = [user |-> frame[p].user, iat |-> now, tag |-> None]]
  /\ UNCHANGED <<now, store, history>>

SignRefresh(p) ==
  /\ At(p, "sign") /\ frame[p].op = "refresh"
  /\ \E ms \in Millis :
       frame' = [frame EXCEPT ![p].pc = "scan",
                              ![p].acc = [user |-> frame[p].user, iat |-> now,
                                          tag |-> <<ms, frame[p].ip>>]]
  /\ UNCHANGED <<now, store, history>>

\* refreshToken.create; expiresAt was computed together with the iat.
CreateRow(p) ==
  /\ At(p, "create")
  /\ \E r \in RefreshTokens :
       /\ rows[r] = None
       /\ rows' = [rows EXCEPT ![r] = [user |-> frame[p].user, ip |-> frame[p].ip,
                                       valid |-> TRUE,
                                       exp |-> frame[p].acc.iat + RefreshLife]]
       /\ frame' = [frame EXCEPT ![p].pc = "cacheA", ![p].ref = r]
  /\ UNCHANGED <<now, accessCache, refreshCache, blacklist, denied, verified, alerted, history>>

\* setUserAccessTokenCache, alone or as the first half of setUserAllTokenCache.
CacheAccess(p) ==
  /\ At(p, "cacheA")
  /\ accessCache' = Put(accessCache,
                        [ns |-> frame[p].ns, tok |-> frame[p].acc, exp |-> now + AccessTTL],
                        SameAccess)
  /\ Goto(p, IF frame[p].op = "refresh" \/ frame[p].ref = None THEN "ok" ELSE "cacheR")
  /\ UNCHANGED <<now, rows, refreshCache, blacklist, denied, verified, alerted, history>>

\* setUserRefreshTokenCache: the second half of setUserAllTokenCache.
CacheRefresh(p) ==
  /\ At(p, "cacheR")
  /\ refreshCache' = Put(refreshCache,
                         [ns |-> frame[p].ns, user |-> frame[p].user,
                          ref |-> frame[p].ref, ip |-> frame[p].ip,
                          exp |-> now + RefreshTTL],
                         SameRefresh)
  /\ Goto(p, "ok")
  /\ UNCHANGED <<now, rows, accessCache, blacklist, denied, verified, alerted, history>>

-----------------------------------------------------------------------------
(* UpdateRefreshAccessTokenHandler.                                        *)

\* getRefreshTokenCache: a cached token is taken at its word; only its ip is
\* compared.  A miss, and a request without a token, goes to the root database.
GetRefresh(p) ==
  /\ At(p, "getR")
  /\ LET hits == {e \in refreshCache : /\ e.ns = frame[p].ns
                                       /\ e.user = frame[p].user
                                       /\ e.ref = frame[p].ref}
     IN \/ hits = {} /\ Goto(p, "findR")
        \/ \E e \in hits :
             Goto(p, IF e.ip # frame[p].ip THEN "theft" ELSE "sign")
  /\ UNCHANGED <<now, store, history>>

\* The rows findValidRefreshToken can return: findFirst over the root table,
\* where a filter that is undefined is no filter.
FoundRows(p) ==
  {r \in RefreshTokens :
     /\ rows[r] # None /\ r \in ValidRowsOf(rows[r].user, Root) /\ rows[r].exp > now
     /\ frame[p].ref \in {r, None}}

\* Mutant: the owner of the row is not compared with the id in the body.
FindRefreshAnyOwner(p) ==
  /\ At(p, "findR")
  /\ \/ FoundRows(p) = {} /\ Drop(p)
     \/ \E r \in FoundRows(p) : Goto(p, IF rows[r].ip # frame[p].ip THEN "theft" ELSE "sign")
  /\ UNCHANGED <<now, store, history>>

\* findValidRefreshToken, the owner check and the ip check (the findUserById
\* that follows always finds the owner).
FindRefresh(p) ==
  /\ At(p, "findR")
  /\ \/ FoundRows(p) = {} /\ Drop(p)
     \/ \E r \in FoundRows(p) :
          IF rows[r].user # frame[p].user THEN Drop(p)
          ELSE Goto(p, IF rows[r].ip # frame[p].ip THEN "theft" ELSE "sign")
  /\ UNCHANGED <<now, store, history>>

\* handleTokenTheft: invalidateUserTokens in the root database ...
TheftInvalidate(p) ==
  /\ At(p, "theft") /\ Goto(p, "deny")
  /\ rows' = Invalidated(frame[p].user, Root)
  /\ UNCHANGED <<now, accessCache, refreshCache, blacklist, denied, verified, alerted, history>>

\* ... the ipDenylist upsert ...
TheftDeny(p) ==
  /\ At(p, "deny") /\ Goto(p, "notify")
  /\ denied' = denied \cup {frame[p].ip}
  /\ UNCHANGED <<now, rows, accessCache, refreshCache, blacklist, verified, alerted, history>>

\* ... and notifySecurityTeam(userId, suspiciousIp, locationText), whose
\* parameters are (clientCode, userId, ip, locationText): the id it looks up
\* and updates is the second argument.  Updating a missing row rejects, and
\* the request ends with that error.
NotifiedId(p) == frame[p].ip

NotifySecurityTeam(p) ==
  /\ At(p, "notify")
  /\ IF NotifiedId(p) \in Users
     THEN alerted' = alerted \cup {NotifiedId(p)} /\ Goto(p, "sign")
     ELSE UNCHANGED alerted /\ Drop(p)
  /\ UNCHANGED <<now, rows, accessCache, refreshCache, blacklist, denied, verified, history>>

-----------------------------------------------------------------------------
(* JwtStrategy.validate.                                                   *)

\* Mutant: the access cache is consulted before the blacklist.
GetBlacklistLate(p) ==
  /\ At(p, "getB")
  /\ IF Cached(accessCache, frame[p].ns, frame[p].acc) THEN Goto(p, "ok")
     ELSE IF Cached(blacklist, frame[p].ns, frame[p].acc) THEN Drop(p) ELSE Goto(p, "getA")
  /\ UNCHANGED <<now, store, history>>

\* getIsAccessTokenBlacklistCache
GetBlacklist(p) ==
  /\ At(p, "getB")
  /\ IF Cached(blacklist, frame[p].ns, frame[p].acc) THEN Drop(p) ELSE Goto(p, "getA")
  /\ UNCHANGED <<now, store, history>>

\* getAccessTokenCache
GetAccess(p) ==
  /\ At(p, "getA")
  /\ Goto(p, IF Cached(accessCache, frame[p].ns, frame[p].acc) THEN "ok" ELSE "findU")
  /\ UNCHANGED <<now, store, history>>

\* Mutant: the user is looked up in whatever database holds it.
FindUserAnywhere(p) ==
  /\ At(p, "findU")
  /\ LET valid == ValidRowsOf(frame[p].user, Home[frame[p].user])
     IN \/ valid = {} /\ Goto(p, "cacheA")
        \/ \E r \in valid : frame' = [frame EXCEPT ![p].pc = "cacheA", ![p].ref = r]
  /\ UNCHANGED <<now, store, history>>

\* user.findFirst in the root database: a tenant's user is not there.  One
\* of the user's valid rows, whatever its expiry, goes back into the cache.
FindUser(p) ==
  /\ At(p, "findU")
  /\ LET u == frame[p].user
         valid == ValidRowsOf(u, Root)
     IN \/ Home[u] # Root /\ Drop(p)
        \/ Home[u] = Root /\ valid = {} /\ Goto(p, "cacheA")
        \/ /\ Home[u] = Root
           /\ \E r \in valid :
                frame' = [frame EXCEPT ![p].pc = "cacheA", ![p].ref = r]
  /\ UNCHANGED <<now, store, history>>

-----------------------------------------------------------------------------
(* The end of a request, failures and time.                                *)

\* The response: the client now holds the tokens it carries.
Reply(p) ==
  /\ At(p, "ok") /\ Drop(p)
  /\ given' = IF frame[p].op = "validate" THEN given
              ELSE given \cup {[ns |-> frame[p].ns, tok |-> frame[p].acc]}
  /\ handed' = IF frame[p].op = "login" THEN handed \cup {frame[p].ref} ELSE handed
  /\ UNCHANGED <<now, store, revoked>>

\* An awaited database or Redis call rejects: the handler throws, nothing it
\* did before is undone.
Fail(p) ==
  /\ Faulty
  /\ p \in InFlight /\ ~At(p, "ok")
  /\ Drop(p)
  /\ UNCHANGED <<now, store, history>>

\* Time passes; Redis forgets the keys whose time to live is over.
Tick ==
  /\ now < MaxTime
  /\ Prompt => InFlight = {}
  /\ now' = now + 1
  /\ accessCache' = {e \in accessCache : e.exp > now + 1}
  /\ refreshCache' = {e \in refreshCache : e.exp > now + 1}
  /\ blacklist' = {e \in blacklist : e.exp > now + 1}
  /\ UNCHANGED <<rows, denied, verified, alerted, history, frame>>

Arrive(p) ==
  LoginUser(p) \/ LoginKnown(p) \/ VerifyUserEmail(p) \/ RefreshAccess(p) \/ Validate(p)

LoginStep(p) ==
  \/ MarkVerified(p) \/ InvalidateRefresh(p) \/ ScanAccess(p) \/ BlacklistKey(p)
  \/ ScanClearAccess(p) \/ DeleteAccess(p) \/ ScanClearRefresh(p) \/ DeleteRefresh(p)
  \/ RefuseTwoFactor(p) \/ SignLogin(p) \/ SignRefresh(p) \/ CreateRow(p)
  \/ CacheAccess(p) \/ CacheRefresh(p)

RefreshStep(p) ==
  \/ GetRefresh(p) \/ FindRefresh(p)
  \/ TheftInvalidate(p) \/ TheftDeny(p) \/ NotifySecurityTeam(p)

ValidateStep(p) == GetBlacklist(p) \/ GetAccess(p) \/ FindUser(p) \/ UpdateTrustedDevice(p)

\* A request moves on: the promise it awaits resolves or rejects.
Settle(p) == LoginStep(p) \/ RefreshStep(p) \/ ValidateStep(p) \/ Reply(p) \/ Fail(p)

Next == Tick \/ \E p \in Reqs : Arrive(p) \/ Settle(p)

Spec == Init /\ [][Next]_vars

-----------------------------------------------------------------------------
(* Properties.                                                             *)

\* The type invariant: what the tables, the Redis keys and the requests of
\* AuthService, CustomCacheService and the handlers can hold.
TypeOK ==
  /\ now \in Nat
  /\ rows \in [RefreshTokens -> Row \cup {None}]
  /\ accessCache \subseteq AccessKey
  /\ refreshCache \subseteq RefreshKey
  /\ blacklist \subseteq AccessKey
  /\ denied \subseteq Ips
  /\ verified \subseteq Users
  /\ alerted \subseteq Users
  /\ given \subseteq [ns : Ns, tok : Jwt]
  /\ handed \subseteq RefreshTokens
  /\ revoked \subseteq (Ns \X Jwt)
  /\ frame \in [Reqs -> Frame]

\* JwtStrategy.validate never accepts a token that was blacklisted in the
\* request's namespace before the request arrived, as long as the token itself
\* has not expired: no interleaving of cache fills, clears, blacklist rewrites
\* and Redis expiry lets it back in there.  The client chooses the namespace,
\* and a blacklist entry of another one does not count.
RevokedTokenRefused ==
  \A p \in Reqs :
    /\ At(p, "ok") /\ frame[p].op = "validate" /\ "revoked" \in frame[p].was
    => ~Live(frame[p].acc, now)

\* A request for a tenant's user succeeds, in login, refresh and validate,
\* only under that tenant's own X-Tenant-ID: the keys of CustomCacheService
\* and the root-only lookups of the handlers never bridge two namespaces.
TenantIsolation ==
  \A p \in Reqs :
    At(p, "ok") /\ Home[frame[p].user] # Root => frame[p].ns = Home[frame[p].user]

\* UpdateRefreshAccessTokenHandler answers with an access token for a user
\* only on a refresh token issued to that very user, found in Redis or in the
\* database: the one presented, or, as the handler asks for none, some token of
\* the user's when the request carries none.
RefreshGrantOwner ==
  \A p \in Reqs :
    At(p, "ok") /\ frame[p].op = "refresh" =>
      \E r \in RefreshTokens :
        rows[r] # None /\ rows[r].user = frame[p].user /\ frame[p].ref \in {r, None}

\* invalidatePreviousRefreshTokens keeps the valid rows of a user down to one
\* per login that can run at the same time: one login after another leaves a
\* single session.
SessionsBounded ==
  \A u \in Users : Cardinality(ValidRowsOf(u, Home[u])) <= MaxInFlight

\* When AuthService.login answers, every live access token it had handed to
\* this user in this namespace before is on the blacklist.  It needs
\* requests to come one after another.
LoginRevokesEarlier ==
  \A p \in Reqs :
    At(p, "ok") /\ frame[p].op = "login" =>
      \A g \in given :
        g.ns = frame[p].ns /\ g.tok.user = frame[p].user /\ Live(g.tok, now)
          => Cached(blacklist, g.ns, g.tok)

\* When AuthService.login answers, its refresh token is the only one of the
\* user that the refresh handler would take in this namespace, out of Redis or
\* out of the table.  It needs requests to come one after another too: logins
\* that overlap leave a token each.
LoginLeavesOneSession ==
  \A p \in Reqs :
    At(p, "ok") /\ frame[p].op = "login" =>
      ValidRowsOf(frame[p].user, frame[p].ns) \cup RefreshKeysOf(frame[p].ns, frame[p].user)
        \subseteq {frame[p].ref}

\* What a client sees of a request: what it asked for and what it was granted.
Phase(pc) ==
  IF pc = "new" THEN "idle" ELSE IF pc = "done" THEN "over"
  ELSE IF pc = "ok" THEN "granted" ELSE "asked"
Stale(f) == f.op = "validate" /\ "revoked" \in f.was
View(f) ==
  [op |-> f.op, phase |-> Phase(f.pc), user |-> f.user, ns |-> f.ns,
   tok |-> IF f.op = "validate" \/ f.pc = "ok" THEN f.acc ELSE None,
   ref |-> IF f.op = "refresh" THEN f.ref ELSE None,
   stale |-> Stale(f)]
Views == [p \in Reqs |-> View(frame[p])]
Owners == [r \in RefreshTokens |-> IF rows[r] = None THEN None ELSE rows[r].user]

Service == INSTANCE TokenService WITH
  time <- now, owner <- Owners, issued <- given, revoked <- revoked, req <- Views

\* AuthService, CustomCacheService, the refresh handler and JwtStrategy, step
\* by step and with every failure in between, implement TokenService: the
\* caches, the rows and the order of the awaits never show through.
ImplementsService == Service!Spec

\* A detected ip change ends with a security alert to the token's owner
\* (auth.service.spec.ts).
TheftAlertSent ==
  [][\A p \in Reqs : At(p, "notify") /\ ~At(p, "notify")' => frame[p].user \in alerted']_vars
=============================================================================
