------------------------------ MODULE Devices -------------------------------
(***************************************************************************)
(* AuthService as its callers may use it beyond today's routes, and as its *)
(* own test does: login and tenantLogin with a trusted device token,       *)
(* refreshTokens, which spends a refresh token and issues the next, and    *)
(* revokeRefreshToken; the handler that enables two-factor authentication, *)
(* and the theft alarms of UpdateRefreshAccessTokenHandler.                *)
(*                                                                         *)
(* As in Sessions a call is a process that moves from one await to the     *)
(* next.  What login does to Redis is there; here it is one await.         *)
(***************************************************************************)
EXTENDS Naturals, FiniteSets

CONSTANTS
  Users,          \* user ids, over all databases
  Tenanted,       \* the users of a tenant's database
  Ips,            \* client addresses
  Calls,          \* the calls of a behaviour (bound)
  MaxInFlight,    \* how many of them may be in flight at once (bound)
  RefreshTokens,  \* pool of uuidv4 values for refresh tokens (bound)
  DeviceTokens,   \* pool of uuidv4 values for device tokens (bound)
  None,
  RefreshLife,    \* the 14 days of a refresh token row
  DeviceLife,     \* the 30 days of a trusted device
  MaxTime         \* bound on the clock

ASSUME UsersAssumption == Tenanted \subseteq Users
ASSUME TimeAssumption == RefreshLife \in Nat /\ DeviceLife \in Nat /\ MaxTime \in Nat
ASSUME NoneAssumption ==
  None \notin Users /\ None \notin RefreshTokens /\ None \notin DeviceTokens

\* two (history): the login the token goes back to was one with two-factor.
Row == [user : Users, ip : Ips, valid : BOOLEAN, exp : Nat, two : BOOLEAN]
Device == [user : Users, ip : Ips, exp : Nat]

\* A missing row is not a row.
ASSUME NoRowAssumption == None \notin Row /\ None \notin Device

VARIABLES
  now,        \* the clock
  twoFactor,  \* the users whose row says isTwoFactorEnabled
  rows,       \* RefreshToken rows, all databases: token -> row
  devices,    \* TrustedDevice rows of the root database: token -> row
  denied,     \* rows of ipDenylist
  frame       \* the calls in flight

vars == <<now, twoFactor, rows, devices, denied, frame>>

Pcs == {"new", "done", "inval", "cache", "device", "newdev", "theft", "deny", "notify",
        "find", "expire", "spend", "findU", "create", "reply", "enable", "register"}

\* The locals of a call: what it runs, the await it is at, its arguments, the
\* isTwoFactorEnabled of its user, the `now` it read, and whether its token was
\* already spent when it was called.
Frame == [op : {"none", "login", "otp", "enable", "rotate", "alarm"}, pc : Pcs,
          user : Users \cup {None}, ip : Ips \cup {None}, dev : DeviceTokens \cup {None},
          ref : RefreshTokens \cup {None}, two : BOOLEAN, at : Nat, spent : BOOLEAN]

NewFrame(op, pc, user, ip, dev, ref, two, spent) ==
  [op |-> op, pc |-> pc, user |-> user, ip |-> ip, dev |-> dev, ref |-> ref,
   two |-> two, at |-> now, spent |-> spent]

Blank(pc) == [op |-> "none", pc |-> pc, user |-> None, ip |-> None, dev |-> None,
              ref |-> None, two |-> FALSE, at |-> 0, spent |-> FALSE]

Init ==
  /\ now = 0 /\ twoFactor = {}
  /\ rows = [r \in RefreshTokens |-> None]
  /\ devices = [d \in DeviceTokens |-> None]
  /\ denied = {}
  /\ frame = [p \in Calls |-> Blank("new")]

At(p, pc) == frame[p].pc = pc
InFlight == {p \in Calls : frame[p].pc \notin {"new", "done"}}
Call(p, f) ==
  /\ At(p, "new") /\ Cardinality(InFlight) < MaxInFlight
  /\ frame' = [frame EXCEPT ![p] = f]
Goto(p, pc) == frame' = [frame EXCEPT ![p].pc = pc]
\* The call goes on into a function that starts by reading the clock.
GotoNow(p, pc) == frame' = [frame EXCEPT ![p].pc = pc, ![p].at = now]
Drop(p) == frame' = [frame EXCEPT ![p] = Blank("done")]

-----------------------------------------------------------------------------
(* Calls.                                                                  *)

\* login or tenantLogin of a user as the caller has just read it; the device
\* token, if any, is the caller's word.
Login(p) ==
  /\ \E u \in Users, ip \in Ips, d \in DeviceTokens \cup {None} :
       Call(p, NewFrame("login", "inval", u, ip, d, None, u \in twoFactor, FALSE))
  /\ UNCHANGED <<now, twoFactor, rows, devices, denied>>

\* Login2faTrustedDeviceRegHandler: the user has two-factor enabled and gave
\* a code; a new device is registered before the login.
LoginTwoFactor(p) ==
  /\ \E u \in twoFactor, ip \in Ips :
       Call(p, NewFrame("otp", "register", u, ip, None, None, TRUE, FALSE))
  /\ UNCHANGED <<now, twoFactor, rows, devices, denied>>

\* VerifyTwoFactorOtpHandler of a signed-in user of the root database.
VerifyTwoFactorOtp(p) ==
  /\ \E u \in Users \ Tenanted, ip \in Ips :
       Call(p, NewFrame("enable", "enable", u, ip, None, None, FALSE, FALSE))
  /\ UNCHANGED <<now, twoFactor, rows, devices, denied>>

\* UpdateRefreshAccessTokenHandler calls handleTokenTheft for a user whose
\* refresh record, of the table or of Redis, has another address than the
\* request's (Sessions); Redis may have the one of a later request.
RefreshAlarm(p) ==
  /\ \E u \in Users \ Tenanted, ip \in Ips :
       Call(p, NewFrame("alarm", "theft", u, ip, None, None, FALSE, FALSE))
  /\ UNCHANGED <<now, twoFactor, rows, devices, denied>>

\* Is r a refresh token of the root database?
InRoot(r) == rows[r] # None /\ rows[r].user \notin Tenanted

RefreshTokensCall(p) ==
  /\ \E r \in RefreshTokens, ip \in Ips :
       Call(p, NewFrame("rotate", "find", None, ip, None, r, FALSE,
                        InRoot(r) /\ ~rows[r].valid))
  /\ UNCHANGED <<now, twoFactor, rows, devices, denied>>

\* revokeRefreshToken: its one await.
RevokeRefreshToken(p) ==
  /\ At(p, "new") /\ Drop(p)
  /\ \E r \in RefreshTokens :
       InRoot(r) /\ rows' = [rows EXCEPT ![r].valid = FALSE]
  /\ UNCHANGED <<now, twoFactor, devices, denied>>

-----------------------------------------------------------------------------
(* login, tenantLogin and validateOrRegisterDevice.                        *)

\* updateMany({ userId, isValid: true }, { isValid: false })
Invalidated(u) ==
  [r \in RefreshTokens |->
     IF rows[r] # None /\ rows[r].user = u THEN [rows[r] EXCEPT !.valid = FALSE]
     ELSE rows[r]]

\* invalidatePreviousRefreshTokens
InvalidateRefresh(p) ==
  /\ At(p, "inval") /\ Goto(p, "cache")
  /\ rows' = Invalidated(frame[p].user)
  /\ UNCHANGED <<now, twoFactor, devices, denied>>

\* The blacklist and the caches, then the two-factor test: without a device
\* token the user is turned away.
ClearCaches(p) ==
  /\ At(p, "cache")
  /\ IF ~frame[p].two THEN GotoNow(p, "create")
     ELSE IF frame[p].dev = None THEN Drop(p)
     ELSE GotoNow(p, "device")
  /\ UNCHANGED <<now, twoFactor, rows, devices, denied>>

\* Mutant: the address of the device is not compared.
FindDeviceAnyIp(p) ==
  /\ At(p, "device")
  /\ LET d == devices[frame[p].dev]
     IN IF d = None THEN Drop(p)
        ELSE IF d.user = frame[p].user /\ d.exp > frame[p].at THEN GotoNow(p, "create")
        ELSE Goto(p, "newdev")
  /\ UNCHANGED <<now, twoFactor, rows, devices, denied>>

\* trustedDevice.findUnique.  A token without a row rejects (ipAddress of
\* null); another address is a theft; the user's own device that had not
\* expired when validateOrRegisterDevice began lets the login through;
\* otherwise a new device is registered.
FindDevice(p) ==
  /\ At(p, "device")
  /\ LET d == devices[frame[p].dev]
     IN IF d = None THEN Drop(p)
        ELSE IF d.ip # frame[p].ip THEN Goto(p, "theft")
        ELSE IF d.user = frame[p].user /\ d.exp > frame[p].at THEN GotoNow(p, "create")
        ELSE Goto(p, "newdev")
  /\ UNCHANGED <<now, twoFactor, rows, devices, denied>>

\* trustedDevice.create; expiresAt counts from the `now` read at the start.
Registered(p, d) ==
  [devices EXCEPT ![d] = [user |-> frame[p].user, ip |-> frame[p].ip,
                          exp |-> frame[p].at + DeviceLife]]

CreateDevice(p) ==
  /\ At(p, "newdev") /\ GotoNow(p, "create")
  /\ \E d \in DeviceTokens : devices[d] = None /\ devices' = Registered(p, d)
  /\ UNCHANGED <<now, twoFactor, rows, denied>>

\* setIsTwoFactorAuth, whatever refresh tokens the user holds; then the expiry
\* of the device is computed.
EnableTwoFactor(p) ==
  /\ At(p, "enable") /\ GotoNow(p, "register")
  /\ twoFactor' = twoFactor \cup {frame[p].user}
  /\ UNCHANGED <<now, rows, devices, denied>>

\* Mutant: the new device is filed under no user.
RegisterDeviceNoUser(p) ==
  /\ At(p, "register") /\ (IF frame[p].op = "otp" THEN Goto(p, "inval") ELSE Drop(p))
  /\ \E d \in DeviceTokens :
       /\ devices[d] = None
       /\ devices' = [devices EXCEPT ![d] = [user |-> None, ip |-> frame[p].ip,
                                             exp |-> frame[p].at + DeviceLife]]
  /\ UNCHANGED <<now, twoFactor, rows, denied>>

\* registerTrustedDevice.  The two-factor login then calls login without the
\* token it has just registered; enabling ends.
RegisterDevice(p) ==
  /\ At(p, "register") /\ (IF frame[p].op = "otp" THEN Goto(p, "inval") ELSE Drop(p))
  /\ \E d \in DeviceTokens : devices[d] = None /\ devices' = Registered(p, d)
  /\ UNCHANGED <<now, twoFactor, rows, denied>>

\* generateTokens: a row for a fresh refresh token, expiresAt read before it.
CreateRow(p) ==
  /\ At(p, "create") /\ Goto(p, "reply")
  /\ \E r \in RefreshTokens :
       /\ rows[r] = None
       /\ rows' = [rows EXCEPT ![r] = [user |-> frame[p].user, ip |-> frame[p].ip,
                                       valid |-> TRUE, exp |-> frame[p].at + RefreshLife,
                                       two |-> frame[p].two]]
  /\ UNCHANGED <<now, twoFactor, devices, denied>>

\* setUserAllTokenCache, and the answer.
Reply(p) ==
  /\ At(p, "reply") /\ Drop(p)
  /\ UNCHANGED <<now, twoFactor, rows, devices, denied>>

-----------------------------------------------------------------------------
(* handleTokenTheft.                                                       *)

TheftInvalidate(p) ==
  /\ At(p, "theft") /\ Goto(p, "deny")
  /\ rows' = Invalidated(frame[p].user)
  /\ UNCHANGED <<now, twoFactor, devices, denied>>

TheftDeny(p) ==
  /\ At(p, "deny") /\ Goto(p, "notify")
  /\ denied' = denied \cup {frame[p].ip}
  /\ UNCHANGED <<now, twoFactor, rows, devices>>

\* notifySecurityTeam, and the exception that ends the call either way; what a
\* refresh would go on to do is in Sessions.
TheftNotify(p) ==
  /\ At(p, "notify") /\ Drop(p)
  /\ UNCHANGED <<now, twoFactor, rows, devices, denied>>

-----------------------------------------------------------------------------
(* refreshTokens.                                                          *)

\* The call now works for the owner of the row it found.
Owner(p, pc) ==
  frame' = [frame EXCEPT ![p].pc = pc, ![p].user = rows[frame[p].ref].user,
                         ![p].two = rows[frame[p].ref].two]

\* Mutant: isValid is not looked at.
FindTokenSpent(p) ==
  /\ At(p, "find")
  /\ LET r == frame[p].ref
     IN IF ~InRoot(r) THEN Drop(p)
        ELSE IF rows[r].exp < now THEN Owner(p, "expire")
        ELSE IF rows[r].ip # frame[p].ip THEN Owner(p, "theft")
        ELSE Owner(p, "spend")
  /\ UNCHANGED <<now, twoFactor, rows, devices, denied>>

\* Mutant: an expired token is treated as a stolen one.
FindTokenExpiredTheft(p) ==
  /\ At(p, "find")
  /\ LET r == frame[p].ref
     IN IF ~InRoot(r) \/ ~rows[r].valid THEN Drop(p)
        ELSE IF rows[r].exp < now \/ rows[r].ip # frame[p].ip THEN Owner(p, "theft")
        ELSE Owner(p, "spend")
  /\ UNCHANGED <<now, twoFactor, rows, devices, denied>>

\* refreshToken.findUnique in the root database, and its three refusals.
FindToken(p) ==
  /\ At(p, "find")
  /\ LET r == frame[p].ref
     IN IF ~InRoot(r) \/ ~rows[r].valid THEN Drop(p)
        ELSE IF rows[r].exp < now THEN Owner(p, "expire")
        ELSE IF rows[r].ip # frame[p].ip THEN Owner(p, "theft")
        ELSE Owner(p, "spend")
  /\ UNCHANGED <<now, twoFactor, rows, devices, denied>>

\* invalidateUserTokens: every token of the owner of an expired one.
ExpireAll(p) ==
  /\ At(p, "expire") /\ Drop(p)
  /\ rows' = Invalidated(frame[p].user)
  /\ UNCHANGED <<now, twoFactor, devices, denied>>

\* update({ isValid: false })
Spend(p) ==
  /\ At(p, "spend") /\ Goto(p, "findU")
  /\ rows' = [rows EXCEPT ![frame[p].ref].valid = FALSE]
  /\ UNCHANGED <<now, twoFactor, devices, denied>>

\* user.findUnique, then generateTokens.
FindUser(p) ==
  /\ At(p, "findU") /\ GotoNow(p, "create")
  /\ UNCHANGED <<now, twoFactor, rows, devices, denied>>

-----------------------------------------------------------------------------

\* An awaited call rejects; nothing done before is undone.
Fail(p) ==
  /\ p \in InFlight /\ Drop(p)
  /\ UNCHANGED <<now, twoFactor, rows, devices, denied>>

Tick ==
  /\ now < MaxTime
  /\ now' = now + 1
  /\ UNCHANGED <<twoFactor, rows, devices, denied, frame>>

Arrive(p) ==
  \/ Login(p) \/ LoginTwoFactor(p) \/ VerifyTwoFactorOtp(p) \/ RefreshAlarm(p)
  \/ RefreshTokensCall(p) \/ RevokeRefreshToken(p)

LoginStep(p) ==
  \/ InvalidateRefresh(p) \/ ClearCaches(p) \/ FindDevice(p) \/ CreateDevice(p)
  \/ EnableTwoFactor(p) \/ RegisterDevice(p) \/ CreateRow(p) \/ Reply(p)

TheftStep(p) == TheftInvalidate(p) \/ TheftDeny(p) \/ TheftNotify(p)

RotateStep(p) == FindToken(p) \/ ExpireAll(p) \/ Spend(p) \/ FindUser(p)

Settle(p) == LoginStep(p) \/ TheftStep(p) \/ RotateStep(p) \/ Fail(p)

Next == Tick \/ \E p \in Calls : Arrive(p) \/ Settle(p)

Spec == Init /\ [][Next]_vars

-----------------------------------------------------------------------------
(* Properties.                                                             *)

\* The type invariant: the token and device tables and the calls of
\* AuthService hold what their columns and parameters say.
TypeOK ==
  /\ now \in Nat /\ twoFactor \subseteq Users \ Tenanted
  /\ rows \in [RefreshTokens -> Row \cup {None}]
  /\ devices \in [DeviceTokens -> Device \cup {None}]
  /\ denied \subseteq Ips
  /\ frame \in [Calls -> Frame]

\* User u has a device at address ip in the table D.
HasDevice(u, ip, D) ==
  \E d \in DeviceTokens : D[d] # None /\ D[d].user = u /\ D[d].ip = ip

\* A refresh token that goes back to a login with two-factor was issued to an
\* address at which its user has a trusted device, through expiries, theft
\* alarms and any number of rotations by refreshTokens (validateOrRegisterDevice).
\* One from before two-factor was enabled needs no device, and nor does what
\* it is rotated into.
TwoFactorHasDevice ==
  \A r \in RefreshTokens :
    rows[r] # None /\ rows[r].two => HasDevice(rows[r].user, rows[r].ip, devices)

\* refreshTokens never issues tokens for a refresh token that was already
\* spent, revoked or invalidated when it was called, whatever logins,
\* rotations and alarms run meanwhile.
SpentRefused ==
  \A p \in Calls : frame[p].spent => frame[p].pc \notin {"spend", "findU", "create", "reply"}

\* The call f presents a device or refresh token that the tables D and R have
\* for another address than its own.
Elsewhere(f, R, D) ==
  \/ f.dev \in DeviceTokens /\ D[f.dev] # None /\ D[f.dev].ip # f.ip
  \/ f.ref \in RefreshTokens /\ R[f.ref] # None /\ R[f.ref].ip # f.ip

\* handleTokenTheft puts an address on ipDenylist only for a call from that
\* very address, and, unless the alarm is one of the refresh handler (which
\* compares with the address in its Redis record), only if the call presents
\* a token of another address.
DeniedForCause ==
  [][\A i \in denied' \ denied :
       \E p \in InFlight :
         /\ frame[p].ip = i
         /\ frame[p].op = "alarm" \/ Elsewhere(frame[p], rows, devices)]_vars
=============================================================================
