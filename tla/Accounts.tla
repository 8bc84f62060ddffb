------------------------------ MODULE Accounts ------------------------------
(***************************************************************************)
(* The user rows of the root database and the commands that change them:   *)
(* GoogleSocialCreateOrLoginHandler, which is the only one that creates a  *)
(* row, LoginUserHandler, the two handlers of a password reset, and the    *)
(* three of two-factor authentication.  Tokens, blacklist and expiry are in *)
(* Sessions; what the cached payloads say of the user is here: a login and *)
(* a refresh leave one, and so does JwtStrategy.validate, which takes it   *)
(* for the row later.                                                      *)
(*                                                                         *)
(* A request is a process that runs from one await to the next.  The       *)
(* identity of a request stands for the uuid or secret it generates.       *)
(***************************************************************************)
EXTENDS Naturals, FiniteSets

CONSTANTS
  Emails,       \* mail addresses; a row of the user table has one, unique
  Codes,        \* clients of the root database
  Paid,         \* the ones whose row says isPaid
  Reqs,         \* the requests of a behaviour (bound)
  MaxInFlight,  \* how many of them may be in flight at once (bound)
  None,
  ResetLife,    \* the 30 minutes of a reset link
  MaxTime,      \* bound on the clock, within the hour an access token lives
  Faulty        \* do database calls ever fail?

ASSUME PaidAssumption == Paid \subseteq Codes
ASSUME AbsentAssumption == None \notin Codes /\ None \notin Reqs
ASSUME BoundAssumption ==
  /\ MaxInFlight \in Nat /\ ResetLife \in Nat /\ MaxTime \in Nat /\ Faulty \in BOOLEAN

VARIABLES
  now,       \* the clock
  account,   \* the user table of the root database
  devices,   \* users of the trustedDevice rows
  signedIn,  \* payloads cached for tokens, under the namespace root or another
  issued,    \* users that were ever handed a token (history)
  outbox,    \* ResetPasswordEvents whose mail is not sent, and may never be
  mails,     \* reset links delivered
  spent,     \* reset tokens used or replaced (history)
  frame      \* the requests in flight

tables == <<account, devices>>
cache == <<signedIn, issued>>
post == <<outbox, mails>>
vars == <<now, tables, cache, post, spent, frame>>

\* password: is there one; secret is the request that generated it.
Row == [client : Codes, password : BOOLEAN, reset : Reqs \cup {None}, exp : Nat,
        secret : Reqs \cup {None}, twoFactor : BOOLEAN]
\* root: is the key in the namespace root, not in that of an X-Tenant-ID.
Payload == [email : Emails, client : Codes, root : BOOLEAN, flag : BOOLEAN]
Mail == [email : Emails, tok : Reqs, exp : Nat]

\* A missing row is not a row.
ASSUME NoRowAssumption == None \notin Row

Pcs == {"new", "done", "sfind", "sclient", "screate", "pfind", "login", "issue", "vcache",
        "rfind", "rstore", "cfind", "cset", "qset", "ofind", "oset", "odev", "dfind",
        "ddev"}

\* The locals of a request: code is the client it names, client and flag are
\* read from the row; good, gate and stale were true or not when it arrived.
Frame == [pc : Pcs, email : Emails \cup {None}, code : Codes \cup {None},
          client : Codes \cup {None}, flag : BOOLEAN, tok : Reqs \cup {None}, exp : Nat,
          good : BOOLEAN, gate : BOOLEAN, stale : BOOLEAN]

NewFrame(pc, email, code, tok, good, gate, stale) ==
  [pc |-> pc, email |-> email, code |-> code, client |-> None, flag |-> FALSE,
   tok |-> tok, exp |-> 0, good |-> good, gate |-> gate, stale |-> stale]

Idle(pc) == NewFrame(pc, None, None, None, FALSE, FALSE, FALSE)

Init ==
  /\ now = 0
  /\ account = [e \in Emails |-> None]
  /\ devices = {} /\ signedIn = {} /\ issued = {} /\ outbox = {} /\ mails = {} /\ spent = {}
  /\ frame = [p \in Reqs |-> Idle("new")]

At(p, pc) == frame[p].pc = pc
InFlight == {p \in Reqs : frame[p].pc \notin {"new", "done"}}
Request(p, f) ==
  /\ At(p, "new") /\ Cardinality(InFlight) < MaxInFlight
  /\ frame' = [frame EXCEPT ![p] = f]
Goto(p, pc) == frame' = [frame EXCEPT ![p].pc = pc]
Drop(p) == frame' = [frame EXCEPT ![p] = Idle("done")]

Exists(e) == account[e] # None
Enabled2fa(e) == Exists(e) /\ account[e].twoFactor

\* What a lookup of the user leaves in the handler's locals.
Read(p, pc) ==
  LET row == account[frame[p].email]
  IN frame' = [frame EXCEPT ![p].pc = pc, ![p].client = row.client, ![p].flag = row.twoFactor]

\* user.update({ where: { id }, data }).
Update(p, row) == account' = [account EXCEPT ![frame[p].email] = row]

-----------------------------------------------------------------------------
(* Requests arrive.                                                        *)

\* googleLoginCallback: Google vouches for the address, the state carries a
\* client code, which need not be one.
GoogleLoginCallback(p) ==
  \E e \in Emails, c \in Codes \cup {None} :
    /\ Request(p, NewFrame("sfind", e, c, None, FALSE, Enabled2fa(e), FALSE))
    /\ UNCHANGED <<now, tables, cache, post, spent>>

\* POST /users/auth/login with the password of the row; another one is
\* refused before anything is changed.
Login(p) ==
  \E e \in Emails :
    /\ Request(p, NewFrame("pfind", e, None, None, TRUE, Enabled2fa(e), FALSE))
    /\ UNCHANGED <<now, tables, cache, post, spent>>

ResetPasswordRequest(p) ==
  \E e \in Emails :
    /\ Request(p, NewFrame("rfind", e, None, None, FALSE, FALSE, FALSE))
    /\ UNCHANGED <<now, tables, cache, post, spent>>

\* The token of a delivered mail, or no token, since nothing checks the body;
\* stale: used, replaced or over its 30 minutes.
ResetPassword(p) ==
  \E tok \in {m.tok : m \in mails} \cup {None} :
    /\ Request(p, NewFrame("cfind", None, None, tok, FALSE, FALSE,
                 \E m \in mails : m.tok = tok /\ (tok \in spent \/ m.exp < now)))
    /\ UNCHANGED <<now, tables, cache, post, spent>>

\* JwtStrategy.validate finds no payload of the token under the namespace of
\* the header and reads the row, or POST /refresh hands out an access token:
\* the handler takes the payload cached for the refresh token there, or reads
\* the row.  Whether blacklist and refresh table let the token pass is in
\* Sessions; here any may.  No header stands for root.
Reload(p) ==
  \E e \in issued, header \in Codes \cup {None} :
    \E r \in {[client |-> account[e].client, flag |-> account[e].twoFactor]} \cup
            {s \in signedIn : s.email = e /\ s.root = (header = None)} :
      /\ Request(p, [NewFrame("vcache", e, header, None, FALSE, FALSE, FALSE)
                      EXCEPT !.client = r.client, !.flag = r.flag])
      /\ UNCHANGED <<now, tables, cache, post, spent>>

\* VerifyGenerateTwoFactorQrHandler refuses by the isTwoFactorEnabled that
\* JwtStrategy left in req.user, the cached payload.
GenerateTwoFactorQR(p) ==
  \E s \in signedIn :
    /\ ~s.flag
    /\ Request(p, NewFrame("qset", s.email, None, None, FALSE, FALSE, FALSE))
    /\ UNCHANGED <<now, tables, cache, post, spent>>

\* POST /users/auth/2fa/verify; good: the code is one of the secret's.
VerifyTwoFactorAuth(p) ==
  \E s \in signedIn, good \in BOOLEAN :
    /\ Request(p, NewFrame("ofind", s.email, None, None, good, FALSE, FALSE))
    /\ UNCHANGED <<now, tables, cache, post, spent>>

\* POST /users/auth/2fa/login carries an address and a code; no property asks
\* whether it is a right one.
LoginWithTwoFactor(p) ==
  \E e \in Emails :
    /\ Request(p, NewFrame("dfind", e, None, None, FALSE, Enabled2fa(e), FALSE))
    /\ UNCHANGED <<now, tables, cache, post, spent>>

-----------------------------------------------------------------------------
(* GoogleSocialCreateOrLoginHandler, LoginUserHandler, AuthService.login.  *)

\* Mutant: the handler does not pass isTwoFactorEnabled on.
SocialFindUserNoFlag(p) ==
  /\ At(p, "sfind")
  /\ frame' = [frame EXCEPT ![p].pc = "sclient",
                            ![p].client = IF Exists(frame[p].email)
                                          THEN account[frame[p].email].client ELSE None]
  /\ UNCHANGED <<now, tables, cache, post, spent>>

\* findUserByEmail
SocialFindUser(p) ==
  /\ At(p, "sfind")
  /\ IF Exists(frame[p].email) THEN Read(p, "sclient") ELSE Goto(p, "sclient")
  /\ UNCHANGED <<now, tables, cache, post, spent>>

\* findByClientCode, and the handler's three ways on.
SocialFindClient(p) ==
  /\ At(p, "sclient")
  /\ LET f == frame[p]
     IN \/ f.code \in Paid /\ f.client = f.code /\ Goto(p, "login")
        \/ f.code \in Paid /\ f.client = None /\ Goto(p, "screate")
        \/ (f.code \notin Paid \/ f.client \notin {None, f.code}) /\ Drop(p)
  /\ UNCHANGED <<now, tables, cache, post, spent>>

\* Mutant: an upsert, which leaves an existing row alone.
CreateSocialUserUpsert(p) ==
  /\ At(p, "screate")
  /\ IF Exists(frame[p].email) THEN UNCHANGED account
     ELSE Update(p, [client |-> frame[p].code, password |-> FALSE, reset |-> None,
                     exp |-> 0, secret |-> None, twoFactor |-> FALSE])
  /\ frame' = [frame EXCEPT ![p].pc = "login", ![p].client = frame[p].code]
  /\ UNCHANGED <<now, devices, cache, post, spent>>

\* Mutant: the new row takes the client of the user that was not found.
CreateSocialUserNoClient(p) ==
  /\ At(p, "screate")
  /\ IF Exists(frame[p].email) THEN UNCHANGED account /\ Drop(p)
     ELSE /\ Update(p, [client |-> frame[p].client, password |-> FALSE, reset |-> None,
                        exp |-> 0, secret |-> None, twoFactor |-> FALSE])
          /\ Goto(p, "login")
  /\ UNCHANGED <<now, devices, cache, post, spent>>

\* createSocialUser: the address is unique.
CreateSocialUser(p) ==
  /\ At(p, "screate")
  /\ IF Exists(frame[p].email) THEN UNCHANGED account /\ Drop(p)
     ELSE /\ Update(p, [client |-> frame[p].code, password |-> FALSE, reset |-> None,
                        exp |-> 0, secret |-> None, twoFactor |-> FALSE])
          /\ frame' = [frame EXCEPT ![p].pc = "login", ![p].client = frame[p].code]
  /\ UNCHANGED <<now, devices, cache, post, spent>>

\* findUserByEmail and bcrypt.compare: a row without password refuses all.
PasswordCheck(p) ==
  /\ At(p, "pfind")
  /\ IF Exists(frame[p].email) /\ account[frame[p].email].password
     THEN Read(p, "login") ELSE Drop(p)
  /\ UNCHANGED <<now, tables, cache, post, spent>>

\* AuthService.login: what is cached under root goes, then a user with the
\* flag is refused, since no caller passes a device token.
AuthLogin(p) ==
  /\ At(p, "login")
  /\ signedIn' = {s \in signedIn : s.email # frame[p].email \/ ~s.root}
  /\ IF frame[p].flag THEN Drop(p) ELSE Goto(p, "issue")
  /\ UNCHANGED <<now, tables, issued, post, spent>>

\* Mutant: the payload leaves isTwoFactorEnabled out.
CachedNoFlag(p, root) ==
  [email |-> frame[p].email, client |-> frame[p].client, root |-> root, flag |-> FALSE]

\* Payload of the request's user, as its handler read it.
Cached(p, root) ==
  [email |-> frame[p].email, client |-> frame[p].client, root |-> root, flag |-> frame[p].flag]

\* generateTokens
AuthIssue(p) ==
  /\ At(p, "issue") /\ Drop(p)
  /\ signedIn' = signedIn \cup {Cached(p, TRUE)}
  /\ issued' = issued \cup {frame[p].email}
  /\ UNCHANGED <<now, tables, post, spent>>

\* setUserAllTokenCache or setUserAccessTokenCache
ReloadCache(p) ==
  /\ At(p, "vcache") /\ Drop(p)
  /\ signedIn' = signedIn \cup {Cached(p, frame[p].code = None)}
  /\ UNCHANGED <<now, tables, issued, post, spent>>

-----------------------------------------------------------------------------
(* UpdateResetPasswordRequestHandler and UpdateResetPasswordConfirmHandler. *)

\* getUserByIdForClientAdmin; then the token and its expiry are computed.
ResetFindUser(p) ==
  /\ At(p, "rfind")
  /\ IF Exists(frame[p].email)
     THEN frame' = [frame EXCEPT ![p].pc = "rstore", ![p].exp = now + ResetLife]
     ELSE Drop(p)
  /\ UNCHANGED <<now, tables, cache, post, spent>>

\* updateUser replaces the token of the row, then the event is published.
ResetStore(p) ==
  /\ At(p, "rstore") /\ Drop(p)
  /\ LET e == frame[p].email
     IN /\ Update(p, [account[e] EXCEPT !.reset = p, !.exp = frame[p].exp])
        /\ outbox' = outbox \cup {[email |-> e, tok |-> p, exp |-> frame[p].exp]}
        /\ spent' = spent \cup ({account[e].reset} \ {None})
  /\ UNCHANGED <<now, devices, cache, mails>>

\* UserEventsHandler.  Nothing has to send a mail, and nobody sends it again:
\* one that stays in the outbox is one whose send failed.
SendMail ==
  \E m \in outbox :
    /\ outbox' = outbox \ {m}
    /\ mails' = mails \cup {m}
    /\ UNCHANGED <<now, tables, cache, spent, frame>>

\* Mutant: the token does not get into the where, so the expiry decides alone.
OpenResetsAnyToken(tok) ==
  {e \in Emails : Exists(e) /\ account[e].reset # None /\ account[e].exp >= now}

\* Rows the where of findResetPasswordValidToken admits; without a token the
\* expiry decides alone, which only a row with a reset under way has.
OpenResets(tok) ==
  {e \in Emails : /\ Exists(e) /\ account[e].reset # None /\ account[e].exp >= now
                  /\ tok \in {account[e].reset, None}}

\* findFirst, and the handler's own look at the expiry.
ConfirmFind(p) ==
  /\ At(p, "cfind")
  /\ \/ \E e \in OpenResets(frame[p].tok) :
          frame' = [frame EXCEPT ![p].pc = "cset", ![p].email = e]
     \/ OpenResets(frame[p].tok) = {} /\ Drop(p)
  /\ UNCHANGED <<now, tables, cache, post, spent>>

\* Mutant: the token is left in the row.
ConfirmSetKeepsToken(p) ==
  /\ At(p, "cset") /\ Drop(p)
  /\ Update(p, [account[frame[p].email] EXCEPT !.password = TRUE])
  /\ spent' = spent \cup ({frame[p].tok} \ {None})
  /\ UNCHANGED <<now, devices, cache, post>>

\* updatePassword, which also clears whatever token the row holds by now.
ConfirmSet(p) ==
  /\ At(p, "cset") /\ Drop(p)
  /\ LET e == frame[p].email
     IN /\ Update(p, [account[e] EXCEPT !.password = TRUE, !.reset = None, !.exp = 0])
        /\ spent' = spent \cup ({frame[p].tok, account[e].reset} \ {None})
  /\ UNCHANGED <<now, devices, cache, post>>

-----------------------------------------------------------------------------
(* The two-factor handlers.                                                *)

\* setTwoFactorSecret
QrSetSecret(p) ==
  /\ At(p, "qset") /\ Drop(p)
  /\ Update(p, [account[frame[p].email] EXCEPT !.secret = p])
  /\ UNCHANGED <<now, devices, cache, post, spent>>

\* isCodeValid is async and its callers do not await it: they test a promise.
IsCodeValid(p) == TRUE

\* findUserById, the secret and the code.
OtpFindUser(p) ==
  /\ At(p, "ofind")
  /\ IF account[frame[p].email].secret # None /\ IsCodeValid(p)
     THEN Goto(p, "oset") ELSE Drop(p)
  /\ UNCHANGED <<now, tables, cache, post, spent>>

\* Mutant: the device is registered first.
OtpEnableLate(p) ==
  /\ At(p, "oset") /\ Goto(p, "odev")
  /\ devices' = devices \cup {frame[p].email}
  /\ UNCHANGED <<now, account, cache, post, spent>>

\* setIsTwoFactorAuth ...
OtpEnable(p) ==
  /\ At(p, "oset") /\ Goto(p, "odev")
  /\ Update(p, [account[frame[p].email] EXCEPT !.twoFactor = TRUE])
  /\ UNCHANGED <<now, devices, cache, post, spent>>

\* ... then registerTrustedDevice.
OtpRegister(p) ==
  /\ At(p, "odev") /\ Drop(p)
  /\ devices' = devices \cup {frame[p].email}
  /\ UNCHANGED <<now, account, cache, post, spent>>

\* Login2faTrustedDeviceRegHandler: findUserByEmail, secret and flag ...
DeviceFindUser(p) ==
  /\ At(p, "dfind")
  /\ LET e == frame[p].email
     IN IF Enabled2fa(e) /\ account[e].secret # None /\ IsCodeValid(p)
        THEN Read(p, "ddev") ELSE Drop(p)
  /\ UNCHANGED <<now, tables, cache, post, spent>>

\* ... registerTrustedDevice, then authService.login without the new token.
DeviceRegister(p) ==
  /\ At(p, "ddev") /\ Goto(p, "login")
  /\ devices' = devices \cup {frame[p].email}
  /\ UNCHANGED <<now, account, cache, post, spent>>

-----------------------------------------------------------------------------
\* An awaited call rejects; nothing done before is undone.
Fail(p) ==
  /\ Faulty /\ p \in InFlight /\ Drop(p)
  /\ UNCHANGED <<now, tables, cache, post, spent>>

Tick ==
  /\ now < MaxTime /\ now' = now + 1
  /\ UNCHANGED <<tables, cache, post, spent, frame>>

Arrive(p) ==
  \/ GoogleLoginCallback(p) \/ Login(p) \/ ResetPasswordRequest(p) \/ ResetPassword(p)
  \/ Reload(p) \/ GenerateTwoFactorQR(p) \/ VerifyTwoFactorAuth(p) \/ LoginWithTwoFactor(p)

Settle(p) ==
  \/ SocialFindUser(p) \/ SocialFindClient(p) \/ CreateSocialUser(p) \/ PasswordCheck(p)
  \/ AuthLogin(p) \/ AuthIssue(p) \/ ReloadCache(p)
  \/ ResetFindUser(p) \/ ResetStore(p) \/ ConfirmFind(p) \/ ConfirmSet(p)
  \/ QrSetSecret(p) \/ OtpFindUser(p) \/ OtpEnable(p) \/ OtpRegister(p)
  \/ DeviceFindUser(p) \/ DeviceRegister(p) \/ Fail(p)

Next == Tick \/ SendMail \/ \E p \in Reqs : Arrive(p) \/ Settle(p)

Spec == Init /\ [][Next]_vars

-----------------------------------------------------------------------------
(* Properties.                                                             *)

\* What the user table, the mails and the handlers can hold.
TypeOK ==
  /\ now \in Nat
  /\ account \in [Emails -> Row \cup {None}]
  /\ devices \subseteq Emails
  /\ signedIn \subseteq Payload /\ issued \subseteq Emails
  /\ outbox \subseteq Mail /\ mails \subseteq Mail
  /\ spent \subseteq Reqs
  /\ frame \in [Reqs -> Frame]

\* updatePassword is never reached with a link that was used, replaced by a
\* later one or over its 30 minutes when the confirmation arrived, however
\* requests and confirmations for the row overlap.
StaleLinkRefused == \A p \in Reqs : At(p, "cset") => ~frame[p].stale

\* updatePassword, reached with a token, is about the row of the address that
\* token was mailed to: such a confirmation never lands on another user, even
\* when requests for the row replace and clear tokens in between.  (One
\* without a token lands on any user whose reset is open.)
PasswordByMail ==
  \A p \in Reqs : At(p, "cset") /\ frame[p].tok # None =>
    \E m \in mails : m.tok = frame[p].tok /\ m.email = frame[p].email

\* A cached payload carries the client its user belongs to in the database,
\* though a social login reads the user, reads the client and creates the row
\* in three awaits, while other logins of the address do the same and
\* payloads are copied on by refreshes.
TokenOfOwnClient ==
  \A s \in signedIn : Exists(s.email) /\ account[s.email].client = s.client

\* Trusted devices belong to users with the flag and a secret, also when
\* verification stops half way.
DeviceNeedsTwoFactor ==
  \A e \in devices : Enabled2fa(e) /\ account[e].secret # None

\* A login that arrives once isTwoFactorEnabled is set never gets to
\* generateTokens, on any of the three ways into AuthService.login.
TwoFactorGate == \A p \in Reqs : At(p, "issue") => ~frame[p].gate

\* Every payload cached for the user, in every namespace, says that two-factor
\* authentication is on, and so does what the requests under way have read.
Sealed(e) ==
  /\ Enabled2fa(e) /\ \A s \in signedIn : s.email = e => s.flag
  /\ \A p \in Reqs : frame[p].email = e =>
       /\ ~At(p, "qset")
       /\ frame[p].pc \in {"sclient", "screate", "ddev", "login", "issue", "vcache"} =>
            frame[p].flag

\* From then on it stays so and the secret is not replaced, whichever logins,
\* refreshes and validations arrive, overlap and fail: a payload from before
\* the flag, which a refresh copies on, never comes back.
SealHolds ==
  [][\A e \in Emails :
       Sealed(e) => Sealed(e)' /\ account'[e].secret = account[e].secret]_vars

\* The flag is stored after a successful verification of the code
\* (verify_twoFactorOtp.handler.ts).
EnabledByValidCode == \A p \in Reqs : At(p, "oset") => frame[p].good

\* A user with two-factor authentication gets no new secret
\* (verify_generateTwoFactorQr.handler.ts).
SecretKeptOnceEnabled ==
  [][\A e \in Emails : Enabled2fa(e) => account'[e].secret = account[e].secret]_vars
=============================================================================
