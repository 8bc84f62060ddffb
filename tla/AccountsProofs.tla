--------------------------- MODULE AccountsProofs ---------------------------
(***************************************************************************)
(* Proofs about Accounts, for any number of addresses, clients and         *)
(* requests in flight, with and without failures.                          *)
(***************************************************************************)
EXTENDS Accounts, TLAPS

-----------------------------------------------------------------------------
(* The strengthening that makes the properties above inductive.            *)

\* What the lookups of a request have established at each await, in table acc.
LookupOK(f, acc) ==
  /\ IF f.pc = "cfind" THEN ~f.gate ELSE f.email \in Emails
  /\ f.gate => f.email \in Emails /\ acc[f.email] # None /\ acc[f.email].twoFactor
  /\ f.pc = "sfind" => f.client = None
  /\ f.pc = "sclient" => /\ f.client # None => /\ acc[f.email] # None
                                               /\ acc[f.email].client = f.client
                         /\ f.gate => f.client # None /\ f.flag
  /\ f.pc = "screate" => f.code \in Codes /\ ~f.gate
  /\ f.pc \in {"rstore", "cset", "qset", "ofind", "oset", "odev"} => acc[f.email] # None
  /\ f.pc \in {"ddev", "login", "issue", "vcache"} =>
       /\ acc[f.email] # None /\ acc[f.email].client = f.client
       /\ f.gate => f.flag
  /\ f.pc = "issue" => ~f.gate
  /\ f.pc \in {"oset", "odev", "ddev"} => acc[f.email].secret # None
  /\ f.pc \in {"odev", "ddev"} => acc[f.email].twoFactor

\* A confirmation with a token follows a delivered mail; past the lookup it is
\* about that mail's address and its link was good when it arrived.
ConfirmOK(f, delivered, used, time) ==
  /\ f.pc \in {"cfind", "cset"} =>
       /\ f.tok = None => ~f.stale
       /\ f.tok # None =>
            \E m \in delivered : /\ m.tok = f.tok
                                 /\ f.pc = "cset" => m.email = f.email
                                 /\ f.stale => m.tok \in used \/ m.exp < time
  /\ f.pc = "cset" => ~f.stale

FrameOK(f, acc, delivered, used, time) ==
  LookupOK(f, acc) /\ ConfirmOK(f, delivered, used, time)

FramesOK == \A p \in InFlight : FrameOK(frame[p], account, mails, spent, now)

\* A reset token is in one row, the row of the address it was mailed to, and
\* in none once it is spent.
RowsOK ==
  \A e \in Emails : Exists(e) /\ account[e].reset # None =>
    /\ account[e].reset \notin spent
    /\ \A d \in Emails : Exists(d) /\ account[d].reset = account[e].reset => d = e
    /\ \A m \in outbox \cup mails :
         m.tok = account[e].reset => m.email = e /\ m.exp = account[e].exp

\* A request that has not ended has not stored its token yet.
FreshOK ==
  \A p \in Reqs : ~At(p, "done") =>
    /\ p \notin spent
    /\ \A m \in outbox \cup mails : m.tok # p
    /\ \A e \in Emails : Exists(e) => account[e].reset # p

\* Who was handed a token has a row.
IssuedOK == \A e \in issued : Exists(e)

IInv ==
  /\ TypeOK /\ FramesOK /\ RowsOK /\ FreshOK /\ IssuedOK
  /\ TokenOfOwnClient /\ DeviceNeedsTwoFactor

-----------------------------------------------------------------------------
\* What the handlers never take back from a row.
GrowsTo(acc, bcc) ==
  \A e \in Emails : acc[e] # None =>
    /\ bcc[e] # None
    /\ bcc[e].client = acc[e].client
    /\ acc[e].twoFactor => bcc[e].twoFactor
    /\ acc[e].secret # None => bcc[e].secret # None

\* A request moves from frame[p] to g.
Moves(p, g) ==
  /\ frame' = [frame EXCEPT ![p] = g]
  /\ g \in Frame /\ g.pc # "new" /\ frame[p].pc # "done"
  /\ g.pc # "done" => FrameOK(g, account', mails', spent', now')

\* Rows, links and the clock only grow, so what a request knows stays true.
LEMMA FrameKeeps ==
  ASSUME NEW f, NEW acc, NEW bcc, GrowsTo(acc, bcc),
         NEW A, NEW B, A \subseteq B, NEW S, NEW T, S \subseteq T,
         NEW s \in Nat, NEW t \in Nat, s <= t, \A m \in B : m.exp \in Nat,
         FrameOK(f, acc, A, S, s)
  PROVE  FrameOK(f, bcc, B, T, t)
<1>1. LookupOK(f, bcc)
  BY DEF FrameOK, LookupOK, GrowsTo
<1>2. ConfirmOK(f, B, T, t)
  <2>1. ASSUME NEW m \in A, m.exp < s PROVE m.exp < t
    BY <2>1
  <2> QED BY <2>1 DEF FrameOK, ConfirmOK
<1> QED BY <1>1, <1>2 DEF FrameOK

\* A request that has not arrived, or has ended, has the locals of its type.
LEMMA IdleFrame ==
  ASSUME NEW pc \in Pcs
  PROVE  Idle(pc) \in Frame /\ Idle(pc).pc = pc
  BY DEF Idle, NewFrame, Frame

\* An arriving request knows only what it was sent.
LEMMA ArriveMoves ==
  ASSUME IInv, NEW p \in Reqs, Arrive(p)
  PROVE  /\ \E g : Moves(p, g)
         /\ UNCHANGED <<now, tables, cache, post, spent>>
<1> USE DEF tables, cache, post
<1>0. TypeOK /\ TokenOfOwnClient /\ IssuedOK
  BY DEF IInv
<1>1. UNCHANGED <<now, account, devices, signedIn, issued, outbox, mails, spent>>
  BY DEF Arrive, GoogleLoginCallback, Login, ResetPasswordRequest, ResetPassword, Reload,
     GenerateTwoFactorQR, VerifyTwoFactorAuth, LoginWithTwoFactor
<1> SUFFICES \E g : Moves(p, g)
  BY <1>1
<1>2. ASSUME NEW g, Request(p, g), g \in Frame, g.pc \notin {"new", "done"},
             FrameOK(g, account, mails, spent, now)
      PROVE  \E h : Moves(p, h)
  BY <1>1, <1>2 DEF Moves, Request, At
<1>3. \A e \in Emails : Enabled2fa(e) \in BOOLEAN
  BY <1>0 DEF Enabled2fa, Exists, TypeOK, Row
<1>4. \A s \in signedIn : s.email \in Emails /\ Exists(s.email)
  BY <1>0 DEF TypeOK, Payload, TokenOfOwnClient
<1>5. CASE GoogleLoginCallback(p)
  <2>1. PICK e \in Emails, c \in Codes \cup {None} :
          Request(p, NewFrame("sfind", e, c, None, FALSE, Enabled2fa(e), FALSE))
    BY <1>5 DEF GoogleLoginCallback
  <2> DEFINE g == NewFrame("sfind", e, c, None, FALSE, Enabled2fa(e), FALSE)
  <2>2. g \in Frame /\ g.pc = "sfind"
    BY <1>0, <1>3 DEF NewFrame, Frame, Pcs, TypeOK, Mail
  <2>3. LookupOK(g, account) /\ ConfirmOK(g, mails, spent, now)
    BY <1>0, <1>3 DEF NewFrame, LookupOK, ConfirmOK, Enabled2fa, Exists
  <2> HIDE DEF g
  <2> QED BY <1>2, <2>1, <2>2, <2>3 DEF g, FrameOK
<1>6. CASE Login(p)
  <2>1. PICK e \in Emails :
          Request(p, NewFrame("pfind", e, None, None, TRUE, Enabled2fa(e), FALSE))
    BY <1>6 DEF Login
  <2> DEFINE g == NewFrame("pfind", e, None, None, TRUE, Enabled2fa(e), FALSE)
  <2>2. g \in Frame /\ g.pc = "pfind"
    BY <1>0, <1>3 DEF NewFrame, Frame, Pcs, TypeOK, Mail
  <2>3. LookupOK(g, account) /\ ConfirmOK(g, mails, spent, now)
    BY <1>0, <1>3 DEF NewFrame, LookupOK, ConfirmOK, Enabled2fa, Exists
  <2> HIDE DEF g
  <2> QED BY <1>2, <2>1, <2>2, <2>3 DEF g, FrameOK
<1>7. CASE ResetPasswordRequest(p)
  <2>1. PICK e \in Emails :
          Request(p, NewFrame("rfind", e, None, None, FALSE, FALSE, FALSE))
    BY <1>7 DEF ResetPasswordRequest
  <2> DEFINE g == NewFrame("rfind", e, None, None, FALSE, FALSE, FALSE)
  <2>2. g \in Frame /\ g.pc = "rfind"
    BY <1>0, <1>3 DEF NewFrame, Frame, Pcs, TypeOK, Mail
  <2>3. LookupOK(g, account) /\ ConfirmOK(g, mails, spent, now)
    BY <1>0, <1>3 DEF NewFrame, LookupOK, ConfirmOK, Enabled2fa, Exists
  <2> HIDE DEF g
  <2> QED BY <1>2, <2>1, <2>2, <2>3 DEF g, FrameOK
<1>8. CASE ResetPassword(p)
  <2>1. PICK tok \in {m.tok : m \in mails} \cup {None} :
          Request(p, NewFrame("cfind", None, None, tok, FALSE, FALSE,
                    \E m \in mails : m.tok = tok /\ (tok \in spent \/ m.exp < now)))
    BY <1>8 DEF ResetPassword
  <2>2. PICK stale \in BOOLEAN :
          stale = (\E m \in mails : m.tok = tok /\ (tok \in spent \/ m.exp < now))
    OBVIOUS
  <2> DEFINE g == NewFrame("cfind", None, None, tok, FALSE, FALSE, stale)
  <2>3. Request(p, g)
    BY <2>1, <2>2
  <2>4. tok \in Reqs \cup {None}
    BY <1>0 DEF TypeOK, Mail
  <2>5. g \in Frame /\ g.pc = "cfind" /\ g.tok = tok /\ g.stale = stale /\ ~g.gate
    BY <2>4 DEF NewFrame, Frame, Pcs
  <2> HIDE DEF g
  <2>6. LookupOK(g, account)
    BY <2>5 DEF LookupOK
  <2>7. \A m \in mails : m.tok # None
    BY <1>0, AbsentAssumption DEF TypeOK, Mail
  <2>8. ConfirmOK(g, mails, spent, now)
    BY <2>2, <2>5, <2>7 DEF ConfirmOK
  <2> QED BY <1>2, <2>3, <2>5, <2>6, <2>8 DEF FrameOK
<1>9. CASE GenerateTwoFactorQR(p)
  <2>1. PICK s \in signedIn :
          Request(p, NewFrame("qset", s.email, None, None, FALSE, FALSE, FALSE))
    BY <1>9 DEF GenerateTwoFactorQR
  <2> DEFINE g == NewFrame("qset", s.email, None, None, FALSE, FALSE, FALSE)
  <2>2. g \in Frame /\ g.pc = "qset"
    BY <1>0, <1>4 DEF NewFrame, Frame, Pcs, TypeOK, Mail
  <2>3. LookupOK(g, account) /\ ConfirmOK(g, mails, spent, now)
    BY <1>0, <1>4 DEF NewFrame, LookupOK, ConfirmOK, Enabled2fa, Exists
  <2> HIDE DEF g
  <2> QED BY <1>2, <2>1, <2>2, <2>3 DEF g, FrameOK
<1>10. CASE VerifyTwoFactorAuth(p)
  <2>1. PICK s \in signedIn, good \in BOOLEAN :
          Request(p, NewFrame("ofind", s.email, None, None, good, FALSE, FALSE))
    BY <1>10 DEF VerifyTwoFactorAuth
  <2> DEFINE g == NewFrame("ofind", s.email, None, None, good, FALSE, FALSE)
  <2>2. g \in Frame /\ g.pc = "ofind"
    BY <1>0, <1>4 DEF NewFrame, Frame, Pcs, TypeOK, Mail
  <2>3. LookupOK(g, account) /\ ConfirmOK(g, mails, spent, now)
    BY <1>0, <1>4 DEF NewFrame, LookupOK, ConfirmOK, Enabled2fa, Exists
  <2> HIDE DEF g
  <2> QED BY <1>2, <2>1, <2>2, <2>3 DEF g, FrameOK
<1>11. CASE LoginWithTwoFactor(p)
  <2>1. PICK e \in Emails, good \in BOOLEAN :
          Request(p, NewFrame("dfind", e, None, None, good, Enabled2fa(e), FALSE))
    BY <1>11 DEF LoginWithTwoFactor
  <2> DEFINE g == NewFrame("dfind", e, None, None, good, Enabled2fa(e), FALSE)
  <2>2. g \in Frame /\ g.pc = "dfind"
    BY <1>0, <1>3 DEF NewFrame, Frame, Pcs, TypeOK, Mail
  <2>3. LookupOK(g, account) /\ ConfirmOK(g, mails, spent, now)
    BY <1>0, <1>3 DEF NewFrame, LookupOK, ConfirmOK, Enabled2fa, Exists
  <2> HIDE DEF g
  <2> QED BY <1>2, <2>1, <2>2, <2>3 DEF g, FrameOK
<1>12. CASE Reload(p)
  <2>1. PICK e \in issued, header \in Codes \cup {None} :
          \E r \in {[client |-> account[e].client, flag |-> account[e].twoFactor]} \cup
                  {s \in signedIn : s.email = e /\ s.root = (header = None)} :
            Request(p, [NewFrame("vcache", e, header, None, FALSE, FALSE, FALSE)
                        EXCEPT !.client = r.client, !.flag = r.flag])
    BY <1>12 DEF Reload
  <2>2. PICK r \in {[client |-> account[e].client, flag |-> account[e].twoFactor]} \cup
                  {s \in signedIn : s.email = e /\ s.root = (header = None)} :
          Request(p, [NewFrame("vcache", e, header, None, FALSE, FALSE, FALSE)
                      EXCEPT !.client = r.client, !.flag = r.flag])
    BY <2>1
  <2>3. e \in Emails /\ account[e] \in Row /\ account[e] # None
    BY <1>0 DEF TypeOK, IssuedOK, Exists
  <2>4. r.client = account[e].client /\ r.client \in Codes /\ r.flag \in BOOLEAN
    BY <1>0, <2>3 DEF TypeOK, Payload, Row, TokenOfOwnClient
  <2> DEFINE g == [NewFrame("vcache", e, header, None, FALSE, FALSE, FALSE)
                   EXCEPT !.client = r.client, !.flag = r.flag]
  <2>5. /\ g \in Frame /\ g.pc = "vcache" /\ g.email = e /\ g.client = r.client /\ ~g.gate
    BY <2>3, <2>4 DEF NewFrame, Frame, Pcs
  <2>6. Request(p, g)
    BY <2>2
  <2> HIDE DEF g
  <2>7. LookupOK(g, account) /\ ConfirmOK(g, mails, spent, now)
    BY <2>3, <2>4, <2>5 DEF LookupOK, ConfirmOK
  <2> QED BY <1>2, <2>5, <2>6, <2>7 DEF FrameOK
<1> QED BY <1>5, <1>6, <1>7, <1>8, <1>9, <1>10, <1>11, <1>12 DEF Arrive

\* What a request knows after each of its awaits.
LEMMA SettleMoves ==
  ASSUME IInv, NEW p \in Reqs, Settle(p)
  PROVE  \E g : Moves(p, g)
<1> USE DEF tables, cache, post
<1> DEFINE f == frame[p]
<1>0. TypeOK
  BY DEF IInv
<1>1. f \in Frame /\ f.pc \notin {"new", "done"}
  BY <1>0 DEF TypeOK, Settle, SocialFindUser, SocialFindClient, CreateSocialUser, PasswordCheck,
     AuthLogin, AuthIssue, ReloadCache, ResetFindUser, ResetStore, ConfirmFind, ConfirmSet,
     QrSetSecret, OtpFindUser,
     OtpEnable, OtpRegister, DeviceFindUser, DeviceRegister, Fail, At, InFlight
<1>2. LookupOK(f, account) /\ ConfirmOK(f, mails, spent, now)
  BY <1>1 DEF IInv, FramesOK, FrameOK, InFlight
<1>3. ASSUME Drop(p) PROVE \E g : Moves(p, g)
  <2>1. Idle("done") \in Frame /\ Idle("done").pc = "done"
    BY IdleFrame DEF Pcs
  <2>2. Moves(p, Idle("done"))
    BY <1>1, <1>3, <2>1 DEF Drop, Moves
  <2> QED BY <2>2
<1>4. ASSUME NEW pc \in Pcs \ {"new", "done"}, Goto(p, pc),
             FrameOK([f EXCEPT !.pc = pc], account', mails', spent', now')
      PROVE  \E g : Moves(p, g)
  <2> DEFINE g == [f EXCEPT !.pc = pc]
  <2>1. g \in Frame /\ g.pc = pc
    BY <1>1 DEF Frame
  <2>2. frame' = [frame EXCEPT ![p] = g]
    BY <1>4 DEF Goto
  <2>3. FrameOK(g, account', mails', spent', now')
    BY <1>4
  <2> HIDE DEF g
  <2>4. Moves(p, g)
    BY <1>1, <2>1, <2>2, <2>3 DEF Moves
  <2> QED BY <2>4
<1>5. ASSUME NEW pc \in {"sclient", "login", "ddev"}, Read(p, pc), Exists(f.email),
             f.pc \in {"sfind", "pfind", "dfind"},
             pc = "ddev" => Enabled2fa(f.email) /\ account[f.email].secret # None,
             UNCHANGED <<now, tables, cache, post, spent>>
      PROVE  \E g : Moves(p, g)
  <2> DEFINE row == account[f.email]
             g == [f EXCEPT !.pc = pc, !.client = row.client, !.flag = row.twoFactor]
  <2>1. f.email \in Emails
    BY <1>2, <1>5 DEF LookupOK
  <2>2. row \in Row
    BY <1>0, <1>5, <2>1 DEF TypeOK, Exists
  <2>3. frame' = [frame EXCEPT ![p] = g]
    BY <1>5 DEF Read
  <2>4. row.client \in Codes /\ row.twoFactor \in BOOLEAN
    BY <2>2 DEF Row
  <2>5. f.gate => row.twoFactor
    BY <1>2 DEF LookupOK
  <2>6. pc = "ddev" => row.twoFactor /\ row.secret # None
    BY <1>5 DEF Enabled2fa
  <2> HIDE DEF row
  <2>7. g \in Frame /\ g.pc = pc /\ g.email = f.email /\ g.gate = f.gate
        /\ g.client = row.client /\ g.flag = row.twoFactor
    BY <1>1, <2>4 DEF Frame, Pcs
  <2> HIDE DEF g
  <2>8. LookupOK(g, account)
    BY <1>2, <1>5, <2>1, <2>4, <2>5, <2>6, <2>7, AbsentAssumption DEF LookupOK, Exists, row
  <2>9. ConfirmOK(g, mails, spent, now)
    BY <2>7 DEF ConfirmOK
  <2>10. Moves(p, g)
    BY <1>1, <1>5, <2>3, <2>7, <2>8, <2>9 DEF Moves, FrameOK
  <2> QED BY <2>10
<1>6. ASSUME NEW pc \in Pcs
      PROVE  /\ [f EXCEPT !.pc = pc].pc = pc
             /\ [f EXCEPT !.pc = pc].email = f.email
             /\ [f EXCEPT !.pc = pc].code = f.code
             /\ [f EXCEPT !.pc = pc].client = f.client
             /\ [f EXCEPT !.pc = pc].flag = f.flag
             /\ [f EXCEPT !.pc = pc].gate = f.gate
  BY <1>1 DEF Frame
<1>7. CASE SocialFindUser(p)
  <2>1. f.pc = "sfind" /\ UNCHANGED <<now, tables, cache, post, spent>>
    BY <1>7 DEF SocialFindUser, At
  <2>2. CASE Exists(f.email)
    <3>1. Read(p, "sclient")
      BY <1>7, <2>2 DEF SocialFindUser
    <3> QED BY <1>5, <2>1, <2>2, <3>1
  <2>3. CASE ~Exists(f.email)
    <3>1. Goto(p, "sclient")
      BY <1>7, <2>3 DEF SocialFindUser
    <3> DEFINE g == [f EXCEPT !.pc = "sclient"]
    <3>2. g.pc = "sclient" /\ g.email = f.email /\ g.client = f.client /\ g.gate = f.gate
      BY <1>6 DEF Pcs
    <3> HIDE DEF g
    <3>3. LookupOK(g, account) /\ ConfirmOK(g, mails, spent, now)
      BY <1>2, <2>1, <2>3, <3>2 DEF LookupOK, ConfirmOK, Exists
    <3> QED BY <1>4, <2>1, <3>1, <3>3 DEF Pcs, FrameOK, g
  <2> QED BY <2>2, <2>3
<1>8. CASE SocialFindClient(p)
  <2>1. f.pc = "sclient" /\ UNCHANGED <<now, tables, cache, post, spent>>
    BY <1>8 DEF SocialFindClient, At
  <2>2. ASSUME NEW pc \in {"login", "screate"}, Goto(p, pc), f.code \in Codes,
               pc = "login" => f.client # None, pc = "screate" => f.client = None
        PROVE  \E g : Moves(p, g)
    <3> DEFINE g == [f EXCEPT !.pc = pc]
    <3>1. /\ g.pc = pc /\ g.email = f.email /\ g.client = f.client /\ g.gate = f.gate
          /\ g.flag = f.flag /\ g.code = f.code
      BY <1>6 DEF Pcs
    <3> HIDE DEF g
    <3>2. LookupOK(g, account) /\ ConfirmOK(g, mails, spent, now)
      BY <1>2, <2>1, <2>2, <3>1 DEF LookupOK, ConfirmOK
    <3> QED BY <1>4, <2>1, <2>2, <3>2 DEF Pcs, FrameOK, g
  <2>3. \/ f.code \in Paid /\ f.client = f.code /\ Goto(p, "login")
        \/ f.code \in Paid /\ f.client = None /\ Goto(p, "screate")
        \/ Drop(p)
    BY <1>8 DEF SocialFindClient
  <2> QED BY <1>3, <2>2, <2>3, PaidAssumption, AbsentAssumption
<1>9. CASE CreateSocialUser(p)
  <2>1. CASE Exists(f.email)
    BY <1>3, <1>9, <2>1 DEF CreateSocialUser
  <2>2. CASE ~Exists(f.email)
    <3> DEFINE g == [f EXCEPT !.pc = "login", !.client = f.code]
    <3>1. f.email \in Emails /\ f.code \in Codes /\ ~f.gate
      BY <1>2, <1>9 DEF CreateSocialUser, At, LookupOK
    <3>2. frame' = [frame EXCEPT ![p] = g]
      BY <1>9, <2>2 DEF CreateSocialUser
    <3>3. g \in Frame /\ g.pc = "login" /\ g.email = f.email /\ g.client = f.code /\ g.gate = f.gate
      BY <1>1, <3>1 DEF Frame, Pcs
    <3> HIDE DEF g
    <3> DEFINE row == [client |-> f.code, password |-> FALSE, reset |-> None,
                       exp |-> 0, secret |-> None, twoFactor |-> FALSE]
    <3>4. account' = [account EXCEPT ![f.email] = row]
      BY <1>9, <2>2 DEF CreateSocialUser, Update
    <3>5. row \in Row /\ row.client = f.code
      BY <3>1 DEF Row
    <3>6. account'[f.email] # None /\ account'[f.email].client = f.code
      BY <1>0, <3>1, <3>4, <3>5, NoRowAssumption DEF TypeOK
    <3>7. LookupOK(g, account') /\ ConfirmOK(g, mails', spent', now')
      BY <3>1, <3>3, <3>6 DEF LookupOK, ConfirmOK
    <3>8. Moves(p, g)
      BY <1>1, <3>2, <3>3, <3>7 DEF Moves, FrameOK
    <3> QED BY <3>8
  <2> QED BY <2>1, <2>2
<1>10. CASE PasswordCheck(p)
  <2>1. f.pc = "pfind" /\ UNCHANGED <<now, tables, cache, post, spent>>
    BY <1>10 DEF PasswordCheck, At
  <2>2. (Exists(f.email) /\ Read(p, "login")) \/ Drop(p)
    BY <1>10 DEF PasswordCheck
  <2> QED BY <1>3, <1>5, <2>1, <2>2
<1>11. CASE AuthIssue(p) \/ ReloadCache(p) \/ ResetStore(p) \/ ConfirmSet(p)
            \/ QrSetSecret(p) \/ OtpRegister(p) \/ Fail(p)
  BY <1>3, <1>11 DEF AuthIssue, ReloadCache, ResetStore, ConfirmSet, QrSetSecret, OtpRegister, Fail
<1>12. CASE ResetFindUser(p)
  <2>1. f.pc = "rfind" /\ UNCHANGED <<now, tables, cache, post, spent>>
    BY <1>12 DEF ResetFindUser, At
  <2>2. CASE Exists(f.email)
    <3> DEFINE g == [f EXCEPT !.pc = "rstore", !.exp = now + ResetLife]
    <3>1. now + ResetLife \in Nat
      BY <1>0, BoundAssumption DEF TypeOK
    <3>2. frame' = [frame EXCEPT ![p] = g]
      BY <1>12, <2>2 DEF ResetFindUser
    <3>3. g \in Frame /\ g.pc = "rstore" /\ g.email = f.email /\ g.gate = f.gate
      BY <1>1, <3>1 DEF Frame, Pcs
    <3> HIDE DEF g
    <3>4. LookupOK(g, account) /\ ConfirmOK(g, mails, spent, now)
      BY <1>2, <2>1, <2>2, <3>3 DEF LookupOK, ConfirmOK, Exists
    <3>5. Moves(p, g)
      BY <1>1, <2>1, <3>2, <3>3, <3>4 DEF Moves, FrameOK
    <3> QED BY <3>5
  <2> QED BY <1>3, <1>12, <2>2 DEF ResetFindUser
<1>13. CASE ConfirmFind(p)
  <2>1. f.pc = "cfind" /\ UNCHANGED <<now, tables, cache, post, spent>>
    BY <1>13 DEF ConfirmFind, At
  <2>2. ASSUME NEW e \in OpenResets(f.tok),
               frame' = [frame EXCEPT ![p].pc = "cset", ![p].email = e]
        PROVE  \E g : Moves(p, g)
    <3> DEFINE g == [f EXCEPT !.pc = "cset", !.email = e]
    <3>0. /\ e \in Emails /\ Exists(e) /\ account[e].reset # None /\ account[e].exp >= now
          /\ f.tok \in {account[e].reset, None}
      BY <2>2 DEF OpenResets
    <3>1. frame' = [frame EXCEPT ![p] = g]
      BY <2>2
    <3>2. /\ g \in Frame /\ g.pc = "cset" /\ g.email = e /\ g.gate = f.gate
          /\ g.tok = f.tok /\ g.stale = f.stale
      BY <1>1, <3>0 DEF Frame, Pcs
    <3> HIDE DEF g
    <3>3. ~f.stale /\ (f.tok # None => \E m \in mails : m.tok = f.tok /\ m.email = e)
      <4>1. CASE f.tok = None
        BY <1>2, <2>1, <4>1 DEF ConfirmOK
      <4>2. CASE f.tok # None
        <5>1. PICK m \in mails : m.tok = f.tok /\ (f.stale => m.tok \in spent \/ m.exp < now)
          BY <1>2, <2>1, <4>2 DEF ConfirmOK
        <5>2. f.tok \notin spent /\ m.email = e /\ m.exp = account[e].exp
          BY <3>0, <4>2, <5>1 DEF IInv, RowsOK
        <5>3. m.exp \in Nat /\ now \in Nat
          BY <1>0 DEF TypeOK, Mail
        <5> QED BY <3>0, <5>1, <5>2, <5>3
      <4> QED BY <4>1, <4>2
    <3>4. ~f.gate
      BY <1>2, <2>1 DEF LookupOK
    <3>5. LookupOK(g, account)
      BY <3>0, <3>2, <3>4 DEF LookupOK, Exists
    <3>6. ConfirmOK(g, mails, spent, now)
      BY <3>2, <3>3 DEF ConfirmOK
    <3>7. Moves(p, g)
      BY <1>1, <2>1, <3>1, <3>2, <3>5, <3>6 DEF Moves, FrameOK
    <3> QED BY <3>7
  <2> QED BY <1>3, <1>13, <2>2 DEF ConfirmFind
<1>14. CASE OtpFindUser(p)
  <2>1. f.pc = "ofind" /\ UNCHANGED <<now, tables, cache, post, spent>>
    BY <1>14 DEF OtpFindUser, At
  <2>2. CASE account[f.email].secret # None /\ Goto(p, "oset")
    <3> DEFINE g == [f EXCEPT !.pc = "oset"]
    <3>1. g.pc = "oset" /\ g.email = f.email /\ g.gate = f.gate
      BY <1>6 DEF Pcs
    <3> HIDE DEF g
    <3>2. LookupOK(g, account) /\ ConfirmOK(g, mails, spent, now)
      BY <1>2, <2>1, <2>2, <3>1 DEF LookupOK, ConfirmOK
    <3> QED BY <1>4, <2>1, <2>2, <3>2 DEF Pcs, FrameOK, g
  <2> QED BY <1>3, <1>14, <2>2 DEF OtpFindUser, IsCodeValid
<1>15. CASE OtpEnable(p)
  <2>1. f.pc = "oset" /\ Goto(p, "odev")
    BY <1>15 DEF OtpEnable, At
  <2> DEFINE row == account[f.email]
             new == [row EXCEPT !.twoFactor = TRUE]
             g == [f EXCEPT !.pc = "odev"]
  <2>2. f.email \in Emails /\ row \in Row /\ row.secret # None
    BY <1>0, <1>2, <2>1 DEF LookupOK, TypeOK
  <2>3. account' = [account EXCEPT ![f.email] = new]
    BY <1>15 DEF OtpEnable, Update
  <2>4. new \in Row /\ new.secret = row.secret /\ new.twoFactor
    BY <2>2 DEF Row
  <2> HIDE DEF row, new
  <2>5. account'[f.email] = new /\ new # None
    BY <1>0, <2>2, <2>3, <2>4, NoRowAssumption DEF TypeOK
  <2>6. g.pc = "odev" /\ g.email = f.email /\ g.gate = f.gate
    BY <1>6 DEF Pcs
  <2> HIDE DEF g
  <2>7. LookupOK(g, account') /\ ConfirmOK(g, mails', spent', now')
    BY <1>2, <2>2, <2>4, <2>5, <2>6 DEF LookupOK, ConfirmOK
  <2> QED BY <1>4, <2>1, <2>7 DEF Pcs, FrameOK, g
<1>16. CASE DeviceFindUser(p)
  <2>1. f.pc = "dfind" /\ UNCHANGED <<now, tables, cache, post, spent>>
    BY <1>16 DEF DeviceFindUser, At
  <2>2. CASE Enabled2fa(f.email) /\ account[f.email].secret # None /\ Read(p, "ddev")
    BY <1>5, <2>1, <2>2 DEF Enabled2fa
  <2> QED BY <1>3, <1>16, <2>2 DEF DeviceFindUser, IsCodeValid
<1>17. CASE DeviceRegister(p)
  <2>1. f.pc = "ddev" /\ Goto(p, "login") /\ UNCHANGED <<now, account, cache, post, spent>>
    BY <1>17 DEF DeviceRegister, At
  <2> DEFINE g == [f EXCEPT !.pc = "login"]
  <2>2. /\ g.pc = "login" /\ g.email = f.email /\ g.gate = f.gate /\ g.client = f.client
        /\ g.flag = f.flag
    BY <1>6 DEF Pcs
  <2> HIDE DEF g
  <2>3. LookupOK(g, account) /\ ConfirmOK(g, mails, spent, now)
    BY <1>2, <2>1, <2>2 DEF LookupOK, ConfirmOK
  <2> QED BY <1>4, <2>1, <2>3 DEF Pcs, FrameOK, g
<1>18. CASE AuthLogin(p)
  <2>1. f.pc = "login" /\ UNCHANGED <<now, tables, post, spent>>
    BY <1>18 DEF AuthLogin, At
  <2>2. CASE Goto(p, "issue") /\ ~f.flag
    <3> DEFINE g == [f EXCEPT !.pc = "issue"]
    <3>1. /\ g.pc = "issue" /\ g.email = f.email /\ g.gate = f.gate /\ g.client = f.client
          /\ g.flag = f.flag
      BY <1>6 DEF Pcs
    <3> HIDE DEF g
    <3>2. LookupOK(g, account) /\ ConfirmOK(g, mails, spent, now)
      BY <1>2, <2>1, <2>2, <3>1 DEF LookupOK, ConfirmOK
    <3> QED BY <1>4, <2>1, <2>2, <3>2 DEF Pcs, FrameOK, g
  <2> QED BY <1>3, <1>18, <2>2 DEF AuthLogin
<1> QED BY <1>7, <1>8, <1>9, <1>10, <1>11, <1>12, <1>13, <1>14, <1>15, <1>16, <1>17, <1>18
       DEF Settle

-----------------------------------------------------------------------------
(* The table.                                                              *)

\* Every step that writes a row: what it writes, and where.
LEMMA RowWrites ==
  ASSUME IInv, NEW p \in Reqs, Arrive(p) \/ Settle(p)
  PROVE  \/ UNCHANGED account
         \/ \E e \in Emails, r \in Row :
              /\ e = frame[p].email /\ account' = [account EXCEPT ![e] = r]
              /\ \/ /\ CreateSocialUser(p) /\ account[e] = None
                    /\ r.reset = None
                 \/ /\ account[e] \in Row /\ r.client = account[e].client
                    /\ account[e].twoFactor => r.twoFactor
                    /\ account[e].secret # None => r.secret # None
                    /\ \/ /\ QrSetSecret(p) \/ OtpEnable(p)
                          /\ r.reset = account[e].reset /\ r.exp = account[e].exp
                       \/ ResetStore(p) /\ r.reset = p /\ r.exp = frame[p].exp
                       \/ ConfirmSet(p) /\ r.reset = None
<1> USE DEF tables, cache, post
<1> DEFINE f == frame[p]
           row == account[f.email]
<1>0. TypeOK
  BY DEF IInv
<1>1. CASE Arrive(p)
  BY <1>1, ArriveMoves
<1>2. CASE Settle(p) /\ ~UNCHANGED account
  <2>1. CreateSocialUser(p) \/ ResetStore(p) \/ ConfirmSet(p) \/ QrSetSecret(p) \/ OtpEnable(p)
    BY <1>2 DEF Settle, SocialFindUser, SocialFindClient, PasswordCheck, AuthLogin, AuthIssue,
       ReloadCache, ResetFindUser, ConfirmFind, OtpFindUser, OtpRegister, DeviceFindUser,
       DeviceRegister, Fail
  <2>2. f \in Frame /\ p \in InFlight
    BY <1>0, <2>1 DEF TypeOK, InFlight, CreateSocialUser, ResetStore, ConfirmSet, QrSetSecret,
       OtpEnable, At
  <2>3. LookupOK(f, account) /\ ConfirmOK(f, mails, spent, now)
    BY <2>2 DEF IInv, FramesOK, FrameOK
  <2>4. f.email \in Emails
    BY <2>1, <2>3 DEF LookupOK, CreateSocialUser, ResetStore, ConfirmSet, QrSetSecret, OtpEnable, At
  <2>5. CASE CreateSocialUser(p)
    <3> DEFINE r == [client |-> f.code, password |-> FALSE, reset |-> None,
                     exp |-> 0, secret |-> None, twoFactor |-> FALSE]
    <3>1. f.code \in Codes
      BY <2>3, <2>5 DEF LookupOK, CreateSocialUser, At
    <3>2. r \in Row /\ r.reset = None
      BY <3>1 DEF Row
    <3>3. account[f.email] = None /\ account' = [account EXCEPT ![f.email] = r]
      BY <1>2, <2>5 DEF CreateSocialUser, Update, Exists
    <3> HIDE DEF r
    <3> QED BY <2>4, <2>5, <3>2, <3>3
  <2>6. CASE ~CreateSocialUser(p)
    <3>1. row \in Row
      BY <1>0, <2>1, <2>3, <2>4, <2>6 DEF LookupOK, TypeOK, ResetStore, ConfirmSet, QrSetSecret,
         OtpEnable, At
    <3>2. CASE ResetStore(p)
      <4> DEFINE r == [row EXCEPT !.reset = p, !.exp = f.exp]
      <4>1. f.exp \in Nat
        BY <2>2 DEF Frame
      <4>2. /\ r \in Row /\ r.client = row.client /\ r.twoFactor = row.twoFactor
            /\ r.secret = row.secret /\ r.reset = p /\ r.exp = f.exp
        BY <3>1, <4>1 DEF Row
      <4>3. account' = [account EXCEPT ![f.email] = r]
        BY <3>2 DEF ResetStore, Update
      <4> HIDE DEF r
      <4> QED BY <2>4, <3>1, <3>2, <4>2, <4>3
    <3>3. CASE ConfirmSet(p)
      <4> DEFINE r == [row EXCEPT !.password = TRUE, !.reset = None, !.exp = 0]
      <4>1. /\ r \in Row /\ r.client = row.client /\ r.twoFactor = row.twoFactor
            /\ r.secret = row.secret /\ r.reset = None
        BY <3>1 DEF Row
      <4>2. account' = [account EXCEPT ![f.email] = r]
        BY <3>3 DEF ConfirmSet, Update
      <4> HIDE DEF r
      <4> QED BY <2>4, <3>1, <3>3, <4>1, <4>2
    <3>4. CASE QrSetSecret(p)
      <4> DEFINE r == [row EXCEPT !.secret = p]
      <4>1. /\ r \in Row /\ r.client = row.client /\ r.twoFactor = row.twoFactor
            /\ r.secret = p /\ r.reset = row.reset /\ r.exp = row.exp
        BY <3>1 DEF Row
      <4>2. account' = [account EXCEPT ![f.email] = r]
        BY <3>4 DEF QrSetSecret, Update
      <4> HIDE DEF r
      <4> QED BY <2>4, <3>1, <3>4, <4>1, <4>2, AbsentAssumption
    <3>5. CASE OtpEnable(p)
      <4> DEFINE r == [row EXCEPT !.twoFactor = TRUE]
      <4>1. /\ r \in Row /\ r.client = row.client /\ r.twoFactor
            /\ r.secret = row.secret /\ r.reset = row.reset
            /\ r.exp = row.exp
        BY <3>1 DEF Row
      <4>2. account' = [account EXCEPT ![f.email] = r]
        BY <3>5 DEF OtpEnable, Update
      <4> HIDE DEF r
      <4> QED BY <2>4, <3>1, <3>5, <4>1, <4>2
    <3> QED BY <2>1, <2>6, <3>2, <3>3, <3>4, <3>5
  <2> QED BY <2>5, <2>6
<1> QED BY <1>1, <1>2

\* No step takes anything back: rows, links, spent tokens and the clock grow.
LEMMA Grow ==
  ASSUME IInv, [Next]_vars
  PROVE  /\ GrowsTo(account, account') /\ account' \in [Emails -> Row \cup {None}]
         /\ mails \subseteq mails' /\ spent \subseteq spent' /\ now <= now' /\ now' \in Nat
         /\ mails' \subseteq Mail
<1> USE DEF tables, cache, post
<1>0. TypeOK
  BY DEF IInv
<1>1. CASE UNCHANGED vars
  BY <1>0, <1>1 DEF vars, GrowsTo, TypeOK
<1>2. CASE Tick
  BY <1>0, <1>2 DEF Tick, GrowsTo, TypeOK
<1>3. CASE SendMail
  BY <1>0, <1>3 DEF SendMail, GrowsTo, TypeOK
<1>4. ASSUME NEW p \in Reqs, Arrive(p) \/ Settle(p)
      PROVE  /\ GrowsTo(account, account') /\ account' \in [Emails -> Row \cup {None}]
             /\ UNCHANGED <<mails, now>> /\ spent \subseteq spent'
  <2>1. UNCHANGED <<mails, now>> /\ spent \subseteq spent'
    BY <1>4, ArriveMoves DEF Settle, SocialFindUser, SocialFindClient, CreateSocialUser,
       PasswordCheck, AuthLogin, AuthIssue, ReloadCache, ResetFindUser, ResetStore, ConfirmFind,
       ConfirmSet, QrSetSecret,
       OtpFindUser, OtpEnable, OtpRegister, DeviceFindUser, DeviceRegister, Fail
  <2>2. CASE UNCHANGED account
    BY <1>0, <2>1, <2>2 DEF GrowsTo, TypeOK
  <2>3. CASE ~UNCHANGED account
    <3>1. PICK e \in Emails, r \in Row :
            /\ account' = [account EXCEPT ![e] = r]
            /\ \/ account[e] = None
               \/ /\ r.client = account[e].client
                  /\ account[e].twoFactor => r.twoFactor
                  /\ account[e].secret # None => r.secret # None
      BY <1>4, <2>3, RowWrites
    <3> QED BY <1>0, <2>1, <3>1, NoRowAssumption DEF GrowsTo, TypeOK
  <2> QED BY <2>2, <2>3
<1> QED BY <1>0, <1>1, <1>2, <1>3, <1>4 DEF Next, TypeOK

\* What the requests in flight know is kept by every step.
LEMMA FramesStep ==
  ASSUME IInv, [Next]_vars
  PROVE  FramesOK' /\ frame' \in [Reqs -> Frame]
<1> USE DEF tables, cache, post
<1>0. TypeOK
  BY DEF IInv
<1>1. ASSUME NEW q \in InFlight PROVE FrameOK(frame[q], account', mails', spent', now')
  <2>1. FrameOK(frame[q], account, mails, spent, now)
    BY DEF IInv, FramesOK
  <2>2. \A m \in mails' : m.exp \in Nat
    BY Grow DEF Mail
  <2> QED BY <1>0, <2>1, <2>2, Grow, FrameKeeps DEF TypeOK
<1>2. CASE UNCHANGED frame
  <2>1. InFlight' = InFlight
    BY <1>2 DEF InFlight
  <2> QED BY <1>0, <1>1, <1>2, <2>1 DEF FramesOK, TypeOK
<1>3. ASSUME NEW p \in Reqs, Arrive(p) \/ Settle(p)
      PROVE  FramesOK' /\ frame' \in [Reqs -> Frame]
  <2>1. PICK g : Moves(p, g)
    BY <1>3, ArriveMoves, SettleMoves
  <2>2. frame' = [frame EXCEPT ![p] = g] /\ g \in Frame
    BY <2>1 DEF Moves
  <2>3. ASSUME NEW q \in Reqs, q \in InFlight'
        PROVE  FrameOK(frame'[q], account', mails', spent', now')
    <3>1. CASE q = p
      <4>1. frame'[q] = g /\ g.pc # "done"
        BY <1>0, <2>2, <2>3, <3>1 DEF TypeOK, InFlight
      <4> QED BY <2>1, <4>1 DEF Moves
    <3>2. CASE q # p
      <4>1. frame'[q] = frame[q] /\ q \in InFlight
        BY <1>0, <2>2, <2>3, <3>2 DEF TypeOK, InFlight
      <4> QED BY <1>1, <4>1
    <3> QED BY <3>1, <3>2
  <2>4. FramesOK'
    BY <2>3 DEF FramesOK, InFlight
  <2> QED BY <1>0, <2>2, <2>4 DEF TypeOK
<1> QED BY <1>2, <1>3 DEF Next, vars, Tick, SendMail

\* The steps that hand out a token, trust a device, publish a link or spend one.
LEMMA Writes ==
  ASSUME IInv, NEW p \in Reqs, Arrive(p) \/ Settle(p)
  PROVE  /\ UNCHANGED signedIn \/ AuthLogin(p) \/ AuthIssue(p) \/ ReloadCache(p)
         /\ UNCHANGED issued \/ AuthIssue(p)
         /\ UNCHANGED devices \/ OtpRegister(p) \/ DeviceRegister(p)
         /\ UNCHANGED outbox \/ ResetStore(p)
         /\ UNCHANGED spent \/ ResetStore(p) \/ ConfirmSet(p)
<1> USE DEF tables, cache, post
<1>1. CASE Arrive(p)
  BY <1>1, ArriveMoves
<1>2. CASE Settle(p)
  BY <1>2 DEF Settle, SocialFindUser, SocialFindClient, CreateSocialUser,
     PasswordCheck, AuthLogin, AuthIssue, ReloadCache, ResetFindUser, ResetStore, ConfirmFind,
     ConfirmSet, QrSetSecret,
     OtpFindUser, OtpEnable, OtpRegister, DeviceFindUser, DeviceRegister, Fail
<1> QED BY <1>1, <1>2

\* Payloads carry their user's client, devices belong to users with the flag.
LEMMA GrantStep ==
  ASSUME IInv, [Next]_vars
  PROVE  /\ signedIn' \subseteq Payload /\ TokenOfOwnClient'
         /\ issued' \subseteq Emails /\ IssuedOK'
         /\ devices' \subseteq Emails /\ DeviceNeedsTwoFactor'
<1> USE DEF tables, cache, post
<1>0. TypeOK /\ TokenOfOwnClient /\ DeviceNeedsTwoFactor /\ IssuedOK
  BY DEF IInv
<1>1. GrowsTo(account, account')
  BY Grow
<1>2. ASSUME signedIn' \subseteq signedIn
      PROVE  signedIn' \subseteq Payload /\ TokenOfOwnClient'
  <2>1. \A s \in signedIn : s.email \in Emails
    BY <1>0 DEF TypeOK, Payload
  <2> QED BY <1>0, <1>1, <1>2, <2>1 DEF TypeOK, TokenOfOwnClient, Exists, GrowsTo
<1>3. ASSUME UNCHANGED devices
      PROVE  devices' \subseteq Emails /\ DeviceNeedsTwoFactor'
  BY <1>0, <1>1, <1>3 DEF TypeOK, DeviceNeedsTwoFactor, Enabled2fa, Exists, GrowsTo
<1>4. ASSUME UNCHANGED issued
      PROVE  issued' \subseteq Emails /\ IssuedOK'
  BY <1>0, <1>1, <1>4 DEF TypeOK, IssuedOK, Exists, GrowsTo
<1>5. ASSUME NEW p \in Reqs, AuthIssue(p) \/ ReloadCache(p)
      PROVE  /\ signedIn' \subseteq Payload /\ TokenOfOwnClient'
             /\ issued' \subseteq Emails /\ IssuedOK'
  <2> DEFINE f == frame[p]
  <2>1. f.pc \in {"issue", "vcache"} /\ p \in InFlight /\ f \in Frame
    BY <1>0, <1>5 DEF AuthIssue, ReloadCache, At, InFlight, TypeOK
  <2>2. f.email \in Emails /\ account[f.email] # None /\ account[f.email].client = f.client
    BY <2>1 DEF IInv, FramesOK, FrameOK, LookupOK
  <2>3. f.client \in Codes /\ f.flag \in BOOLEAN
    BY <1>0, <2>1, <2>2 DEF TypeOK, Row, Frame
  <2>4. PICK root \in BOOLEAN : signedIn' = signedIn \cup {Cached(p, root)}
    BY <1>5 DEF AuthIssue, ReloadCache
  <2> DEFINE c == Cached(p, root)
  <2>5. c \in Payload /\ c.email = f.email /\ c.client = f.client
    BY <2>2, <2>3 DEF Cached, Payload
  <2> HIDE DEF c
  <2>6. signedIn' \subseteq Payload
    BY <1>0, <2>4, <2>5 DEF TypeOK, c
  <2>7. \A s \in signedIn' : account[s.email] # None /\ account[s.email].client = s.client
    BY <1>0, <2>2, <2>4, <2>5 DEF TokenOfOwnClient, Exists, c
  <2>8. \A s \in signedIn' : s.email \in Emails
    BY <2>6 DEF Payload
  <2>9. issued' \subseteq issued \cup {f.email}
    BY <1>5 DEF AuthIssue, ReloadCache
  <2>10. issued' \subseteq Emails /\ \A e \in issued' : account[e] # None
    BY <1>0, <2>2, <2>9 DEF TypeOK, IssuedOK, Exists
  <2> QED BY <1>1, <2>6, <2>7, <2>8, <2>10 DEF TokenOfOwnClient, IssuedOK, Exists, GrowsTo
<1>6. ASSUME NEW p \in Reqs, OtpRegister(p) \/ DeviceRegister(p)
      PROVE  devices' \subseteq Emails /\ DeviceNeedsTwoFactor'
  <2> DEFINE e == frame[p].email
  <2>1. frame[p].pc \in {"odev", "ddev"} /\ p \in InFlight
    BY <1>6 DEF OtpRegister, DeviceRegister, At, InFlight
  <2>2. e \in Emails /\ account[e] # None /\ account[e].twoFactor /\ account[e].secret # None
    BY <2>1 DEF IInv, FramesOK, FrameOK, LookupOK
  <2>3. devices' = devices \cup {e}
    BY <1>6 DEF OtpRegister, DeviceRegister
  <2> QED BY <1>0, <1>1, <2>2, <2>3
         DEF TypeOK, DeviceNeedsTwoFactor, Enabled2fa, Exists, GrowsTo
<1>7. CASE UNCHANGED <<cache, devices>>
  BY <1>2, <1>3, <1>7, <1>4
<1>8. ASSUME NEW p \in Reqs, Arrive(p) \/ Settle(p)
      PROVE  /\ signedIn' \subseteq Payload /\ TokenOfOwnClient'
             /\ issued' \subseteq Emails /\ IssuedOK'
             /\ devices' \subseteq Emails /\ DeviceNeedsTwoFactor'
  <2>1. AuthLogin(p) => signedIn' \subseteq signedIn
    BY DEF AuthLogin
  <2>2. signedIn' \subseteq Payload /\ TokenOfOwnClient'
    BY <1>2, <1>5, <1>8, <2>1, Writes
  <2>3. issued' \subseteq Emails /\ IssuedOK'
    BY <1>5, <1>8, <1>4, Writes
  <2> QED BY <1>3, <1>6, <1>8, <2>2, <2>3, Writes
<1> QED BY <1>7, <1>8 DEF Next, vars, Tick, SendMail

\* Of the tokens in rows and mails: what a step may do to them.
LEMMA LinkStep ==
  ASSUME IInv, [Next]_vars
  PROVE  /\ outbox' \subseteq Mail /\ spent' \subseteq Reqs
         /\ RowsOK' /\ FreshOK'
<1> USE DEF tables, cache, post
<1>0. TypeOK /\ RowsOK /\ FreshOK
  BY DEF IInv
<1>1. CASE UNCHANGED <<account, spent, frame>> /\ outbox' \cup mails' \subseteq outbox \cup mails
           /\ mails \subseteq mails'
  BY <1>0, <1>1 DEF TypeOK, RowsOK, FreshOK, Exists, At
<1>2. ASSUME NEW p \in Reqs, Arrive(p) \/ Settle(p)
      PROVE  /\ outbox' \subseteq Mail /\ spent' \subseteq Reqs
             /\ RowsOK' /\ FreshOK'
  <2> DEFINE f == frame[p]
  <2>1. /\ UNCHANGED mails /\ f.pc # "done"
        /\ \A q \in Reqs : frame'[q].pc # "done" => frame[q].pc # "done"
    <3>1. PICK g : Moves(p, g)
      BY <1>2, ArriveMoves, SettleMoves
    <3>2. UNCHANGED mails
      BY <1>2, ArriveMoves DEF Settle, SocialFindUser, SocialFindClient, CreateSocialUser,
         PasswordCheck, AuthLogin, AuthIssue, ReloadCache, ResetFindUser, ResetStore,
         ConfirmFind, ConfirmSet,
         QrSetSecret, OtpFindUser, OtpEnable, OtpRegister, DeviceFindUser, DeviceRegister, Fail
    <3> QED BY <1>0, <3>1, <3>2 DEF Moves, TypeOK
  <2>2. ASSUME p \in InFlight, f.pc \in {"rstore", "cset"}
        PROVE  f.email \in Emails /\ account[f.email] \in Row /\ f \in Frame
    <3>1. LookupOK(f, account)
      BY <2>2 DEF IInv, FramesOK, FrameOK
    <3> QED BY <1>0, <2>2, <3>1 DEF LookupOK, TypeOK
  <2>3. CASE ResetStore(p)
    <3> DEFINE e == f.email
               r == [account[e] EXCEPT !.reset = p, !.exp = f.exp]
               m == [email |-> e, tok |-> p, exp |-> f.exp]
    <3>1. f.pc = "rstore" /\ p \in InFlight
      BY <2>3 DEF ResetStore, At, InFlight
    <3>2. e \in Emails /\ account[e] \in Row /\ f \in Frame
      BY <2>2, <3>1
    <3>3. /\ account' = [account EXCEPT ![e] = r] /\ outbox' = outbox \cup {m}
          /\ spent' = spent \cup ({account[e].reset} \ {None})
          /\ frame' = [frame EXCEPT ![p] = Idle("done")]
      BY <2>3 DEF ResetStore, Update, Drop
    <3>4. m \in Mail /\ m.tok = p /\ m.email = e /\ m.exp = f.exp
      BY <3>2 DEF Mail, Frame
    <3>5. /\ r \in Row /\ r.reset = p /\ r.exp = f.exp
      BY <3>2, <3>4 DEF Row, Frame
    <3>6. account[e].reset \in Reqs \cup {None}
      BY <3>2 DEF Row
    <3> HIDE DEF r, m
    <3>7. /\ p \notin spent /\ \A n \in outbox \cup mails : n.tok # p
          /\ \A d \in Emails : account[d] # None => account[d].reset # p
      BY <1>0, <2>1 DEF FreshOK, At, Exists
    <3>8. /\ account'[e] = r /\ r # None /\ account[e] # None
          /\ \A d \in Emails : d # e => account'[d] = account[d]
      BY <1>0, <3>2, <3>3, <3>5, NoRowAssumption DEF TypeOK
    <3>9. outbox' \subseteq Mail /\ spent' \subseteq Reqs
      BY <1>0, <3>3, <3>4, <3>6 DEF TypeOK
    <3>10. RowsOK'
      <4>1. ASSUME NEW d \in Emails, account'[d] # None, account'[d].reset # None
            PROVE  /\ account'[d].reset \notin spent'
                   /\ \A c \in Emails :
                        account'[c] # None /\ account'[c].reset = account'[d].reset => c = d
                   /\ \A n \in outbox' \cup mails' :
                        n.tok = account'[d].reset => n.email = d /\ n.exp = account'[d].exp
        <5>1. CASE d = e
          BY <2>1, <3>2, <3>3, <3>4, <3>5, <3>7, <3>8, <5>1
        <5>2. CASE d # e
          <6>1. /\ account[d] # None /\ account[d].reset # None /\ account'[d] = account[d]
            BY <3>8, <4>1, <5>2
          <6>2. /\ account[d].reset \notin spent
                /\ \A c \in Emails :
                     account[c] # None /\ account[c].reset = account[d].reset => c = d
                /\ \A n \in outbox \cup mails :
                     n.tok = account[d].reset => n.email = d /\ n.exp = account[d].exp
            BY <1>0, <6>1 DEF RowsOK, Exists
          <6>3. account[d].reset # p
            BY <3>7, <6>1
          <6>4. account[d].reset # account[e].reset
            BY <3>2, <3>8, <5>2, <6>2
          <6> QED BY <2>1, <3>3, <3>4, <3>5, <3>8, <6>1, <6>2, <6>3, <6>4
        <5> QED BY <5>1, <5>2
      <4> QED BY <4>1 DEF RowsOK, Exists
    <3>11. FreshOK'
      <4>1. frame'[p].pc = "done"
        BY <1>0, <3>3, IdleFrame DEF TypeOK, Pcs
      <4>2. ASSUME NEW q \in Reqs, frame'[q].pc # "done"
            PROVE  /\ q \notin spent' /\ \A n \in outbox' \cup mails' : n.tok # q
                   /\ \A d \in Emails : account'[d] # None => account'[d].reset # q
        <5>1. q # p /\ frame[q].pc # "done"
          BY <2>1, <4>1, <4>2
        <5>2. /\ q \notin spent /\ \A n \in outbox \cup mails : n.tok # q
              /\ \A d \in Emails : account[d] # None => account[d].reset # q
          BY <1>0, <5>1 DEF FreshOK, At, Exists
        <5> QED BY <2>1, <3>2, <3>3, <3>4, <3>5, <3>8, <5>1, <5>2
      <4> QED BY <4>2 DEF FreshOK, At, Exists
    <3> QED BY <3>9, <3>10, <3>11
  <2>4. CASE ConfirmSet(p)
    <3> DEFINE e == f.email
               r == [account[e] EXCEPT !.password = TRUE, !.reset = None, !.exp = 0]
    <3>1. f.pc = "cset" /\ p \in InFlight
      BY <2>4 DEF ConfirmSet, At, InFlight
    <3>2. e \in Emails /\ account[e] \in Row /\ f \in Frame
      BY <2>2, <3>1
    <3>3. f.tok # None => \E m \in mails : m.tok = f.tok /\ m.email = e
      BY <3>1 DEF IInv, FramesOK, FrameOK, ConfirmOK
    <3>4. /\ account' = [account EXCEPT ![e] = r] /\ UNCHANGED outbox
          /\ spent' = spent \cup ({f.tok, account[e].reset} \ {None})
      BY <2>4 DEF ConfirmSet, Update
    <3>5. /\ r \in Row /\ r.reset = None
      BY <3>2 DEF Row, Frame
    <3>6. account[e].reset \in Reqs \cup {None} /\ f.tok \in Reqs \cup {None}
      BY <3>2 DEF Row, Frame
    <3> HIDE DEF r
    <3>7. /\ account'[e] = r /\ r # None /\ account[e] # None
          /\ \A d \in Emails : d # e => account'[d] = account[d]
      BY <1>0, <3>2, <3>4, <3>5, NoRowAssumption DEF TypeOK
    <3>8. outbox' \subseteq Mail /\ spent' \subseteq Reqs
      BY <1>0, <3>4, <3>6 DEF TypeOK
    <3>9. RowsOK'
      <4>1. ASSUME NEW d \in Emails, account'[d] # None, account'[d].reset # None
            PROVE  /\ account'[d].reset \notin spent'
                   /\ \A c \in Emails :
                        account'[c] # None /\ account'[c].reset = account'[d].reset => c = d
                   /\ \A n \in outbox' \cup mails' :
                        n.tok = account'[d].reset => n.email = d /\ n.exp = account'[d].exp
        <5>1. d # e /\ account'[d] = account[d]
          BY <3>5, <3>7, <4>1
        <5>2. /\ account[d].reset \notin spent
              /\ \A c \in Emails :
                   account[c] # None /\ account[c].reset = account[d].reset => c = d
              /\ \A n \in outbox \cup mails :
                   n.tok = account[d].reset => n.email = d /\ n.exp = account[d].exp
          BY <1>0, <4>1, <5>1 DEF RowsOK, Exists
        <5>3. account[d].reset # f.tok
          BY <3>3, <4>1, <5>1, <5>2
        <5>4. account[d].reset # account[e].reset
          BY <3>2, <3>7, <5>1, <5>2
        <5> QED BY <2>1, <3>4, <3>5, <3>7, <4>1, <5>1, <5>2, <5>3, <5>4
      <4> QED BY <4>1 DEF RowsOK, Exists
    <3>10. FreshOK'
      <4>1. ASSUME NEW q \in Reqs, frame'[q].pc # "done"
            PROVE  /\ q \notin spent' /\ \A n \in outbox' \cup mails' : n.tok # q
                   /\ \A d \in Emails : account'[d] # None => account'[d].reset # q
        <5>1. /\ q \notin spent /\ \A n \in outbox \cup mails : n.tok # q
              /\ \A d \in Emails : account[d] # None => account[d].reset # q
          BY <1>0, <2>1, <4>1 DEF FreshOK, At, Exists
        <5>2. q # f.tok /\ q # None
          BY <3>3, <5>1, AbsentAssumption
        <5> QED BY <2>1, <3>2, <3>4, <3>5, <3>7, <5>1, <5>2
      <4> QED BY <4>1 DEF FreshOK, At, Exists
    <3> QED BY <3>8, <3>9, <3>10
  <2>5. CASE ~ResetStore(p) /\ ~ConfirmSet(p)
    <3>1. UNCHANGED <<outbox, mails, spent>>
      BY <1>2, <2>1, <2>5, Writes
    <3>2. \A d \in Emails : account'[d] # None =>
            \/ account'[d].reset = None
            \/ /\ account[d] # None /\ account'[d].reset = account[d].reset
               /\ account'[d].exp = account[d].exp
      BY <1>0, <1>2, <2>5, RowWrites, NoRowAssumption DEF TypeOK
    <3>3. RowsOK'
      BY <1>0, <3>1, <3>2 DEF RowsOK, Exists
    <3>4. FreshOK'
      BY <1>0, <2>1, <3>1, <3>2, AbsentAssumption DEF FreshOK, At, Exists
    <3> QED BY <1>0, <3>1, <3>3, <3>4 DEF TypeOK
  <2> QED BY <2>3, <2>4, <2>5
<1>3. CASE UNCHANGED vars \/ Tick \/ SendMail
  BY <1>1, <1>3 DEF vars, Tick, SendMail
<1> QED BY <1>2, <1>3 DEF Next

-----------------------------------------------------------------------------
(* Results.                                                                *)

\* The empty user table satisfies the invariant ...
LEMMA InitInv == Init => IInv
<1> SUFFICES ASSUME Init PROVE IInv
  OBVIOUS
<1> USE DEF Init
<1>1. Idle("new") \in Frame /\ Idle("new").pc = "new"
  BY IdleFrame DEF Pcs
<1>2. \A q \in Reqs : frame[q] \in Frame /\ frame[q].pc = "new"
  BY <1>1
<1>3. TypeOK
  BY <1>1 DEF TypeOK
<1>4. FramesOK
  BY <1>2 DEF FramesOK, InFlight
<1>5. RowsOK /\ FreshOK /\ IssuedOK /\ TokenOfOwnClient /\ DeviceNeedsTwoFactor
  BY DEF RowsOK, FreshOK, IssuedOK, TokenOfOwnClient, DeviceNeedsTwoFactor, Exists
<1> QED BY <1>3, <1>4, <1>5 DEF IInv

\* ... and every await, arrival, mail and tick keeps it.
LEMMA StepInv == IInv /\ [Next]_vars => IInv'
<1> SUFFICES ASSUME IInv, [Next]_vars PROVE IInv'
  OBVIOUS
<1>1. TypeOK'
  BY Grow, FramesStep, GrantStep, LinkStep DEF TypeOK
<1> QED BY <1>1, FramesStep, GrantStep, LinkStep DEF IInv

\* What every handler relies on holds between any two awaits.
THEOREM Inductive == Spec => []IInv
  BY InitInv, StepInv, PTL DEF Spec

\* User table, mails and handlers hold what they can hold.
THEOREM AccountTypes == Spec => []TypeOK
<1>1. IInv => TypeOK
  BY DEF IInv
<1> QED BY <1>1, Inductive, PTL

\* updatePassword is never reached with a used, replaced or expired link.
THEOREM StaleLinksRefused == Spec => []StaleLinkRefused
<1>1. IInv => StaleLinkRefused
  BY DEF IInv, FramesOK, FrameOK, ConfirmOK, InFlight, StaleLinkRefused, At
<1> QED BY <1>1, Inductive, PTL

\* A confirmation with a token sets the password of the user the token was
\* mailed to.
THEOREM PasswordsByMail == Spec => []PasswordByMail
<1>1. IInv => PasswordByMail
  BY DEF IInv, FramesOK, FrameOK, ConfirmOK, InFlight, PasswordByMail, At
<1> QED BY <1>1, Inductive, PTL

\* Overlapping social logins, validations and refreshes never leave a payload
\* with another client.
THEOREM TokensOfOwnClient == Spec => []TokenOfOwnClient
<1>1. IInv => TokenOfOwnClient
  BY DEF IInv
<1> QED BY <1>1, Inductive, PTL

\* A trusted device implies the flag and a secret, failures included.
THEOREM DevicesNeedTwoFactor == Spec => []DeviceNeedsTwoFactor
<1>1. IInv => DeviceNeedsTwoFactor
  BY DEF IInv
<1> QED BY <1>1, Inductive, PTL

\* No login that arrives after the flag is set gets to generateTokens.
THEOREM TwoFactorGates == Spec => []TwoFactorGate
<1>1. IInv => TwoFactorGate
  BY DEF IInv, FramesOK, FrameOK, LookupOK, InFlight, TwoFactorGate, At
<1> QED BY <1>1, Inductive, PTL

-----------------------------------------------------------------------------
(* Two-factor authentication in force.                                     *)

\* What Sealed(e) asks of the locals of a request.
SealedFrame(e, f) ==
  f.email = e => /\ f.pc # "qset"
                 /\ f.pc \in {"sclient", "screate", "ddev", "login", "issue", "vcache"} => f.flag

\* A request that arrives for the user has read nothing, or the flag of the row
\* or of a payload; a QR code needs a payload without the flag.
LEMMA SealedArrive ==
  ASSUME IInv, NEW e \in Emails, Sealed(e), NEW p \in Reqs, Arrive(p)
  PROVE  SealedFrame(e, frame'[p])
<1>0. frame \in [Reqs -> Frame]
  BY DEF IInv, TypeOK
<1>1. ASSUME NEW g, Request(p, g) PROVE frame'[p] = g
  BY <1>0, <1>1 DEF Request
<1>2. CASE GenerateTwoFactorQR(p)
  <2>1. PICK s \in signedIn :
          ~s.flag /\ Request(p, NewFrame("qset", s.email, None, None, FALSE, FALSE, FALSE))
    BY <1>2 DEF GenerateTwoFactorQR
  <2>2. frame'[p].email # e
    BY <1>1, <2>1 DEF Sealed, NewFrame
  <2> QED BY <2>2 DEF SealedFrame
<1>3. CASE Reload(p)
  <2>1. PICK d \in issued, header \in Codes \cup {None} :
          \E r \in {[client |-> account[d].client, flag |-> account[d].twoFactor]} \cup
                  {s \in signedIn : s.email = d /\ s.root = (header = None)} :
            Request(p, [NewFrame("vcache", d, header, None, FALSE, FALSE, FALSE)
                        EXCEPT !.client = r.client, !.flag = r.flag])
    BY <1>3 DEF Reload
  <2>2. PICK r \in {[client |-> account[d].client, flag |-> account[d].twoFactor]} \cup
                  {s \in signedIn : s.email = d /\ s.root = (header = None)} :
          Request(p, [NewFrame("vcache", d, header, None, FALSE, FALSE, FALSE)
                      EXCEPT !.client = r.client, !.flag = r.flag])
    BY <2>1
  <2>3. d = e => r.flag
    BY DEF Sealed, Enabled2fa
  <2>4. frame'[p].email = d /\ frame'[p].flag = r.flag /\ frame'[p].pc = "vcache"
    BY <1>1, <2>2 DEF NewFrame
  <2> QED BY <2>3, <2>4 DEF SealedFrame
<1>4. CASE ~GenerateTwoFactorQR(p) /\ ~Reload(p)
  <2>1. ASSUME NEW pc \in {"sfind", "pfind", "rfind", "cfind", "ofind", "dfind"}, NEW email,
               NEW code, NEW tok, NEW good, NEW gate, NEW stale,
               Request(p, NewFrame(pc, email, code, tok, good, gate, stale))
        PROVE  SealedFrame(e, frame'[p])
    <3>1. frame'[p].pc = pc
      BY <1>1, <2>1 DEF NewFrame
    <3> QED BY <3>1 DEF SealedFrame
  <2>2. CASE GoogleLoginCallback(p) \/ Login(p) \/ ResetPasswordRequest(p)
    BY <2>1, <2>2 DEF GoogleLoginCallback, Login, ResetPasswordRequest
  <2>3. CASE ResetPassword(p)
    BY <2>1, <2>3 DEF ResetPassword
  <2>4. CASE VerifyTwoFactorAuth(p) \/ LoginWithTwoFactor(p)
    BY <2>1, <2>4 DEF VerifyTwoFactorAuth, LoginWithTwoFactor
  <2> QED BY <1>4, <2>2, <2>3, <2>4 DEF Arrive
<1> QED BY <1>2, <1>4, <1>3

\* A handler that reads the row of the user finds the flag.
LEMMA SealedSettle ==
  ASSUME IInv, NEW e \in Emails, Sealed(e), NEW p \in Reqs, Settle(p)
  PROVE  SealedFrame(e, frame'[p])
<1> DEFINE f == frame[p]
<1>0. frame \in [Reqs -> Frame] /\ f \in Frame
  BY DEF IInv, TypeOK
<1>1. SealedFrame(e, f) /\ account[e] # None /\ account[e].twoFactor
  BY DEF Sealed, SealedFrame, Enabled2fa, Exists, At
<1>2. CASE Drop(p)
  <2>1. frame'[p].pc = "done"
    BY <1>0, <1>2, IdleFrame DEF Drop, Pcs
  <2> QED BY <2>1 DEF SealedFrame
<1>3. ASSUME NEW pc \in {"login", "screate", "issue"}, Goto(p, pc),
             f.pc \in {"sclient", "ddev", "login"}
      PROVE  SealedFrame(e, frame'[p])
  <2>1. frame'[p].pc = pc /\ frame'[p].email = f.email /\ frame'[p].flag = f.flag
    BY <1>0, <1>3 DEF Goto, Frame
  <2> QED BY <1>1, <1>3, <2>1 DEF SealedFrame
<1>4. ASSUME NEW pc \in {"sclient", "login", "ddev"}, Read(p, pc)
      PROVE  SealedFrame(e, frame'[p])
  <2>1. /\ frame'[p].pc = pc /\ frame'[p].email = f.email
        /\ frame'[p].flag = account[f.email].twoFactor
    BY <1>0, <1>4 DEF Read, Frame
  <2> QED BY <1>1, <2>1 DEF SealedFrame
<1>5. ASSUME NEW pc \in {"rstore", "cset", "oset", "odev"}, frame'[p].pc = pc
      PROVE  SealedFrame(e, frame'[p])
  BY <1>5 DEF SealedFrame
<1>6. CASE SocialFindUser(p)
  <2>1. CASE f.email = e
    BY <1>1, <1>4, <1>6, <2>1 DEF SocialFindUser, Exists
  <2>2. CASE f.email # e
    <3>1. frame'[p].email = f.email
      BY <1>0, <1>6 DEF SocialFindUser, Read, Goto, Frame
    <3> QED BY <2>2, <3>1 DEF SealedFrame
  <2> QED BY <2>1, <2>2
<1>7. CASE SocialFindClient(p) \/ DeviceRegister(p) \/ AuthLogin(p)
  BY <1>2, <1>3, <1>7 DEF SocialFindClient, DeviceRegister, AuthLogin, At
<1>8. CASE CreateSocialUser(p)
  <2>1. CASE Exists(f.email)
    BY <1>2, <1>8, <2>1 DEF CreateSocialUser
  <2>2. CASE ~Exists(f.email)
    <3>1. frame'[p].email = f.email /\ f.email # e
      BY <1>0, <1>1, <1>8, <2>2 DEF CreateSocialUser, Frame, Exists
    <3> QED BY <3>1 DEF SealedFrame
  <2> QED BY <2>1, <2>2
<1>9. CASE PasswordCheck(p) \/ DeviceFindUser(p)
  BY <1>2, <1>4, <1>9 DEF PasswordCheck, DeviceFindUser
<1>10. CASE ResetFindUser(p)
  <2>1. frame'[p].pc = "rstore" \/ Drop(p)
    BY <1>0, <1>10 DEF ResetFindUser, Frame
  <2> QED BY <1>2, <1>5, <2>1
<1>11. CASE ConfirmFind(p)
  <2>1. frame'[p].pc = "cset" \/ Drop(p)
    BY <1>0, <1>11 DEF ConfirmFind, Frame
  <2> QED BY <1>2, <1>5, <2>1
<1>12. CASE OtpFindUser(p) \/ OtpEnable(p)
  <2>1. frame'[p].pc \in {"oset", "odev"} \/ Drop(p)
    BY <1>0, <1>12 DEF OtpFindUser, OtpEnable, Goto, Frame
  <2> QED BY <1>2, <1>5, <2>1
<1>13. CASE AuthIssue(p) \/ ReloadCache(p) \/ ResetStore(p) \/ ConfirmSet(p)
            \/ QrSetSecret(p) \/ OtpRegister(p) \/ Fail(p)
  BY <1>2, <1>13 DEF AuthIssue, ReloadCache, ResetStore, ConfirmSet, QrSetSecret, OtpRegister, Fail
<1> QED BY <1>6, <1>7, <1>8, <1>9, <1>10, <1>11, <1>12, <1>13 DEF Settle

\* The secret is written by the request for a QR code alone.
LEMMA SealedSecret ==
  ASSUME IInv, NEW e \in Emails, Sealed(e), NEW p \in Reqs, Arrive(p) \/ Settle(p)
  PROVE  account'[e].secret = account[e].secret
<1> USE DEF tables, cache, post
<1> DEFINE f == frame[p]
<1>0. account \in [Emails -> Row \cup {None}] /\ account[e] # None /\ account[e] \in Row
  BY DEF IInv, TypeOK, Sealed, Enabled2fa, Exists
<1>1. ASSUME NEW r, Update(p, r), f.email = e => r.secret = account[e].secret
      PROVE  account'[e].secret = account[e].secret
  BY <1>0, <1>1 DEF Update
<1>2. CASE CreateSocialUser(p)
  BY <1>0, <1>1, <1>2 DEF CreateSocialUser, Exists
<1>3. CASE ResetStore(p) \/ ConfirmSet(p) \/ OtpEnable(p)
  <2>1. PICK r : /\ Update(p, r)
                 /\ \/ r = [account[f.email] EXCEPT !.reset = p, !.exp = f.exp]
                    \/ r = [account[f.email] EXCEPT !.password = TRUE, !.reset = None, !.exp = 0]
                    \/ r = [account[f.email] EXCEPT !.twoFactor = TRUE]
    BY <1>3 DEF ResetStore, ConfirmSet, OtpEnable
  <2>2. f.email = e => r.secret = account[e].secret
    BY <1>0, <2>1 DEF Row
  <2> QED BY <1>1, <2>1, <2>2
<1>4. CASE QrSetSecret(p)
  <2>1. f.email # e
    BY <1>4 DEF QrSetSecret, Sealed
  <2> QED BY <1>1, <1>4, <2>1 DEF QrSetSecret
<1>5. CASE Arrive(p)
  BY <1>5, ArriveMoves
<1>6. CASE Settle(p) /\ ~CreateSocialUser(p) /\ ~ResetStore(p) /\ ~ConfirmSet(p)
           /\ ~OtpEnable(p) /\ ~QrSetSecret(p)
  BY <1>6 DEF Settle, SocialFindUser, SocialFindClient, PasswordCheck, AuthLogin, AuthIssue,
     ReloadCache, ResetFindUser, ConfirmFind, OtpFindUser, OtpRegister, DeviceFindUser,
     DeviceRegister, Fail
<1> QED BY <1>2, <1>3, <1>4, <1>5, <1>6

\* No step breaks the seal.
LEMMA SealStep ==
  ASSUME IInv, [Next]_vars, NEW e \in Emails, Sealed(e)
  PROVE  Sealed(e)' /\ account'[e].secret = account[e].secret
<1> USE DEF tables, cache, post
<1>0. Enabled2fa(e)'
  BY Grow DEF Sealed, Enabled2fa, Exists, GrowsTo
<1>1. ASSUME NEW p \in Reqs, Arrive(p) \/ Settle(p)
      PROVE  Sealed(e)' /\ account'[e].secret = account[e].secret
  <2>1. PICK g : Moves(p, g)
    BY <1>1, ArriveMoves, SettleMoves
  <2>2. frame \in [Reqs -> Frame] /\ SealedFrame(e, frame'[p])
    BY <1>1, SealedArrive, SealedSettle DEF IInv, TypeOK
  <2>3. \A q \in Reqs : SealedFrame(e, frame[q])
    BY DEF Sealed, SealedFrame, At
  <2>4. \A q \in Reqs : SealedFrame(e, frame'[q])
    BY <2>1, <2>2, <2>3 DEF Moves
  <2>5. \A s \in signedIn' : s.email = e => s.flag
    <3>1. CASE UNCHANGED signedIn \/ AuthLogin(p)
      BY <3>1 DEF AuthLogin, Sealed
    <3>2. CASE AuthIssue(p) \/ ReloadCache(p)
      <4>1. frame[p].email = e => frame[p].flag
        BY <2>3, <3>2 DEF AuthIssue, ReloadCache, At, SealedFrame
      <4>2. PICK root : signedIn' = signedIn \cup {Cached(p, root)}
        BY <3>2 DEF AuthIssue, ReloadCache
      <4> QED BY <4>1, <4>2 DEF Cached, Sealed
    <3> QED BY <1>1, <3>1, <3>2, Writes
  <2>6. Sealed(e)'
    BY <1>0, <2>4, <2>5 DEF Sealed, SealedFrame, At
  <2> QED BY <1>1, <2>6, SealedSecret
<1>2. CASE UNCHANGED vars \/ Tick \/ SendMail
  BY <1>2 DEF vars, Tick, SendMail, Sealed, Enabled2fa, Exists, At
<1> QED BY <1>1, <1>2 DEF Next

\* Once every cached payload of the user has the flag, two-factor
\* authentication is final: no login, refresh or validation leaves a payload
\* without it, and no handler clears the flag or replaces the secret.
THEOREM SealsHold == Spec => SealHolds
<1> DEFINE Kept == \A e \in Emails :
                     Sealed(e) => Sealed(e)' /\ account'[e].secret = account[e].secret
<1>1. ASSUME IInv, [Next]_vars PROVE [Kept]_vars
  BY <1>1, SealStep
<1>2. Spec => [][Next]_vars
  BY PTL DEF Spec
<1> QED BY <1>1, <1>2, Inductive, PTL DEF SealHolds
=============================================================================
