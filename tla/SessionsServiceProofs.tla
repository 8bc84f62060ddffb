------------------------ MODULE SessionsServiceProofs ------------------------
(***************************************************************************)
(* What a client sees of Sessions: the proof that it implements            *)
(* TokenService, and the bound on a user's valid refresh tokens.           *)
(***************************************************************************)
EXTENDS SessionsProofs

-----------------------------------------------------------------------------
(* The refinement: what each step of a request looks like from outside.    *)

\* What TokenService sees is unchanged.
Unseen == UNCHANGED <<now, Owners, given, revoked, Views>>

\* A request that changes its frame changes only its own view.
LEMMA ViewSet ==
  ASSUME NEW p \in Reqs, NEW g, frame \in [Reqs -> Frame], frame' = [frame EXCEPT ![p] = g]
  PROVE  Views' = [Views EXCEPT ![p] = View(g)] /\ Views[p] = View(frame[p])
<1>1. \A q \in Reqs : frame'[q] = IF q = p THEN g ELSE frame[q]
  OBVIOUS
<1> HIDE DEF View
<1>2. Views = [q \in Reqs |-> View(frame[q])] /\ Views' = [q \in Reqs |-> View(frame'[q])]
  BY DEF Views
<1>3. Views' = [q \in Reqs |-> IF q = p THEN View(g) ELSE View(frame[q])]
  BY <1>1, <1>2
<1> QED BY <1>2, <1>3

\* The awaits in the middle of a request are all alike to its client.
LEMMA SameView ==
  ASSUME NEW p \in Reqs, NEW g \in Frame, frame \in [Reqs -> Frame],
         frame' = [frame EXCEPT ![p] = g],
         frame[p].pc \notin {"new", "done", "ok"}, g.pc \notin {"new", "done", "ok"},
         g.op = frame[p].op, g.user = frame[p].user, g.ns = frame[p].ns, g.was = frame[p].was,
         g.op = "validate" => g.acc = frame[p].acc,
         g.op = "refresh" => g.ref = frame[p].ref
  PROVE  Views' = Views
<1>1. View(g) = View(frame[p])
  BY DEF View, Phase, Stale
<1>2. Views' = [Views EXCEPT ![p] = View(g)] /\ Views[p] = View(frame[p])
  BY ViewSet
<1>3. Views = [q \in Reqs |-> Views[q]]
  BY DEF Views
<1> HIDE DEF View, Views
<1> QED BY <1>1, <1>2, <1>3

\* updateMany on isValid never changes an owner.
LEMMA SameOwners ==
  ASSUME StoreOK, NEW u, NEW d, rows' = rows \/ rows' = Invalidated(u, d)
  PROVE  Owners' = Owners
<1>1. ASSUME NEW r \in RefreshTokens
      PROVE  /\ (Invalidated(u, d)[r] = None) <=> (rows[r] = None)
             /\ rows[r] # None => Invalidated(u, d)[r].user = rows[r].user
  <2>1. rows[r] # None => rows[r] \in Row
    BY DEF StoreOK
  <2>2. CASE r \in ValidRowsOf(u, d)
    <3>1. rows[r] \in Row /\ Invalidated(u, d)[r] = [rows[r] EXCEPT !.valid = FALSE]
      BY <2>1, <2>2 DEF Invalidated, ValidRowsOf
    <3>2. [rows[r] EXCEPT !.valid = FALSE] \in Row
          /\ [rows[r] EXCEPT !.valid = FALSE].user = rows[r].user
      BY <3>1 DEF Row
    <3> QED BY <3>1, <3>2, NoRowAssumption
  <2>3. CASE r \notin ValidRowsOf(u, d)
    BY <2>3 DEF Invalidated
  <2> QED BY <2>2, <2>3
<1> QED BY <1>1 DEF Owners

\* The view of a request that ends.
LEMMA OverView == View(Done) = Service!Over
  BY DEF View, Phase, Stale, Done, NewFrame, Service!Over, Service!Request

\* The fields of a view.
LEMMA ViewFields ==
  ASSUME NEW f
  PROVE  /\ View(f).op = f.op /\ View(f).phase = Phase(f.pc) /\ View(f).user = f.user
         /\ View(f).ns = f.ns
         /\ View(f).tok = IF f.op = "validate" \/ f.pc = "ok" THEN f.acc ELSE None
         /\ View(f).ref = IF f.op = "refresh" THEN f.ref ELSE None
         /\ View(f).stale = Stale(f)
  BY Zenon DEF View

\* A request that reaches its reply has been granted a token the abstract
\* service grants too: the invariant after the step says why.
LEMMA OkGrants ==
  ASSUME IInv, IInv', NEW p \in Reqs, Goto(p, "ok"), UNCHANGED <<now, rows, given, revoked>>,
         frame[p].pc \notin {"new", "done", "ok"}
  PROVE  Service!Next
<1> DEFINE f == frame[p]
           g == [f EXCEPT !.pc = "ok"]
<1>1. frame \in [Reqs -> Frame] /\ f \in Frame /\ now \in Nat
  BY DEF IInv, TypeOK
<1>2. frame' = [frame EXCEPT ![p] = g]
  BY DEF Goto
<1>3. Views' = [Views EXCEPT ![p] = View(g)] /\ Views[p] = View(f)
  BY <1>1, <1>2, ViewSet
<1>4. /\ g.pc = "ok" /\ g.op = f.op /\ g.user = f.user /\ g.ns = f.ns /\ g.acc = f.acc
      /\ g.ref = f.ref /\ g.was = f.was /\ frame'[p] = g
  BY <1>1, <1>2 DEF Frame
<1>5. FrameOK(g, now, rows) /\ RefusalOK(g, now, revoked)
  <2>1. p \in InFlight'
    BY <1>4 DEF InFlight
  <2>2. FrameOK(frame'[p], now', rows') /\ RefusalOK(frame'[p], now', revoked')
    BY <2>1 DEF IInv, FramesOK, RefusalHolds
  <2> QED BY <1>4, <2>2
<1>6. /\ SignedFor(f.acc, f.user, now) /\ Local(f.user, f.ns) /\ f.user \in Users
      /\ f.op = "refresh" => Redeemed(f.ref, f.user, rows)
      /\ f.op = "validate" /\ "revoked" \in f.was => ~Live(f.acc, now)
      /\ f.op \in {"login", "refresh", "validate"}
  BY <1>4, <1>5 DEF FrameOK, LoginOK, RefreshOK, ValidateOK, RefusalOK, Local
<1>7. f.acc \in Service!Signed({f.user})
  BY <1>1, <1>6 DEF SignedFor, Jwt, Service!Signed
<1>8. f.op = "refresh" => Service!Redeems(f.ref, f.user)
  BY <1>6 DEF Redeemed, Owned, Owners, Service!Redeems
<1>9. /\ View(f).phase = "asked" /\ View(f).op = f.op /\ View(f).user = f.user
      /\ View(f).ns = f.ns
      /\ f.op = "validate" => View(f).tok = f.acc
      /\ f.op = "refresh" => View(f).ref = f.ref
      /\ View(g) = Service!Request(View(f).op, "granted", View(f).user, View(f).ns, f.acc,
                                   View(f).ref, View(f).stale)
  <2>1. Phase(f.pc) = "asked" /\ Phase(g.pc) = "granted" /\ Stale(g) = Stale(f)
    BY <1>1, <1>4 DEF Phase, Stale
  <2> HIDE DEF f, g
  <2>2. View(g) = [op |-> g.op, phase |-> "granted", user |-> g.user, ns |-> g.ns,
                   tok |-> g.acc, ref |-> IF g.op = "refresh" THEN g.ref ELSE None,
                   stale |-> Stale(g)]
    BY <1>4, <2>1 DEF View
  <2> QED BY <1>4, <2>1, <2>2, ViewFields DEF Service!Request
<1>10. UNCHANGED <<now, Owners, given, revoked>>
  BY DEF Owners
<1>11. Service!Local(f.user, f.ns)
  BY <1>6 DEF Local, Service!Local
<1>12. View(f).stale => f.acc.iat + AccessLife <= now
  <2>1. f.acc.iat \in Nat
    BY <1>6 DEF SignedFor, Jwt
  <2>2. View(f).stale => ~Live(f.acc, now)
    BY <1>6, ViewFields DEF Stale
  <2> QED BY <1>1, <2>1, <2>2, TimeAssumption DEF Live
<1> HIDE DEF Views, Owners, View, f, g
<1>13. Service!Grant(p)
  BY <1>3, <1>7, <1>8, <1>9, <1>10, <1>11, <1>12 DEF Service!Grant, Service!Become
<1> QED BY <1>13 DEF Service!Next

\* A login or a mail verification arrives.
LEMMA LoginAsks ==
  ASSUME IInv, NEW p \in Reqs, LoginUser(p) \/ LoginKnown(p) \/ VerifyUserEmail(p)
  PROVE  Service!Next
<1>1. PICK u \in Users, ip \in Ips, pc \in {"pre", "inval", "mark"} :
        /\ frame' = [frame EXCEPT ![p] = LoginFrame(u, Home[u], ip, pc)]
        /\ Quiet /\ frame[p].pc = "new"
  BY DEF LoginUser, LoginKnown, VerifyUserEmail, Request, Quiet, At
<1> DEFINE g == LoginFrame(u, Home[u], ip, pc)
<1>2. frame \in [Reqs -> Frame]
  BY DEF IInv, TypeOK
<1>3. Views' = [Views EXCEPT ![p] = View(g)] /\ Views[p] = View(frame[p])
  BY <1>1, <1>2, ViewSet
<1>4. View(g) = Service!Request("login", "asked", u, Home[u], None, None, FALSE)
  BY DEF View, Phase, Stale, LoginFrame, NewFrame, Service!Request
<1>5. Views[p].phase = "idle"
  BY <1>1, <1>3 DEF View, Phase
<1>6. UNCHANGED <<now, Owners, given, revoked>>
  BY <1>1 DEF Quiet, store, history, Owners
<1> HIDE DEF Views, Owners, View, g
<1>7. Service!AskLogin(p, u)
  BY <1>3, <1>4, <1>5, <1>6 DEF Service!AskLogin, Service!Become
<1> QED BY <1>7 DEF Service!Next

\* A refresh arrives, or POST /users/auth/device turns into one.
LEMMA RefreshAsks ==
  ASSUME IInv, NEW p \in Reqs, RefreshAccess(p) \/ UpdateTrustedDevice(p)
  PROVE  Service!Next
<1>0. UpdateTrustedDevice(p) => frame[p].user \in Users /\ frame[p].ns \in Ns
  BY FrameFacts DEF UpdateTrustedDevice, At, FrameOK
<1>1. PICK u \in Users, r \in handed \cup {None}, ns \in Ns, ip \in Ips :
        /\ frame' = [frame EXCEPT ![p] =
             NewFrame("refresh", "getR", u, ns, ip, None, r, {})]
        /\ Quiet
        /\ \/ frame[p].pc = "new"
           \/ frame[p].pc = "ok" /\ frame[p].op = "validate" /\ frame[p].user = u /\ frame[p].ns = ns
  BY <1>0 DEF RefreshAccess, UpdateTrustedDevice, Request, Quiet, At
<1> DEFINE g == NewFrame("refresh", "getR", u, ns, ip, None, r, {})
<1>2. frame \in [Reqs -> Frame]
  BY DEF IInv, TypeOK
<1>3. Views' = [Views EXCEPT ![p] = View(g)] /\ Views[p] = View(frame[p])
  BY <1>1, <1>2, ViewSet
<1>4. View(g) = Service!Request("refresh", "asked", u, ns, None, r, FALSE)
  BY DEF View, Phase, Stale, NewFrame, Service!Request
<1>5. \/ Views[p].phase = "idle"
      \/ /\ Views[p].phase = "granted" /\ Views[p].op = "validate"
         /\ Views[p].user = u /\ Views[p].ns = ns
  BY <1>1, <1>3 DEF View, Phase
<1>6. r \in RefreshTokens \cup {None} /\ (r # None => Owners[r] # None)
  <2>1. r # None => r \in RefreshTokens /\ rows[r] # None /\ rows[r] \in Row
    BY DEF IInv, TypeOK, KeysOK
  <2> QED BY <2>1, NoneAssumption DEF Owners, Row
<1>7. UNCHANGED <<now, Owners, given, revoked>>
  BY <1>1 DEF Quiet, store, history, Owners
<1> HIDE DEF Views, Owners, View, g
<1>8. Service!AskRefresh(p, u, ns, r)
  BY <1>3, <1>4, <1>5, <1>6, <1>7 DEF Service!AskRefresh, Service!Become
<1> QED BY <1>6, <1>8 DEF Service!Next

\* A bearer token arrives; whether it is revoked is decided now.
LEMMA ValidateAsks ==
  ASSUME IInv, NEW p \in Reqs, Validate(p)
  PROVE  Service!Next
<1>1. PICK k \in given, ns \in Ns, ip \in Ips :
        /\ frame' = [frame EXCEPT ![p] =
             NewFrame("validate", "getB", k.tok.user, ns, ip, k.tok, None,
                      ValidateFacts(ns, k.tok))]
        /\ Quiet /\ frame[p].pc = "new"
  BY DEF Validate, Request, Quiet, At
<1> DEFINE g == NewFrame("validate", "getB", k.tok.user, ns, ip, k.tok, None,
                         ValidateFacts(ns, k.tok))
<1>2. frame \in [Reqs -> Frame]
  BY DEF IInv, TypeOK
<1>3. Views' = [Views EXCEPT ![p] = View(g)] /\ Views[p] = View(frame[p])
  BY <1>1, <1>2, ViewSet
<1>4. Stale(g) = (<<ns, k.tok>> \in revoked)
  BY DEF Stale, NewFrame, ValidateFacts, Facts
<1>5. View(g) = Service!Request("validate", "asked", k.tok.user, ns, k.tok, None,
                                <<ns, k.tok>> \in revoked)
  BY <1>4 DEF View, Phase, NewFrame, Service!Request
<1>6. Views[p].phase = "idle"
  BY <1>1, <1>3 DEF View, Phase
<1>7. UNCHANGED <<now, Owners, given, revoked>>
  BY <1>1 DEF Quiet, store, history, Owners
<1> HIDE DEF Views, Owners, View, g
<1>8. Service!AskValidate(p, k, ns)
  BY <1>3, <1>5, <1>6, <1>7 DEF Service!AskValidate, Service!Become
<1> QED BY <1>8 DEF Service!Next

\* The response leaves.
LEMMA ReplyAnswers ==
  ASSUME IInv, NEW p \in Reqs, Reply(p)
  PROVE  Service!Next
<1>1. frame \in [Reqs -> Frame] /\ frame[p].pc = "ok"
  BY DEF IInv, TypeOK, Reply, At
<1>2. Views' = [Views EXCEPT ![p] = View(Done)] /\ Views[p] = View(frame[p])
  BY <1>1, ViewSet DEF Reply, Drop
<1>3. /\ Views[p].phase = "granted" /\ Views[p].op = frame[p].op
      /\ Views[p].ns = frame[p].ns /\ Views[p].tok = frame[p].acc
  BY <1>1, <1>2 DEF View, Phase
<1>4. UNCHANGED <<now, Owners, revoked>>
  BY DEF Reply, store, Owners
<1>5. given' = IF frame[p].op = "validate" THEN given
               ELSE given \cup {[ns |-> frame[p].ns, tok |-> frame[p].acc]}
  BY DEF Reply
<1> HIDE DEF Views, Owners, View
<1>6. Service!Answer(p)
  BY <1>2, <1>3, <1>4, <1>5, OverView DEF Service!Answer, Service!Become
<1> QED BY <1>6 DEF Service!Next

\* A request goes from one await to the next, before its reply.
LEMMA GotoUnseen ==
  ASSUME IInv, NEW p \in Reqs, NEW pc \in Pcs, Goto(p, pc),
         frame[p].pc \notin {"new", "done", "ok"}, pc \notin {"new", "done", "ok"}
  PROVE  Views' = Views
<1>1. frame \in [Reqs -> Frame] /\ frame[p] \in Frame
  BY DEF IInv, TypeOK
<1> DEFINE g == [frame[p] EXCEPT !.pc = pc]
<1>2. /\ g \in Frame /\ g.pc = pc /\ g.op = frame[p].op /\ g.user = frame[p].user
      /\ g.ns = frame[p].ns /\ g.was = frame[p].was /\ g.acc = frame[p].acc
      /\ g.ref = frame[p].ref
  BY <1>1 DEF Frame
<1>3. frame' = [frame EXCEPT ![p] = g]
  BY DEF Goto
<1> HIDE DEF g
<1> QED BY <1>1, <1>2, <1>3, SameView

\* The same, for a request that also remembers which keys are left.
LEMMA TodoUnseen ==
  ASSUME IInv, NEW p \in Reqs, NEW pc \in Pcs, NEW S \in SUBSET (Jwt \cup RefreshTokens),
         frame' = [frame EXCEPT ![p].todo = S, ![p].pc = pc],
         frame[p].pc \notin {"new", "done", "ok"}, pc \notin {"new", "done", "ok"}
  PROVE  Views' = Views
<1>1. frame \in [Reqs -> Frame] /\ frame[p] \in Frame
  BY DEF IInv, TypeOK
<1> DEFINE g == [frame[p] EXCEPT !.todo = S, !.pc = pc]
<1>2. /\ g \in Frame /\ g.pc = pc /\ g.op = frame[p].op /\ g.user = frame[p].user
      /\ g.ns = frame[p].ns /\ g.was = frame[p].was /\ g.acc = frame[p].acc
      /\ g.ref = frame[p].ref
  BY <1>1 DEF Frame
<1>3. frame' = [frame EXCEPT ![p] = g]
  OBVIOUS
<1> HIDE DEF g
<1> QED BY <1>1, <1>2, <1>3, SameView

\* The steps that only walk through the caches and the rows.
LEMMA WalkUnseen ==
  ASSUME IInv, NEW p \in Reqs,
         \/ MarkVerified(p) \/ InvalidateRefresh(p) \/ ScanAccess(p)
         \/ ScanClearAccess(p) \/ DeleteAccess(p) \/ ScanClearRefresh(p) \/ DeleteRefresh(p)
         \/ TheftInvalidate(p) \/ TheftDeny(p)
  PROVE  Unseen
<1>0. StoreOK /\ frame \in [Reqs -> Frame] /\ frame[p] \in Frame
  BY TypeParts DEF IInv
<1>1. Owners' = Owners
  <2>1. \/ rows' = rows
        \/ \E u, d : rows' = Invalidated(u, d)
    BY DEF MarkVerified, InvalidateRefresh, ScanAccess, ScanClearAccess, DeleteAccess,
       ScanClearRefresh, DeleteRefresh, TheftInvalidate, TheftDeny, store
  <2> QED BY <1>0, <2>1, SameOwners
<1>2. UNCHANGED <<now, given, revoked>>
  BY DEF MarkVerified, InvalidateRefresh, ScanAccess, ScanClearAccess, DeleteAccess,
     ScanClearRefresh, DeleteRefresh, TheftInvalidate, TheftDeny, history
<1>3. frame[p].pc \notin {"new", "done", "ok"}
  BY DEF MarkVerified, InvalidateRefresh, ScanAccess, ScanClearAccess, DeleteAccess,
     ScanClearRefresh, DeleteRefresh, TheftInvalidate, TheftDeny, At
<1>4. CASE MarkVerified(p) \/ InvalidateRefresh(p) \/ TheftInvalidate(p) \/ TheftDeny(p)
  <2>1. PICK pc \in {"inval", "scan", "deny", "notify"} : Goto(p, pc)
    BY <1>4 DEF MarkVerified, InvalidateRefresh, TheftInvalidate, TheftDeny
  <2>2. pc \in Pcs /\ pc \notin {"new", "done", "ok"}
    BY DEF Pcs
  <2> QED BY <1>1, <1>2, <1>3, <2>1, <2>2, GotoUnseen DEF Unseen
<1>5. CASE ~(MarkVerified(p) \/ InvalidateRefresh(p) \/ TheftInvalidate(p) \/ TheftDeny(p))
  <2>1. PICK S \in SUBSET (Jwt \cup RefreshTokens),
             pc \in {"black", "clrA", "cacheA", "delA", "clrR", "delR", "sign"} :
          frame' = [frame EXCEPT ![p].todo = S, ![p].pc = pc]
    <3>1. /\ AccessKeysOf(frame[p].ns, frame[p].user) \in SUBSET (Jwt \cup RefreshTokens)
          /\ RefreshKeysOf(frame[p].ns, frame[p].user) \in SUBSET (Jwt \cup RefreshTokens)
      BY <1>0 DEF StoreOK, AccessKeysOf, RefreshKeysOf, AccessKey, RefreshKey
    <3>2. \A t : frame[p].todo \ {t} \in SUBSET (Jwt \cup RefreshTokens)
      BY <1>0 DEF Frame
    <3>3. CASE ScanAccess(p)
      BY <3>1, <3>3 DEF ScanAccess, AfterBlack
    <3>4. CASE ScanClearAccess(p)
      BY <3>1, <3>4 DEF ScanClearAccess
    <3>5. CASE ScanClearRefresh(p)
      BY <3>1, <3>5 DEF ScanClearRefresh
    <3>6. CASE DeleteAccess(p)
      BY <3>2, <3>6 DEF DeleteAccess
    <3>7. CASE DeleteRefresh(p)
      BY <3>2, <3>7 DEF DeleteRefresh
    <3> QED BY <1>5, <3>3, <3>4, <3>5, <3>6, <3>7
  <2>2. pc \in Pcs /\ pc \notin {"new", "done", "ok"}
    BY DEF Pcs
  <2> QED BY <1>1, <1>2, <1>3, <2>1, <2>2, TodoUnseen DEF Unseen
<1> QED BY <1>4, <1>5

\* A login signs; a refresh signs; the token shows only in the reply.
LEMMA SignUnseen ==
  ASSUME IInv, NEW p \in Reqs, SignLogin(p) \/ SignRefresh(p)
  PROVE  Unseen
<1>1. frame \in [Reqs -> Frame] /\ frame[p] \in Frame /\ now \in Nat
  BY DEF IInv, TypeOK
<1>2. frame[p].pc = "sign" /\ frame[p].op # "validate" /\ Quiet
  BY DEF SignLogin, SignRefresh, At, Quiet
<1>3. frame[p].user \in Users /\ frame[p].ip \in Ips
  BY <1>2, FrameFacts DEF FrameOK
<1>4. PICK a \in Jwt, pc \in {"create", "scan"} :
        frame' = [frame EXCEPT ![p].pc = pc, ![p].acc = a]
  <2>1. CASE SignLogin(p)
    <3>1. [user |-> frame[p].user, iat |-> now, tag |-> None] \in Jwt
      BY <1>1, <1>3 DEF Jwt, Tags
    <3> QED BY <2>1, <3>1 DEF SignLogin
  <2>2. CASE SignRefresh(p)
    <3>1. PICK ms \in Millis :
            frame' = [frame EXCEPT ![p].pc = "scan",
                                   ![p].acc = [user |-> frame[p].user, iat |-> now,
                                               tag |-> <<ms, frame[p].ip>>]]
      BY <2>2 DEF SignRefresh
    <3>2. <<ms, frame[p].ip>> \in Tags
      BY <1>3 DEF Tags
    <3>3. [user |-> frame[p].user, iat |-> now, tag |-> <<ms, frame[p].ip>>] \in Jwt
      BY <1>1, <1>3, <3>2 DEF Jwt
    <3> QED BY <3>1, <3>3
  <2> QED BY <2>1, <2>2
<1> DEFINE g == [frame[p] EXCEPT !.pc = pc, !.acc = a]
<1>5. /\ g \in Frame /\ g.pc = pc /\ g.op = frame[p].op /\ g.user = frame[p].user
      /\ g.ns = frame[p].ns /\ g.was = frame[p].was /\ g.ref = frame[p].ref
  BY <1>1 DEF Frame, Pcs
<1>6. frame' = [frame EXCEPT ![p] = g]
  BY <1>4
<1> HIDE DEF g
<1>7. Views' = Views
  BY <1>1, <1>2, <1>5, <1>6, SameView
<1> QED BY <1>2, <1>7 DEF Unseen, Quiet, store, history, Owners

\* A key goes on the blacklist: its token was signed before.
LEMMA BlacklistRevokes ==
  ASSUME IInv, NEW p \in Reqs, BlacklistKey(p)
  PROVE  Service!Next
<1>1. frame[p].pc = "black"
  BY DEF BlacklistKey, At
<1>2. frame[p] \in Frame /\ FrameOK(frame[p], now, rows) /\ now \in Nat
  BY <1>1, FrameFacts DEF IInv, TypeOK
<1>3. PICK t \in frame[p].todo :
        /\ revoked' = revoked \cup {<<frame[p].ns, t>>}
        /\ frame' = [frame EXCEPT ![p].todo = @ \ {t},
                                  ![p].pc = IF frame[p].todo = {t} THEN AfterBlack(p)
                                            ELSE "black"]
  BY DEF BlacklistKey
<1>4. SignedFor(t, frame[p].user, now) /\ frame[p].user \in Users /\ frame[p].ns \in Ns
  BY <1>1, <1>2 DEF FrameOK
<1>5. t \in Service!Signed(Users)
  BY <1>2, <1>4 DEF SignedFor, Jwt, Service!Signed
<1>6. Views' = Views
  <2> DEFINE S == frame[p].todo \ {t}
             pc == IF frame[p].todo = {t} THEN AfterBlack(p) ELSE "black"
  <2>1. frame' = [frame EXCEPT ![p].todo = S, ![p].pc = pc]
    BY <1>3
  <2>2. S \in SUBSET (Jwt \cup RefreshTokens)
    BY <1>2 DEF Frame
  <2>3. pc \in Pcs /\ pc \notin {"new", "done", "ok"}
    BY DEF Pcs, AfterBlack
  <2> HIDE DEF S, pc
  <2> QED BY <1>1, <2>1, <2>2, <2>3, TodoUnseen
<1>7. UNCHANGED <<now, Owners, given>>
  BY DEF BlacklistKey, Owners
<1> HIDE DEF Views, Owners
<1>8. Service!Revoke
  <2>1. revoked \subseteq revoked' /\ revoked' \ revoked \subseteq Ns \X Service!Signed(Users)
    BY <1>3, <1>4, <1>5
  <2> QED BY <1>6, <1>7, <2>1 DEF Service!Revoke
<1> QED BY <1>8 DEF Service!Next

\* A refresh token gets its row, and with it its owner.
LEMMA CreateRegisters ==
  ASSUME IInv, NEW p \in Reqs, CreateRow(p)
  PROVE  Service!Next
<1>1. frame[p].pc = "create"
  BY DEF CreateRow, At
<1>2. frame \in [Reqs -> Frame] /\ frame[p] \in Frame /\ FrameOK(frame[p], now, rows)
  BY <1>1, FrameFacts DEF IInv, TypeOK
<1>3. frame[p].op = "login" /\ frame[p].user \in Users
  BY <1>1, <1>2 DEF FrameOK, RefreshOK, RefreshPcs, ValidateOK, ValidatePcs
<1>4. PICK r \in RefreshTokens :
        /\ rows[r] = None
        /\ rows' = [rows EXCEPT ![r] = [user |-> frame[p].user, ip |-> frame[p].ip,
                                        valid |-> TRUE,
                                        exp |-> frame[p].acc.iat + RefreshLife]]
        /\ frame' = [frame EXCEPT ![p].pc = "cacheA", ![p].ref = r]
  BY DEF CreateRow
<1>5. Views' = Views
  <2> DEFINE g == [frame[p] EXCEPT !.pc = "cacheA", !.ref = r]
  <2>1. /\ g \in Frame /\ g.pc = "cacheA" /\ g.op = frame[p].op /\ g.user = frame[p].user
        /\ g.ns = frame[p].ns /\ g.was = frame[p].was
    BY <1>2 DEF Frame, Pcs
  <2>2. frame' = [frame EXCEPT ![p] = g]
    BY <1>4
  <2> HIDE DEF g
  <2> QED BY <1>1, <1>2, <1>3, <2>1, <2>2, SameView
<1>6. Owners[r] = None /\ Owners' = [Owners EXCEPT ![r] = frame[p].user]
  <2>1. IInv => rows \in [RefreshTokens -> Row \cup {None}]
    BY DEF IInv, TypeOK
  <2>2. /\ rows'[r] = [user |-> frame[p].user, ip |-> frame[p].ip, valid |-> TRUE,
                       exp |-> frame[p].acc.iat + RefreshLife]
        /\ \A s \in RefreshTokens : s # r => rows'[s] = rows[s]
    BY <1>4, <2>1
  <2>3. rows'[r] # None /\ rows'[r].user = frame[p].user
    <3>1. SignedFor(frame[p].acc, frame[p].user, now) /\ frame[p].ip \in Ips
      BY <1>1, <1>2, <1>3 DEF FrameOK, LoginOK
    <3>2. frame[p].acc.iat + RefreshLife \in Nat
      BY <3>1, TimeAssumption DEF SignedFor, Jwt
    <3>3. rows'[r] \in Row
      BY <1>3, <2>2, <3>1, <3>2 DEF Row
    <3>4. rows'[r].user = frame[p].user
      BY <2>2
    <3> QED BY <3>3, <3>4, NoRowAssumption
  <2>4. ASSUME NEW s \in RefreshTokens
        PROVE  (IF rows'[s] = None THEN None ELSE rows'[s].user) =
               (IF s = r THEN frame[p].user
                ELSE IF rows[s] = None THEN None ELSE rows[s].user)
    <3>1. CASE s = r
      BY <2>3, <3>1
    <3>2. CASE s # r
      BY <2>2, <3>2
    <3> QED BY <3>1, <3>2
  <2>5. Owners' = [s \in RefreshTokens |-> IF s = r THEN frame[p].user
                                           ELSE IF rows[s] = None THEN None ELSE rows[s].user]
    BY <2>4 DEF Owners
  <2> QED BY <1>4, <2>5 DEF Owners
<1>7. UNCHANGED <<now, given, revoked>>
  BY DEF CreateRow, history
<1> HIDE DEF Views, Owners
<1>8. Service!Register(r, frame[p].user)
  BY <1>5, <1>6, <1>7 DEF Service!Register
<1> QED BY <1>3, <1>8 DEF Service!Next

\* The caches are filled: the last of these steps grants.
LEMMA CacheGrants ==
  ASSUME IInv, IInv', NEW p \in Reqs, CacheAccess(p) \/ CacheRefresh(p)
  PROVE  Service!Next \/ Unseen
<1>1. frame[p].pc \in {"cacheA", "cacheR"} /\ UNCHANGED <<now, rows, given, revoked>>
  BY DEF CacheAccess, CacheRefresh, At, history
<1>2. CASE Goto(p, "ok")
  BY <1>1, <1>2, OkGrants
<1>3. CASE Goto(p, "cacheR")
  <2>1. Views' = Views
    BY <1>1, <1>3, GotoUnseen DEF Pcs
  <2> QED BY <1>1, <2>1 DEF Unseen, Owners
<1> QED BY <1>2, <1>3 DEF CacheAccess, CacheRefresh

\* The lookups of refresh and validate: an answer, a refusal, or the next await.
LEMMA LookupService ==
  ASSUME IInv, IInv', NEW p \in Reqs,
         \/ GetRefresh(p) \/ FindRefresh(p) \/ NotifySecurityTeam(p) \/ GetBlacklist(p)
         \/ GetAccess(p) \/ FindUser(p) \/ RefuseTwoFactor(p) \/ Fail(p)
  PROVE  Service!Next \/ Unseen
<1>0. frame \in [Reqs -> Frame] /\ frame[p] \in Frame
  BY DEF IInv, TypeOK
<1>1. /\ frame[p].pc \notin {"new", "done", "ok"}
      /\ UNCHANGED <<now, rows, given, revoked>>
  BY DEF GetRefresh, FindRefresh, NotifySecurityTeam, GetBlacklist, GetAccess, FindUser,
     RefuseTwoFactor, Fail, At, InFlight, store, history
<1>2. CASE Drop(p)
  <2>1. Views' = [Views EXCEPT ![p] = View(Done)] /\ Views[p] = View(frame[p])
    BY <1>0, <1>2, ViewSet DEF Drop
  <2>2. Views[p].phase = "asked"
    BY <1>1, <2>1 DEF View, Phase
  <2>3. UNCHANGED <<now, Owners, given, revoked>>
    BY <1>1 DEF Owners
  <2> HIDE DEF Views, Owners, View
  <2>4. Service!Refuse(p)
    BY <2>1, <2>2, <2>3, OverView DEF Service!Refuse, Service!Become
  <2> QED BY <2>4 DEF Service!Next
<1>3. CASE Goto(p, "ok")
  BY <1>1, <1>3, OkGrants
<1>4. ASSUME NEW pc \in {"findR", "theft", "sign", "getA", "findU", "cacheA"}, Goto(p, pc)
      PROVE  Unseen
  <2>1. pc \in Pcs /\ pc \notin {"new", "done", "ok"}
    BY DEF Pcs
  <2>2. Views' = Views
    BY <1>1, <1>4, <2>1, GotoUnseen
  <2> QED BY <1>1, <2>2 DEF Unseen, Owners
<1>5. ASSUME NEW r \in ValidRowsOf(frame[p].user, Root), FindUser(p),
             frame' = [frame EXCEPT ![p].pc = "cacheA", ![p].ref = r]
      PROVE  Unseen
  <2> DEFINE g == [frame[p] EXCEPT !.pc = "cacheA", !.ref = r]
  <2>1. r \in RefreshTokens
    BY DEF ValidRowsOf
  <2>2. /\ g \in Frame /\ g.pc = "cacheA" /\ g.op = frame[p].op /\ g.user = frame[p].user
        /\ g.ns = frame[p].ns /\ g.was = frame[p].was /\ g.acc = frame[p].acc
    BY <1>0, <2>1 DEF Frame, Pcs
  <2>3. frame[p].op = "validate"
    <3>1. frame[p].pc = "findU"
      BY <1>5 DEF FindUser, At
    <3> QED BY <3>1, FrameFacts DEF FrameOK, LoginOK, LoginPcs, RefreshOK, RefreshPcs
  <2>4. frame' = [frame EXCEPT ![p] = g]
    BY <1>5
  <2> HIDE DEF g
  <2>5. Views' = Views
    BY <1>0, <1>1, <2>2, <2>3, <2>4, SameView
  <2> QED BY <1>1, <2>5 DEF Unseen, Owners
<1>6. CASE GetRefresh(p) \/ FindRefresh(p) \/ NotifySecurityTeam(p)
  BY <1>2, <1>4, <1>6 DEF GetRefresh, FindRefresh, NotifySecurityTeam
<1>7. CASE GetBlacklist(p) \/ GetAccess(p) \/ RefuseTwoFactor(p) \/ Fail(p)
  BY <1>2, <1>3, <1>4, <1>7 DEF GetBlacklist, GetAccess, RefuseTwoFactor, Fail
<1>8. CASE FindUser(p)
  BY <1>2, <1>4, <1>5, <1>8 DEF FindUser
<1> QED BY <1>6, <1>7, <1>8

\* Every step of the session core is a step of TokenService, or one that its
\* clients cannot see.
LEMMA ServiceStep == IInv /\ IInv' /\ [Next]_vars => [Service!Next]_(Service!vars)
<1> SUFFICES ASSUME IInv, IInv', [Next]_vars PROVE Service!Next \/ Unseen
  BY DEF Unseen, Service!vars
<1>1. CASE UNCHANGED vars
  BY <1>1 DEF vars, store, history, Unseen, Owners, Views
<1>2. CASE Tick
  <2>1. now' = now + 1 /\ UNCHANGED <<Owners, given, revoked, Views>>
    BY <1>2 DEF Tick, history, Owners, Views
  <2> HIDE DEF Views, Owners
  <2>2. Service!Pass
    BY <2>1 DEF Service!Pass
  <2> QED BY <2>2 DEF Service!Next
<1>3. ASSUME NEW p \in Reqs, Arrive(p) PROVE Service!Next
  BY <1>3, LoginAsks, RefreshAsks, ValidateAsks DEF Arrive
<1>4. ASSUME NEW p \in Reqs, LoginStep(p) PROVE Service!Next \/ Unseen
  BY <1>4, WalkUnseen, SignUnseen, BlacklistRevokes, CreateRegisters, CacheGrants, LookupService
  DEF LoginStep
<1>5. ASSUME NEW p \in Reqs, RefreshStep(p) \/ ValidateStep(p) \/ Reply(p) \/ Fail(p)
      PROVE  Service!Next \/ Unseen
  BY <1>5, WalkUnseen, LookupService, RefreshAsks, ReplyAnswers DEF RefreshStep, ValidateStep
<1> QED BY <1>1, <1>2, <1>3, <1>4, <1>5 DEF Next, Settle

\* The session core of AuthService, CustomCacheService, the refresh handler
\* and JwtStrategy implements TokenService, for any number of users, tenants,
\* tokens and concurrent requests and with every database and Redis failure.
THEOREM ServiceImplemented == Spec => ImplementsService
<1>1. Init => Service!Init
  <2> SUFFICES ASSUME Init PROVE Service!Init
    OBVIOUS
  <2>1. View(Blank) = Service!Idle
    BY DEF View, Phase, Stale, Blank, NewFrame, Service!Idle, Service!Request
  <2>2. Views = [p \in Reqs |-> Service!Idle]
    BY <2>1 DEF Init, Views
  <2>3. Owners = [r \in RefreshTokens |-> None]
    BY DEF Init, Owners
  <2> HIDE DEF Views, Owners
  <2> QED BY <2>2, <2>3 DEF Init, Service!Init
<1> QED BY <1>1, Inductive, ServiceStep, PTL DEF Spec, ImplementsService, Service!Spec

-----------------------------------------------------------------------------
(* The bound on a user's valid refresh tokens.                             *)

Valid(u) == ValidRowsOf(u, Home[u])
PendingPcs == {"scan", "black", "clrA", "delA", "clrR", "delR", "sign", "create"}

\* The logins of user u that have invalidated its rows and not yet created
\* their own: each of them may still add one valid row.
Waits(f, u) == f.op = "login" /\ f.user = u /\ f.pc \in PendingPcs
Pending(u) == {p \in InFlight : Waits(frame[p], u)}

\* The strengthening that makes SessionsBounded inductive.
RoomHolds ==
  /\ IsFiniteSet(InFlight) /\ Cardinality(InFlight) <= MaxInFlight
  /\ \A u \in Users :
       /\ IsFiniteSet(Valid(u))
       /\ Cardinality(Valid(u)) + Cardinality(Pending(u)) <= MaxInFlight

\* RoomHolds for a user whose rows and pending logins both shrink.
LEMMA RoomShrinks ==
  ASSUME RoomHolds, NEW u \in Users, Valid(u)' \subseteq Valid(u), Pending(u)' \subseteq Pending(u)
  PROVE  /\ IsFiniteSet(Valid(u)')
         /\ Cardinality(Valid(u)') + Cardinality(Pending(u)') <= MaxInFlight
<1>1. /\ IsFiniteSet(InFlight) /\ IsFiniteSet(Valid(u))
      /\ Cardinality(Valid(u)) + Cardinality(Pending(u)) <= MaxInFlight
  BY DEF RoomHolds, Valid
<1>2. Pending(u) \subseteq InFlight
  BY DEF Pending
<1> HIDE DEF Valid, Pending
<1>3. IsFiniteSet(Pending(u))
  BY <1>1, <1>2, FS_Subset
<1>4. /\ IsFiniteSet(Valid(u)') /\ Cardinality(Valid(u)') <= Cardinality(Valid(u))
      /\ IsFiniteSet(Pending(u)') /\ Cardinality(Pending(u)') <= Cardinality(Pending(u))
  BY <1>1, <1>3, FS_Subset
<1>5. /\ Cardinality(Valid(u)) \in Nat /\ Cardinality(Valid(u)') \in Nat
      /\ Cardinality(Pending(u)) \in Nat /\ Cardinality(Pending(u)') \in Nat
  BY <1>1, <1>3, <1>4, FS_CardinalityType
<1> QED BY <1>1, <1>4, <1>5, InFlightAssumption

\* updateMany leaves the user no valid row, and gives nobody a new one.
LEMMA InvalidatedValid ==
  ASSUME StoreOK, NEW v, NEW d, rows' = Invalidated(v, d), NEW u
  PROVE  /\ ValidRowsOf(u, Home[u])' \subseteq ValidRowsOf(u, Home[u])
         /\ u = v /\ d = Home[u] => ValidRowsOf(u, Home[u])' = {}
<1>1. ASSUME NEW r \in RefreshTokens, r \in ValidRowsOf(u, Home[u])'
      PROVE  r \in ValidRowsOf(u, Home[u]) /\ ~(u = v /\ d = Home[u])
  <2>1. rows'[r] # None /\ rows'[r].user = u /\ rows'[r].valid
    BY <1>1 DEF ValidRowsOf
  <2>2. CASE r \in ValidRowsOf(v, d)
    <3>1. rows[r] \in Row /\ rows'[r] = [rows[r] EXCEPT !.valid = FALSE]
      BY <2>2 DEF StoreOK, ValidRowsOf, Invalidated
    <3>2. rows'[r].valid = FALSE
      BY <3>1 DEF Row
    <3> QED BY <2>1, <3>2
  <2>3. CASE r \notin ValidRowsOf(v, d)
    <3>1. rows'[r] = rows[r]
      BY <2>3 DEF Invalidated
    <3> QED BY <2>1, <2>3, <3>1 DEF ValidRowsOf
  <2> QED BY <2>2, <2>3
<1>2. ValidRowsOf(u, Home[u])' \subseteq RefreshTokens
  BY DEF ValidRowsOf
<1> QED BY <1>1, <1>2

\* A request that replaces its frame is pending afterwards only if it was, or
\* if its new frame says so.
LEMMA PendingSet ==
  ASSUME NEW p \in Reqs, NEW g, frame \in [Reqs -> Frame], frame' = [frame EXCEPT ![p] = g],
         NEW u \in Users, Waits(g, u) => Waits(frame[p], u)
  PROVE  Pending(u)' \subseteq Pending(u)
<1>1. \A q \in Reqs : frame'[q] = IF q = p THEN g ELSE frame[q]
  OBVIOUS
<1>2. SUFFICES ASSUME NEW q \in Pending(u)' PROVE q \in Pending(u)
  OBVIOUS
<1>3. q \in Reqs /\ Waits(frame'[q], u)
  BY <1>2 DEF Pending, InFlight, Waits, PendingPcs
<1>4. Waits(frame[q], u)
  BY <1>1, <1>3
<1> QED BY <1>3, <1>4 DEF Pending, InFlight, Waits, PendingPcs

\* A request in flight that moves leaves no more requests in flight.
LEMMA FlightSet ==
  ASSUME RoomHolds, NEW p \in Reqs, NEW g, frame \in [Reqs -> Frame],
         frame' = [frame EXCEPT ![p] = g], p \in InFlight
  PROVE  /\ InFlight' \subseteq InFlight
         /\ IsFiniteSet(InFlight') /\ Cardinality(InFlight') <= MaxInFlight
<1>1. InFlight' \subseteq InFlight
  BY DEF InFlight
<1>2. IsFiniteSet(InFlight) /\ Cardinality(InFlight) <= MaxInFlight
  BY DEF RoomHolds
<1>3. /\ IsFiniteSet(InFlight') /\ Cardinality(InFlight') <= Cardinality(InFlight)
  BY <1>1, <1>2, FS_Subset
<1>4. Cardinality(InFlight) \in Nat /\ Cardinality(InFlight') \in Nat
  BY <1>2, <1>3, FS_CardinalityType
<1> QED BY <1>1, <1>2, <1>3, <1>4, InFlightAssumption

\* A request arrives only while there is room, and no new login is pending.
LEMMA RoomArrive ==
  ASSUME IInv, RoomHolds, NEW p \in Reqs, Arrive(p)
  PROVE  RoomHolds'
<1>0. Quiet /\ frame[p].pc = "new" /\ Cardinality(InFlight) < MaxInFlight
  BY DEF Arrive, LoginUser, LoginKnown, VerifyUserEmail, RefreshAccess, Validate, Request, At,
     Quiet
<1>1. PICK g : /\ frame' = [frame EXCEPT ![p] = g]
               /\ g.pc \in {"pre", "inval", "mark", "getR", "getB"}
  <2>2. CASE LoginUser(p) \/ LoginKnown(p) \/ VerifyUserEmail(p)
    <3>1. PICK u \in Users, n \in Ns, ip \in Ips, pc \in {"pre", "inval", "mark"} :
            frame' = [frame EXCEPT ![p] = LoginFrame(u, n, ip, pc)]
      BY <2>2, HomeAssumption DEF LoginUser, LoginKnown, VerifyUserEmail, Request, Ns
    <3>2. LoginFrame(u, n, ip, pc).pc = pc
      BY DEF LoginFrame, NewFrame
    <3> QED BY <3>1, <3>2
  <2>3. CASE RefreshAccess(p)
    <3>1. PICK u \in Users, r \in handed \cup {None}, ns \in Ns, ip \in Ips :
            frame' = [frame EXCEPT ![p] =
                        NewFrame("refresh", "getR", u, ns, ip, None, r, {})]
      BY <2>3 DEF RefreshAccess, Request
    <3>2. NewFrame("refresh", "getR", u, ns, ip, None, r, {}).pc = "getR"
      BY DEF NewFrame
    <3> QED BY <3>1, <3>2
  <2>4. CASE Validate(p)
    <3>1. PICK k \in given, ns \in Ns, ip \in Ips :
            frame' = [frame EXCEPT ![p] =
                        NewFrame("validate", "getB", k.tok.user, ns, ip, k.tok, None,
                                 ValidateFacts(ns, k.tok))]
      BY <2>4 DEF Validate, Request
    <3>2. NewFrame("validate", "getB", k.tok.user, ns, ip, k.tok, None,
                   ValidateFacts(ns, k.tok)).pc = "getB"
      BY DEF NewFrame
    <3> QED BY <3>1, <3>2
  <2> QED BY <2>2, <2>3, <2>4 DEF Arrive
<1>2. frame \in [Reqs -> Frame] /\ rows' = rows
  BY <1>0 DEF IInv, TypeOK, Quiet, store
<1>3. IsFiniteSet(InFlight)
  BY DEF RoomHolds
<1>4. InFlight' \subseteq InFlight \cup {p} /\ p \notin InFlight
  BY <1>0, <1>1, <1>2 DEF InFlight
<1>5. IsFiniteSet(InFlight') /\ Cardinality(InFlight') <= MaxInFlight
  <2>1. /\ IsFiniteSet(InFlight \cup {p})
        /\ Cardinality(InFlight \cup {p}) = Cardinality(InFlight) + 1
    BY <1>3, <1>4, FS_AddElement
  <2>2. IsFiniteSet(InFlight') /\ Cardinality(InFlight') <= Cardinality(InFlight \cup {p})
    BY <1>4, <2>1, FS_Subset
  <2>3. Cardinality(InFlight) \in Nat /\ Cardinality(InFlight') \in Nat
    BY <1>3, <2>2, FS_CardinalityType
  <2> QED BY <1>0, <2>1, <2>2, <2>3, InFlightAssumption
<1>6. ASSUME NEW u \in Users
      PROVE  Valid(u)' \subseteq Valid(u) /\ Pending(u)' \subseteq Pending(u)
  <2>1. Valid(u)' = Valid(u)
    BY <1>2 DEF Valid, ValidRowsOf
  <2>2. ~Waits(g, u)
    BY <1>1 DEF Waits, PendingPcs
  <2> QED BY <1>1, <1>2, <2>1, <2>2, PendingSet
<1> QED BY <1>5, <1>6, RoomShrinks DEF RoomHolds, Valid

\* invalidatePreviousRefreshTokens empties the user's valid rows, so every
\* request in flight may be one of its pending logins.
LEMMA RoomInvalidate ==
  ASSUME IInv, RoomHolds, NEW p \in Reqs, InvalidateRefresh(p)
  PROVE  RoomHolds'
<1> DEFINE f == frame[p]
           g == [frame[p] EXCEPT !.pc = IF At(p, "pre") THEN "inval" ELSE "scan"]
<1>1. frame \in [Reqs -> Frame] /\ f \in Frame /\ StoreOK
  BY TypeParts DEF IInv
<1>2. f.pc \in {"pre", "inval"} /\ p \in InFlight
  BY DEF InvalidateRefresh, InFlight
<1>3. f.op = "login" /\ f.user \in Users /\ f.ns = Home[f.user]
  BY <1>2, FrameFacts DEF FrameOK, LoginOK, RefreshOK, RefreshPcs, ValidateOK, ValidatePcs
<1>3v. PICK v \in Users : v = f.user
  BY <1>3
<1>4. frame' = [frame EXCEPT ![p] = g] /\ rows' = Invalidated(v, Home[v])
  BY <1>3, <1>3v DEF InvalidateRefresh, Goto
<1>5. /\ InFlight' \subseteq InFlight
      /\ IsFiniteSet(InFlight') /\ Cardinality(InFlight') <= MaxInFlight
  <2> HIDE DEF g
  <2> QED BY <1>1, <1>2, <1>4, FlightSet
<1>6. Valid(v)' = {}
  BY <1>1, <1>4, InvalidatedValid DEF Valid
<1>7. /\ IsFiniteSet(Valid(v)')
      /\ Cardinality(Valid(v)') + Cardinality(Pending(v)') <= MaxInFlight
  <2>1. Pending(v)' \subseteq InFlight'
    BY DEF Pending
  <2>2. IsFiniteSet(Pending(v)') /\ Cardinality(Pending(v)') <= Cardinality(InFlight')
    BY <1>5, <2>1, FS_Subset
  <2>3. Cardinality(Pending(v)') \in Nat /\ Cardinality(InFlight') \in Nat
    BY <1>5, <2>2, FS_CardinalityType
  <2>4. IsFiniteSet(Valid(v)') /\ Cardinality(Valid(v)') = 0
    BY <1>6, FS_EmptySet
  <2> QED BY <1>5, <2>2, <2>3, <2>4, InFlightAssumption
<1>8. ASSUME NEW u \in Users, u # v
      PROVE  Valid(u)' \subseteq Valid(u) /\ Pending(u)' \subseteq Pending(u)
  <2>1. Valid(u)' \subseteq Valid(u)
    BY <1>1, <1>4, InvalidatedValid DEF Valid
  <2>2. ~Waits(g, u)
    BY <1>1, <1>3v, <1>8 DEF Waits, Frame
  <2> HIDE DEF g
  <2> QED BY <1>1, <1>4, <2>1, <2>2, PendingSet
<1>9. ASSUME NEW u \in Users
      PROVE  /\ IsFiniteSet(Valid(u)')
             /\ Cardinality(Valid(u)') + Cardinality(Pending(u)') <= MaxInFlight
  <2>1. CASE u = v
    BY <1>7, <2>1
  <2>2. CASE u # v
    BY <1>8, <2>2, RoomShrinks
  <2> QED BY <2>1, <2>2
<1> QED BY <1>5, <1>9 DEF RoomHolds, Valid

\* The steps that keep every valid row valid or make it invalid, and make no
\* login pending that was not.
LEMMA RoomWalk ==
  ASSUME IInv, RoomHolds, NEW p \in Reqs, p \in InFlight, NEW g,
         frame' = [frame EXCEPT ![p] = g],
         rows' = rows \/ \E u, d : rows' = Invalidated(u, d),
         \A u \in Users : Waits(g, u) => Waits(frame[p], u)
  PROVE  RoomHolds'
<1>1. frame \in [Reqs -> Frame] /\ StoreOK
  BY TypeParts DEF IInv
<1>2. IsFiniteSet(InFlight') /\ Cardinality(InFlight') <= MaxInFlight
  BY <1>1, FlightSet
<1>3. ASSUME NEW u \in Users
      PROVE  Valid(u)' \subseteq Valid(u) /\ Pending(u)' \subseteq Pending(u)
  <2>1. CASE rows' = rows
    BY <1>1, <2>1, PendingSet DEF Valid, ValidRowsOf
  <2>2. CASE \E v, d : rows' = Invalidated(v, d)
    BY <1>1, <2>2, PendingSet, InvalidatedValid DEF Valid
  <2> QED BY <2>1, <2>2
<1> QED BY <1>2, <1>3, RoomShrinks DEF RoomHolds, Valid

\* A pending login creates its row: one pending login less, one row more.
LEMMA RoomCreate ==
  ASSUME IInv, RoomHolds, NEW p \in Reqs, CreateRow(p)
  PROVE  RoomHolds'
<1>1. frame \in [Reqs -> Frame] /\ frame[p] \in Frame /\ StoreOK
  BY TypeParts DEF IInv
<1>2. frame[p].pc = "create" /\ p \in InFlight
  BY DEF CreateRow, At, InFlight
<1>3. PICK v \in Users : v = frame[p].user
  BY <1>2, FrameFacts DEF FrameOK
<1>4. frame[p].op = "login"
  BY <1>2, FrameFacts DEF FrameOK, RefreshOK, RefreshPcs, ValidateOK, ValidatePcs
<1>5. PICK r \in RefreshTokens :
        /\ rows[r] = None
        /\ rows' = [rows EXCEPT ![r] = [user |-> frame[p].user, ip |-> frame[p].ip,
                                        valid |-> TRUE,
                                        exp |-> frame[p].acc.iat + RefreshLife]]
        /\ frame' = [frame EXCEPT ![p].pc = "cacheA", ![p].ref = r]
  BY DEF CreateRow
<1> DEFINE g == [frame[p] EXCEPT !.pc = "cacheA", !.ref = r]
<1>6. frame' = [frame EXCEPT ![p] = g] /\ g.pc = "cacheA"
  BY <1>1, <1>5 DEF Frame
<1> HIDE DEF g
<1>7. IsFiniteSet(InFlight') /\ Cardinality(InFlight') <= MaxInFlight
  BY <1>1, <1>2, <1>6, FlightSet
<1>8. ~Waits(g, v) /\ \A u \in Users : ~Waits(g, u)
  BY <1>6 DEF Waits, PendingPcs
<1>9. /\ rows'[r] = [user |-> v, ip |-> frame[p].ip, valid |-> TRUE,
                     exp |-> frame[p].acc.iat + RefreshLife]
      /\ \A s \in RefreshTokens : s # r => rows'[s] = rows[s]
  BY <1>1, <1>3, <1>5 DEF StoreOK
<1>10. ASSUME NEW u \in Users, u # v
       PROVE  Valid(u)' \subseteq Valid(u) /\ Pending(u)' \subseteq Pending(u)
  <2>1. Pending(u)' \subseteq Pending(u)
    BY <1>1, <1>6, <1>8, PendingSet
  <2>2. rows'[r].user # u
    BY <1>9, <1>10
  <2>3. Valid(u)' \subseteq Valid(u)
    BY <1>9, <2>2 DEF Valid, ValidRowsOf
  <2> QED BY <2>1, <2>3
<1>11. /\ IsFiniteSet(Valid(v)')
       /\ Cardinality(Valid(v)') + Cardinality(Pending(v)') <= MaxInFlight
  <2>1. /\ IsFiniteSet(InFlight) /\ IsFiniteSet(Valid(v))
        /\ Cardinality(Valid(v)) + Cardinality(Pending(v)) <= MaxInFlight
    BY DEF RoomHolds, Valid
  <2>2. Valid(v)' \subseteq Valid(v) \cup {r} /\ r \notin Valid(v)
    BY <1>5, <1>9 DEF Valid, ValidRowsOf
  <2>3. p \in Pending(v) /\ Pending(v) \subseteq InFlight
    BY <1>2, <1>3, <1>4 DEF Pending, Waits, PendingPcs
  <2>4. Pending(v)' \subseteq Pending(v) \ {p}
    <3>1. Pending(v)' \subseteq Pending(v)
      BY <1>1, <1>6, <1>8, PendingSet
    <3>2. p \notin Pending(v)'
      <4>1. frame'[p].pc = "cacheA"
        BY <1>1, <1>6
      <4> QED BY <4>1 DEF Pending, Waits, PendingPcs
    <3> QED BY <3>1, <3>2
  <2> HIDE DEF Valid, Pending
  <2>5. IsFiniteSet(Pending(v))
    BY <2>1, <2>3, FS_Subset
  <2>6. /\ IsFiniteSet(Valid(v) \cup {r})
        /\ Cardinality(Valid(v) \cup {r}) = Cardinality(Valid(v)) + 1
        /\ IsFiniteSet(Pending(v) \ {p})
        /\ Cardinality(Pending(v) \ {p}) = Cardinality(Pending(v)) - 1
    BY <2>1, <2>2, <2>3, <2>5, FS_AddElement, FS_RemoveElement
  <2>7. /\ IsFiniteSet(Valid(v)') /\ Cardinality(Valid(v)') <= Cardinality(Valid(v)) + 1
        /\ IsFiniteSet(Pending(v)') /\ Cardinality(Pending(v)') <= Cardinality(Pending(v)) - 1
    <3>1. /\ IsFiniteSet(Valid(v)')
          /\ Cardinality(Valid(v)') <= Cardinality(Valid(v) \cup {r})
      BY <2>2, <2>6, FS_Subset
    <3>2. /\ IsFiniteSet(Pending(v)')
          /\ Cardinality(Pending(v)') <= Cardinality(Pending(v) \ {p})
      BY <2>4, <2>6, FS_Subset
    <3> QED BY <2>6, <3>1, <3>2
  <2>8. /\ Cardinality(Valid(v)) \in Nat /\ Cardinality(Valid(v)') \in Nat
        /\ Cardinality(Pending(v)) \in Nat /\ Cardinality(Pending(v)') \in Nat
    BY <2>1, <2>5, <2>7, FS_CardinalityType
  <2> QED BY <2>1, <2>7, <2>8, InFlightAssumption
<1>12. ASSUME NEW u \in Users
       PROVE  /\ IsFiniteSet(Valid(u)')
              /\ Cardinality(Valid(u)') + Cardinality(Pending(u)') <= MaxInFlight
  <2>1. CASE u = v
    BY <1>11, <2>1
  <2>2. CASE u # v
    BY <1>10, <2>2, RoomShrinks
  <2> QED BY <2>1, <2>2
<1> QED BY <1>7, <1>12 DEF RoomHolds, Valid

\* The rest of a request: it moves along one handler, and a pending login stays
\* the login of its user.
LEMMA RoomMoves ==
  ASSUME IInv, RoomHolds, NEW p \in Reqs, Settle(p), ~InvalidateRefresh(p), ~CreateRow(p)
  PROVE  RoomHolds'
<1>1. frame \in [Reqs -> Frame] /\ frame[p] \in Frame
  BY DEF IInv, TypeOK
<1>2. rows' = rows \/ \E u, d : rows' = Invalidated(u, d)
  <2>1. CASE LoginStep(p)
    BY <2>1 DEF LoginStep, MarkVerified, ScanAccess, BlacklistKey, ScanClearAccess,
       DeleteAccess, ScanClearRefresh, DeleteRefresh, RefuseTwoFactor, SignLogin, SignRefresh,
       CacheAccess, CacheRefresh, store
  <2>2. CASE ~LoginStep(p)
    BY <2>2 DEF Settle, RefreshStep, GetRefresh, FindRefresh, TheftInvalidate, TheftDeny,
       NotifySecurityTeam, ValidateStep, GetBlacklist, GetAccess, FindUser,
       UpdateTrustedDevice, Reply, Fail, store
  <2> QED BY <2>1, <2>2
<1>3. p \in InFlight
  <2>1. CASE LoginStep(p)
    BY <2>1 DEF LoginStep, MarkVerified, ScanAccess, BlacklistKey, ScanClearAccess,
       DeleteAccess, ScanClearRefresh, DeleteRefresh, RefuseTwoFactor, SignLogin, SignRefresh,
       CacheAccess, CacheRefresh, At, InFlight
  <2>2. CASE ~LoginStep(p)
    BY <2>2 DEF Settle, RefreshStep, GetRefresh, FindRefresh, TheftInvalidate, TheftDeny,
       NotifySecurityTeam, ValidateStep, GetBlacklist, GetAccess, FindUser,
       UpdateTrustedDevice, Reply, Fail, At, InFlight
  <2> QED BY <2>1, <2>2
<1> DEFINE f == frame[p]
<1>4. ASSUME NEW g, frame' = [frame EXCEPT ![p] = g],
             \/ g.op # "login" \/ g.pc \notin PendingPcs
             \/ g.op = f.op /\ g.user = f.user /\ f.pc \in PendingPcs
      PROVE  RoomHolds'
  <2>1. \A u \in Users : Waits(g, u) => Waits(frame[p], u)
    BY <1>4 DEF Waits
  <2> QED BY <1>2, <1>3, <1>4, <2>1, RoomWalk
<1>5. ASSUME NEW pc, Goto(p, pc), pc \notin PendingPcs \/ f.pc \in PendingPcs \/ f.op # "login"
      PROVE  RoomHolds'
  <2> DEFINE g == [f EXCEPT !.pc = pc]
  <2>1. frame' = [frame EXCEPT ![p] = g] /\ g.pc = pc /\ g.op = f.op /\ g.user = f.user
    BY <1>1, <1>5 DEF Goto, Frame
  <2> HIDE DEF g
  <2> QED BY <1>4, <1>5, <2>1
<1>6. CASE Drop(p)
  <2>1. frame' = [frame EXCEPT ![p] = Done] /\ Done.op # "login"
    BY <1>6 DEF Drop, Done, NewFrame
  <2> QED BY <1>4, <2>1
<1>7. ASSUME NEW S, NEW pc, frame' = [frame EXCEPT ![p].todo = S, ![p].pc = pc],
             f.pc \in PendingPcs
      PROVE  RoomHolds'
  <2> DEFINE g == [f EXCEPT !.todo = S, !.pc = pc]
  <2>1. frame' = [frame EXCEPT ![p] = g] /\ g.op = f.op /\ g.user = f.user
    BY <1>1, <1>7 DEF Frame
  <2> HIDE DEF g
  <2> QED BY <1>4, <1>7, <2>1
<1>8. ASSUME NEW a, NEW pc, frame' = [frame EXCEPT ![p].pc = pc, ![p].acc = a],
             f.pc \in PendingPcs
      PROVE  RoomHolds'
  <2> DEFINE g == [f EXCEPT !.pc = pc, !.acc = a]
  <2>1. frame' = [frame EXCEPT ![p] = g] /\ g.op = f.op /\ g.user = f.user
    BY <1>1, <1>8 DEF Frame
  <2> HIDE DEF g
  <2> QED BY <1>4, <1>8, <2>1
<1>9. CASE LoginStep(p)
  <2>1. CASE MarkVerified(p) \/ CacheAccess(p) \/ CacheRefresh(p)
    BY <1>5, <2>1 DEF MarkVerified, CacheAccess, CacheRefresh, PendingPcs
  <2>2. CASE ScanAccess(p) \/ ScanClearAccess(p) \/ ScanClearRefresh(p)
    BY <1>7, <2>2 DEF ScanAccess, ScanClearAccess, ScanClearRefresh, At, PendingPcs
  <2>3. CASE BlacklistKey(p)
    <3>1. PICK t : frame' = [frame EXCEPT ![p].todo = frame[p].todo \ {t},
                               ![p].pc = IF frame[p].todo = {t} THEN AfterBlack(p) ELSE "black"]
      BY <2>3 DEF BlacklistKey
    <3> QED BY <1>7, <2>3, <3>1 DEF BlacklistKey, At, PendingPcs
  <2>4. CASE DeleteAccess(p)
    <3>1. PICK t : frame' = [frame EXCEPT ![p].todo = frame[p].todo \ {t},
                               ![p].pc = IF frame[p].todo = {t} THEN "clrR" ELSE "delA"]
      BY <2>4 DEF DeleteAccess
    <3> QED BY <1>7, <2>4, <3>1 DEF DeleteAccess, At, PendingPcs
  <2>5. CASE DeleteRefresh(p)
    <3>1. PICK t : frame' = [frame EXCEPT ![p].todo = frame[p].todo \ {t},
                               ![p].pc = IF frame[p].todo = {t} THEN "sign" ELSE "delR"]
      BY <2>5 DEF DeleteRefresh
    <3> QED BY <1>7, <2>5, <3>1 DEF DeleteRefresh, At, PendingPcs
  <2>6. CASE RefuseTwoFactor(p)
    BY <1>6, <2>6 DEF RefuseTwoFactor
  <2>7. CASE SignLogin(p) \/ SignRefresh(p)
    BY <1>8, <2>7 DEF SignLogin, SignRefresh, At, PendingPcs
  <2> QED BY <1>9, <2>1, <2>2, <2>3, <2>4, <2>5, <2>6, <2>7 DEF LoginStep
<1>10. CASE RefreshStep(p)
  <2>1. f.op # "login"
    <3>1. f.pc \in {"getR", "findR", "theft", "deny", "notify"}
      BY <1>10 DEF RefreshStep, GetRefresh, FindRefresh, TheftInvalidate, TheftDeny,
         NotifySecurityTeam, At
    <3> QED BY <3>1, FrameFacts DEF FrameOK, LoginOK, LoginPcs
  <2> HIDE DEF f
  <2> QED BY <1>5, <1>6, <1>10, <2>1 DEF RefreshStep, GetRefresh, FindRefresh,
         TheftInvalidate, TheftDeny, NotifySecurityTeam
<1>11. CASE ValidateStep(p)
  <2>1. CASE GetBlacklist(p) \/ GetAccess(p)
    BY <1>5, <1>6, <2>1 DEF GetBlacklist, GetAccess, PendingPcs
  <2>2. CASE FindUser(p)
    <3>1. ASSUME NEW r, frame' = [frame EXCEPT ![p].pc = "cacheA", ![p].ref = r]
          PROVE  RoomHolds'
      <4> DEFINE g == [f EXCEPT !.pc = "cacheA", !.ref = r]
      <4>1. frame' = [frame EXCEPT ![p] = g] /\ g.pc \notin PendingPcs
        BY <1>1, <3>1 DEF Frame, PendingPcs
      <4> HIDE DEF g
      <4> QED BY <1>4, <4>1
    <3> QED BY <1>5, <1>6, <2>2, <3>1 DEF FindUser, PendingPcs
  <2>3. CASE UpdateTrustedDevice(p)
    <3>1. PICK r \in handed \cup {None}, ip \in Ips :
            frame' = [frame EXCEPT ![p] = NewFrame("refresh", "getR", frame[p].user,
                                                   frame[p].ns, ip, None, r, {})]
      BY <2>3 DEF UpdateTrustedDevice
    <3>2. NewFrame("refresh", "getR", frame[p].user, frame[p].ns, ip, None, r, {}).op # "login"
      BY DEF NewFrame
    <3> QED BY <1>4, <3>1, <3>2
  <2> QED BY <1>11, <2>1, <2>2, <2>3 DEF ValidateStep
<1> QED BY <1>6, <1>9, <1>10, <1>11 DEF Settle, Reply, Fail

\* Nothing but a request moves rows and frames.
LEMMA RoomStep == IInv /\ RoomHolds /\ [Next]_vars => RoomHolds'
<1> SUFFICES ASSUME IInv, RoomHolds, [Next]_vars PROVE RoomHolds'
  OBVIOUS
<1>1. CASE Tick \/ UNCHANGED vars
  <2>1. frame' = frame /\ rows' = rows
    BY <1>1 DEF Tick, vars, store
  <2> QED BY <2>1 DEF RoomHolds, InFlight, Valid, ValidRowsOf, Pending, Waits
<1>2. ASSUME NEW p \in Reqs, Arrive(p) \/ Settle(p) PROVE RoomHolds'
  BY <1>2, RoomArrive, RoomInvalidate, RoomCreate, RoomMoves
<1> QED BY <1>1, <1>2 DEF Next

\* However many users, tokens and requests there are and whatever fails, a
\* user never has more valid refresh token rows than logins can run at once:
\* updateInvalidatePreviousRefreshTokens comes before every row login creates.
THEOREM SessionsAreBounded == Spec => []SessionsBounded
<1>1. Init => RoomHolds
  <2> SUFFICES ASSUME Init PROVE RoomHolds
    OBVIOUS
  <2>1. \A p \in Reqs : frame[p].pc = "new"
    BY DEF Init, Blank, NewFrame
  <2>2. InFlight = {} /\ \A u \in Users : Pending(u) = {}
    BY <2>1 DEF InFlight, Pending
  <2>3. \A u \in Users : ValidRowsOf(u, Home[u]) = {}
    BY DEF Init, ValidRowsOf
  <2> QED BY <2>2, <2>3, FS_EmptySet, InFlightAssumption DEF RoomHolds, Valid
<1>2. RoomHolds => SessionsBounded
  <2> SUFFICES ASSUME RoomHolds, NEW u \in Users
               PROVE  Cardinality(ValidRowsOf(u, Home[u])) <= MaxInFlight
    BY DEF SessionsBounded
  <2>1. /\ IsFiniteSet(InFlight) /\ IsFiniteSet(ValidRowsOf(u, Home[u]))
        /\ Cardinality(ValidRowsOf(u, Home[u])) + Cardinality(Pending(u)) <= MaxInFlight
    BY DEF RoomHolds, Valid
  <2>2. IsFiniteSet(Pending(u))
    BY <2>1, FS_Subset DEF Pending
  <2>3. Cardinality(Pending(u)) \in Nat /\ Cardinality(ValidRowsOf(u, Home[u])) \in Nat
    BY <2>1, <2>2, FS_CardinalityType
  <2> QED BY <2>1, <2>3, InFlightAssumption
<1> QED BY <1>1, <1>2, Inductive, RoomStep, PTL DEF Spec

=============================================================================
