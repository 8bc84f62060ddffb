------------------------- MODULE SessionsTurnProofs -------------------------
(***************************************************************************)
(* Sessions when requests come one after another: a login revokes every    *)
(* access token handed out before in its own namespace, and leaves one     *)
(* refresh token there.  Other namespaces keep what they hold.             *)
(***************************************************************************)
EXTENDS SessionsProofs

-----------------------------------------------------------------------------
(* The strengthening that makes LoginRevokesEarlier inductive.            *)

\* Access token t has a key in namespace ns, among C, that lives as long.
Keyed(ns, t, C) == \E e \in C : e.ns = ns /\ e.tok = t /\ e.exp >= t.iat + AccessLife

\* A live token in a client's hands has been revoked or can be found.
Findable(giv, time, rev, C) ==
  \A g \in giv : Live(g.tok, time) => <<g.ns, g.tok>> \in rev \/ Keyed(g.ns, g.tok, C)

EarlyPcs == {"mark", "pre", "inval", "scan"}

\* A login that has scanned the keys has revoked every earlier live token or
\* is about to, and a reply carries no token without a key.
TurnOK(f, time, giv, rev, C) ==
  /\ f.op # "validate" /\ f.pc \in {"cacheR", "ok"} /\ Live(f.acc, time) => Keyed(f.ns, f.acc, C)
  /\ f.op = "login" /\ f.pc \notin EarlyPcs =>
       \A g \in giv :
         g.ns = f.ns /\ g.tok.user = f.user /\ Live(g.tok, time) =>
           \/ <<g.ns, g.tok>> \in rev
           \/ f.pc = "black" /\ g.tok \in f.todo

\* Requests come one after another.
OneAtATime == \A p, q \in InFlight : p = q

InTurn ==
  /\ OneAtATime
  /\ Findable(given, now, revoked, accessCache)
  /\ \A p \in InFlight : TurnOK(frame[p], now, given, revoked, accessCache)

-----------------------------------------------------------------------------
\* A request arrives only when no other is in flight.
LEMMA LoneArrival ==
  ASSUME MaxInFlight = 1, OneAtATime, Cardinality(InFlight) < MaxInFlight
  PROVE  InFlight = {}
<1> SUFFICES ASSUME NEW p \in InFlight PROVE FALSE
  OBVIOUS
<1>1. InFlight = {p}
  BY DEF OneAtATime
<1>2. Cardinality({p}) = 1
  BY FS_Singleton
<1> QED BY <1>1, <1>2

\* A step of the only request is judged by the frame it leaves.
LEMMA TurnSet ==
  ASSUME NEW p \in Reqs, NEW g, frame \in [Reqs -> Frame], InFlight \subseteq {p},
         frame' = [frame EXCEPT ![p] = g],
         Findable(given', now', revoked', accessCache'),
         g.pc # "done" => TurnOK(g, now', given', revoked', accessCache')
  PROVE  InTurn'
<1>1. \A q \in Reqs : frame'[q] = IF q = p THEN g ELSE frame[q]
  OBVIOUS
<1>2. InFlight' \subseteq {p} /\ (p \in InFlight' => g.pc # "done")
  BY <1>1 DEF InFlight
<1> QED BY <1>1, <1>2 DEF InTurn, OneAtATime

\* A login that keeps its user keeps what it has revoked.
LEMMA TurnKept ==
  ASSUME NEW f, NEW g, NEW time, NEW giv, NEW rev, NEW C, TurnOK(f, time, giv, rev, C),
         \/ g.op = "validate"
         \/ g.op = "refresh" /\ g.pc \notin {"cacheR", "ok"}
         \/ g.op = "login" /\ g.pc \in EarlyPcs
         \/ /\ g.op = "login" /\ f.op = "login" /\ g.user = f.user /\ g.ns = f.ns
            /\ f.pc \notin EarlyPcs \cup {"black"}
            /\ g.pc \in {"cacheR", "ok"} => f.pc \in {"cacheR", "ok"} /\ g.acc = f.acc
  PROVE  TurnOK(g, time, giv, rev, C)
  BY DEF TurnOK, EarlyPcs

\* The only request moves and changes no access key, reply or revocation.
LEMMA TurnQuiet ==
  ASSUME IInv, InTurn, NEW p \in InFlight, NEW g, frame' = [frame EXCEPT ![p] = g],
         UNCHANGED <<now, given, revoked, accessCache>>,
         g.pc # "done" => TurnOK(g, now, given, revoked, accessCache)
  PROVE  InTurn'
<1>1. InFlight \subseteq {p} /\ p \in Reqs /\ Findable(given, now, revoked, accessCache)
  BY DEF InTurn, OneAtATime, InFlight
<1>2. frame \in [Reqs -> Frame]
  BY DEF IInv, TypeOK
<1>3. Findable(given', now', revoked', accessCache')
  BY <1>1
<1>4. g.pc # "done" => TurnOK(g, now', given', revoked', accessCache')
  OBVIOUS
<1> QED BY <1>1, <1>2, <1>3, <1>4, TurnSet

\* A request that arrives has neither a token nor a key to answer for.
LEMMA TurnArrive ==
  ASSUME MaxInFlight = 1, IInv, InTurn, NEW p \in Reqs, Arrive(p)
  PROVE  InTurn'
<1>1. Quiet /\ Cardinality(InFlight) < MaxInFlight
  BY DEF Arrive, LoginUser, LoginKnown, VerifyUserEmail, RefreshAccess, Validate, Request, Quiet
<1>2. InFlight = {}
  BY <1>1, LoneArrival DEF InTurn
<1>3. UNCHANGED <<now, given, revoked, accessCache>> /\ frame \in [Reqs -> Frame]
  BY <1>1 DEF Quiet, store, history, IInv, TypeOK
<1>4. ASSUME NEW g, frame' = [frame EXCEPT ![p] = g],
             g.pc \in {"pre", "inval", "mark", "getR", "getB"}, g.op = "login" => g.pc \in EarlyPcs
      PROVE  InTurn'
  <2>1. TurnOK(g, now', given', revoked', accessCache')
    BY <1>4 DEF TurnOK
  <2>2. Findable(given', now', revoked', accessCache')
    BY <1>3 DEF InTurn, OneAtATime
  <2> QED BY <1>2, <1>3, <1>4, <2>1, <2>2, TurnSet
<1>5. CASE LoginUser(p) \/ LoginKnown(p) \/ VerifyUserEmail(p)
  <2>1. PICK u \in Users, n \in Ns, ip \in Ips, pc \in {"pre", "inval", "mark"} :
          frame' = [frame EXCEPT ![p] = LoginFrame(u, n, ip, pc)]
    BY <1>5, HomeAssumption DEF LoginUser, LoginKnown, VerifyUserEmail, Request, Ns
  <2>2. LoginFrame(u, n, ip, pc).pc = pc /\ pc \in EarlyPcs
    BY DEF LoginFrame, NewFrame, EarlyPcs
  <2> QED BY <1>4, <2>1, <2>2
<1>6. CASE RefreshAccess(p)
  <2>1. PICK u \in Users, r \in handed \cup {None}, ns \in Ns, ip \in Ips :
          frame' = [frame EXCEPT ![p] = NewFrame("refresh", "getR", u, ns, ip, None, r, {})]
    BY <1>6 DEF RefreshAccess, Request
  <2>2. /\ NewFrame("refresh", "getR", u, ns, ip, None, r, {}).pc = "getR"
        /\ NewFrame("refresh", "getR", u, ns, ip, None, r, {}).op = "refresh"
    BY DEF NewFrame
  <2> QED BY <1>4, <2>1, <2>2
<1>7. CASE Validate(p)
  <2>1. PICK k \in given, ns \in Ns, ip \in Ips :
          frame' = [frame EXCEPT ![p] =
                      NewFrame("validate", "getB", k.tok.user, ns, ip, k.tok, None,
                               ValidateFacts(ns, k.tok))]
    BY <1>7 DEF Validate, Request
  <2>2. /\ NewFrame("validate", "getB", k.tok.user, ns, ip, k.tok, None,
                    ValidateFacts(ns, k.tok)).pc = "getB"
        /\ NewFrame("validate", "getB", k.tok.user, ns, ip, k.tok, None,
                    ValidateFacts(ns, k.tok)).op = "validate"
    BY DEF NewFrame
  <2> QED BY <1>4, <2>1, <2>2
<1> QED BY <1>5, <1>6, <1>7 DEF Arrive

\* The steps that leave access keys, replies and revocations alone.
LEMMA TurnWalk ==
  ASSUME IInv, InTurn, NEW p \in Reqs, Settle(p), ~ScanAccess(p), ~BlacklistKey(p),
         ~DeleteAccess(p), ~CacheAccess(p), ~Reply(p)
  PROVE  InTurn'
<1>1. p \in InFlight /\ UNCHANGED <<now, given, revoked, accessCache>>
  <2>1. CASE LoginStep(p)
    BY <2>1 DEF LoginStep, MarkVerified, InvalidateRefresh, ScanClearAccess, ScanClearRefresh,
       DeleteRefresh, RefuseTwoFactor, SignLogin, SignRefresh, CreateRow, CacheRefresh, At,
       InFlight, store, history
  <2>2. CASE ~LoginStep(p)
    BY <2>2 DEF Settle, RefreshStep, GetRefresh, FindRefresh, TheftInvalidate, TheftDeny,
       NotifySecurityTeam, ValidateStep, GetBlacklist, GetAccess, FindUser,
       UpdateTrustedDevice, Fail, At, InFlight, store, history
  <2> QED BY <2>1, <2>2
<1> DEFINE f == frame[p]
<1>2. /\ frame \in [Reqs -> Frame] /\ f \in Frame /\ FrameOK(f, now, rows)
      /\ TurnOK(f, now, given, revoked, accessCache)
  BY <1>1, FrameFacts DEF IInv, TypeOK, InFlight, InTurn
<1>3. ASSUME NEW g, frame' = [frame EXCEPT ![p] = g],
             \/ g.pc = "done"
             \/ g.op = "validate"
             \/ g.op = "refresh" /\ g.pc \notin {"cacheR", "ok"}
             \/ g.op = "login" /\ g.pc \in EarlyPcs
             \/ /\ g.op = "login" /\ f.op = "login" /\ g.user = f.user /\ g.ns = f.ns
                /\ f.pc \notin EarlyPcs \cup {"black"}
                /\ g.pc \in {"cacheR", "ok"} => f.pc \in {"cacheR", "ok"} /\ g.acc = f.acc
      PROVE  InTurn'
  <2>1. g.pc # "done" => TurnOK(g, now, given, revoked, accessCache)
    <3> HIDE DEF f
    <3> QED BY <1>2, <1>3, TurnKept
  <2> QED BY <1>1, <1>3, <2>1, TurnQuiet
<1>4. CASE Drop(p)
  <2>1. frame' = [frame EXCEPT ![p] = Done] /\ Done.pc = "done"
    BY <1>4 DEF Drop, Done, NewFrame
  <2> QED BY <1>3, <2>1
<1>5. ASSUME NEW pc, Goto(p, pc),
             \/ f.op = "validate"
             \/ f.op = "refresh" /\ pc \notin {"cacheR", "ok"}
             \/ f.op = "login" /\ pc \in EarlyPcs
             \/ f.op = "login" /\ f.pc = "cacheR"
      PROVE  InTurn'
  <2> DEFINE g == [f EXCEPT !.pc = pc]
  <2>1. /\ frame' = [frame EXCEPT ![p] = g] /\ g.pc = pc /\ g.op = f.op /\ g.user = f.user
        /\ g.ns = f.ns /\ g.acc = f.acc
    BY <1>2, <1>5 DEF Goto, Frame
  <2> HIDE DEF g
  <2> QED BY <1>3, <1>5, <2>1 DEF EarlyPcs
<1>6. ASSUME NEW S, NEW pc, frame' = [frame EXCEPT ![p].todo = S, ![p].pc = pc],
             f.op = "login", f.pc \in {"clrA", "clrR", "delR"}, pc \notin {"cacheR", "ok"}
      PROVE  InTurn'
  <2> DEFINE g == [f EXCEPT !.todo = S, !.pc = pc]
  <2>1. /\ frame' = [frame EXCEPT ![p] = g] /\ g.pc = pc /\ g.op = f.op /\ g.user = f.user
        /\ g.ns = f.ns
    BY <1>2, <1>6 DEF Frame
  <2> HIDE DEF g
  <2> QED BY <1>3, <1>6, <2>1 DEF EarlyPcs
<1>7. ASSUME NEW a, NEW pc, frame' = [frame EXCEPT ![p].pc = pc, ![p].acc = a],
             f.op \in {"login", "refresh"}, f.pc = "sign", pc \notin {"cacheR", "ok"}
      PROVE  InTurn'
  <2> DEFINE g == [f EXCEPT !.pc = pc, !.acc = a]
  <2>1. /\ frame' = [frame EXCEPT ![p] = g] /\ g.pc = pc /\ g.op = f.op /\ g.user = f.user
        /\ g.ns = f.ns
    BY <1>2, <1>7 DEF Frame
  <2> HIDE DEF g
  <2> QED BY <1>3, <1>7, <2>1 DEF EarlyPcs
<1>8. ASSUME NEW r, frame' = [frame EXCEPT ![p].pc = "cacheA", ![p].ref = r],
             \/ f.op = "validate"
             \/ f.op = "login" /\ f.pc = "create"
      PROVE  InTurn'
  <2> DEFINE g == [f EXCEPT !.pc = "cacheA", !.ref = r]
  <2>1. /\ frame' = [frame EXCEPT ![p] = g] /\ g.pc = "cacheA" /\ g.op = f.op
        /\ g.user = f.user /\ g.ns = f.ns
    BY <1>2, <1>8 DEF Frame
  <2> HIDE DEF g
  <2> QED BY <1>3, <1>8, <2>1 DEF EarlyPcs
<1>9. /\ f.pc \in {"mark", "pre", "inval", "clrA", "clrR", "delR", "create"} => f.op = "login"
      /\ f.pc \in {"getR", "findR", "theft", "deny", "notify"} => f.op = "refresh"
      /\ f.pc \in {"getB", "getA", "findU"} => f.op = "validate"
      /\ f.pc = "cacheR" => f.op \in {"login", "validate"}
  BY <1>2 DEF FrameOK, LoginOK, RefreshOK, ValidateOK, LoginPcs, RefreshPcs, ValidatePcs
<1>10. CASE LoginStep(p)
  <2>1. CASE MarkVerified(p) \/ InvalidateRefresh(p) \/ CacheRefresh(p)
    BY <1>5, <1>9, <2>1 DEF MarkVerified, InvalidateRefresh, CacheRefresh, At, EarlyPcs
  <2>2. CASE ScanClearAccess(p) \/ ScanClearRefresh(p)
    BY <1>6, <1>9, <2>2 DEF ScanClearAccess, ScanClearRefresh, At
  <2>3. CASE DeleteRefresh(p)
    <3> PICK t : frame' = [frame EXCEPT ![p].todo = @ \ {t},
                              ![p].pc = IF frame[p].todo = {t} THEN "sign" ELSE "delR"]
      BY <2>3 DEF DeleteRefresh
    <3> DEFINE pc == IF frame[p].todo = {t} THEN "sign" ELSE "delR"
               td == frame[p].todo \ {t}
    <3>1. /\ frame' = [frame EXCEPT ![p].todo = td, ![p].pc = pc]
          /\ pc \in {"sign", "delR"}
      BY <1>2
    <3> HIDE DEF pc, td
    <3>2. f.pc = "delR" /\ f.op = "login"
      BY <1>9, <2>3 DEF DeleteRefresh, At
    <3> QED BY <1>6, <3>1, <3>2
  <2>4. CASE RefuseTwoFactor(p)
    BY <1>4, <2>4 DEF RefuseTwoFactor
  <2>5. CASE SignLogin(p) \/ SignRefresh(p)
    BY <1>7, <2>5 DEF SignLogin, SignRefresh, At
  <2>6. CASE CreateRow(p)
    <3>1. PICK r : frame' = [frame EXCEPT ![p].pc = "cacheA", ![p].ref = r]
      BY <2>6 DEF CreateRow
    <3> QED BY <1>8, <1>9, <2>6, <3>1 DEF CreateRow, At
  <2> QED BY <1>10, <2>1, <2>2, <2>3, <2>4, <2>5, <2>6 DEF LoginStep
<1>11. CASE RefreshStep(p)
  <2>1. f.op = "refresh"
    BY <1>9, <1>11 DEF RefreshStep, GetRefresh, FindRefresh, TheftInvalidate, TheftDeny,
       NotifySecurityTeam, At
  <2> HIDE DEF f
  <2> QED BY <1>4, <1>5, <1>11, <2>1 DEF RefreshStep, GetRefresh, FindRefresh, TheftInvalidate,
         TheftDeny, NotifySecurityTeam
<1>12. CASE ValidateStep(p)
  <2>1. CASE UpdateTrustedDevice(p)
    <3>1. PICK r \in handed \cup {None}, ip \in Ips :
            frame' = [frame EXCEPT ![p] = NewFrame("refresh", "getR", frame[p].user,
                                                   frame[p].ns, ip, None, r, {})]
      BY <2>1 DEF UpdateTrustedDevice
    <3>2. /\ NewFrame("refresh", "getR", frame[p].user, frame[p].ns, ip, None, r, {}).op = "refresh"
          /\ NewFrame("refresh", "getR", frame[p].user, frame[p].ns, ip, None, r, {}).pc = "getR"
      BY DEF NewFrame
    <3> QED BY <1>3, <3>1, <3>2
  <2>2. CASE ~UpdateTrustedDevice(p)
    <3>1. f.op = "validate"
      BY <1>9, <1>12, <2>2 DEF ValidateStep, GetBlacklist, GetAccess, FindUser, At
    <3> HIDE DEF f
    <3>2. CASE GetBlacklist(p) \/ GetAccess(p)
      BY <1>4, <1>5, <3>1, <3>2 DEF GetBlacklist, GetAccess
    <3>3. CASE FindUser(p)
      <4>1. \/ Drop(p) \/ Goto(p, "cacheA")
            \/ \E r : frame' = [frame EXCEPT ![p].pc = "cacheA", ![p].ref = r]
        BY <3>3 DEF FindUser
      <4>2. CASE Drop(p)
        BY <1>4, <4>2
      <4>3. CASE Goto(p, "cacheA")
        BY <1>5, <3>1, <4>3 DEF EarlyPcs
      <4>4. ASSUME NEW r, frame' = [frame EXCEPT ![p].pc = "cacheA", ![p].ref = r]
            PROVE  InTurn'
        BY <1>8, <3>1, <4>4
      <4> QED BY <4>1, <4>2, <4>3, <4>4
    <3> QED BY <1>12, <2>2, <3>2, <3>3 DEF ValidateStep
  <2> QED BY <2>1, <2>2
<1> QED BY <1>4, <1>10, <1>11, <1>12 DEF Settle, Fail

\* The SCAN of a login finds every live token that is not revoked yet.
LEMMA TurnScan ==
  ASSUME IInv, InTurn, NEW p \in Reqs, ScanAccess(p)
  PROVE  InTurn'
<1> DEFINE f == frame[p]
           keys == AccessKeysOf(f.ns, f.user)
<1>1. /\ f.pc = "scan" /\ p \in InFlight /\ UNCHANGED <<now, given, revoked, accessCache>>
      /\ frame \in [Reqs -> Frame] /\ f \in Frame
  BY DEF ScanAccess, At, InFlight, store, history, IInv, TypeOK
<1>2. f.op \in {"login", "refresh"}
  BY <1>1, FrameFacts DEF FrameOK, ValidateOK, ValidatePcs
<1>3. PICK pc : /\ frame' = [frame EXCEPT ![p].todo = keys, ![p].pc = pc]
                /\ pc \in {"black", "clrA", "cacheA"} /\ (keys # {} => pc = "black")
  BY DEF ScanAccess, AfterBlack
<1> DEFINE g == [f EXCEPT !.todo = keys, !.pc = pc]
<1>4. /\ frame' = [frame EXCEPT ![p] = g] /\ g.pc = pc /\ g.op = f.op /\ g.user = f.user
      /\ g.ns = f.ns /\ g.todo = keys
  BY <1>1, <1>3 DEF Frame
<1>5. ASSUME NEW k \in given, k.ns = f.ns, k.tok.user = f.user, Live(k.tok, now)
      PROVE  <<k.ns, k.tok>> \in revoked \/ k.tok \in keys
  BY <1>5 DEF InTurn, OneAtATime, Findable, Keyed, AccessKeysOf
<1> HIDE DEF g, keys, f
<1>6. TurnOK(g, now, given, revoked, accessCache)
  BY <1>3, <1>4, <1>5 DEF TurnOK
<1> QED BY <1>1, <1>4, <1>6, TurnQuiet

\* A token leaves the list of a login when it is revoked.
LEMMA TurnBlack ==
  ASSUME IInv, InTurn, NEW p \in Reqs, BlacklistKey(p)
  PROVE  InTurn'
<1> DEFINE f == frame[p]
<1>1. /\ f.pc = "black" /\ p \in InFlight /\ UNCHANGED <<now, given, accessCache>>
      /\ frame \in [Reqs -> Frame] /\ f \in Frame
  BY DEF BlacklistKey, At, InFlight, IInv, TypeOK
<1>2. /\ TurnOK(f, now, given, revoked, accessCache) /\ InFlight \subseteq {p}
      /\ Findable(given, now, revoked, accessCache)
  BY <1>1 DEF InTurn, OneAtATime
<1> PICK t \in f.todo :
         /\ revoked' = revoked \cup {<<f.ns, t>>}
         /\ frame' = [frame EXCEPT ![p].todo = @ \ {t},
                       ![p].pc = IF f.todo = {t} THEN AfterBlack(p) ELSE "black"]
  BY DEF BlacklistKey
<1> DEFINE pc == IF f.todo = {t} THEN AfterBlack(p) ELSE "black"
<1>3. /\ revoked' = revoked \cup {<<f.ns, t>>}
      /\ frame' = [frame EXCEPT ![p].todo = f.todo \ {t}, ![p].pc = pc]
      /\ f.todo # {t} => pc = "black"
      /\ pc \in {"black", "clrA", "cacheA"}
  BY <1>1 DEF AfterBlack
<1> HIDE DEF pc
<1> DEFINE g == [f EXCEPT !.todo = f.todo \ {t}, !.pc = pc]
<1>4. /\ frame' = [frame EXCEPT ![p] = g] /\ g.pc = pc /\ g.op = f.op /\ g.user = f.user
      /\ g.ns = f.ns /\ g.todo = f.todo \ {t}
  BY <1>1, <1>3 DEF Frame
<1> HIDE DEF g, f
<1>5. Findable(given', now', revoked', accessCache')
  BY <1>1, <1>2, <1>3 DEF Findable
<1>6. TurnOK(g, now', given', revoked', accessCache')
  BY <1>1, <1>2, <1>3, <1>4 DEF TurnOK, EarlyPcs
<1> QED BY <1>1, <1>2, <1>4, <1>5, <1>6, TurnSet

\* A key is deleted only after its token is revoked.
LEMMA TurnDelete ==
  ASSUME IInv, InTurn, NEW p \in Reqs, DeleteAccess(p)
  PROVE  InTurn'
<1> DEFINE f == frame[p]
<1>1. /\ f.pc = "delA" /\ p \in InFlight /\ UNCHANGED <<now, given, revoked>>
      /\ frame \in [Reqs -> Frame] /\ f \in Frame
  BY DEF DeleteAccess, At, InFlight, history, IInv, TypeOK
<1>2. /\ TurnOK(f, now, given, revoked, accessCache) /\ InFlight \subseteq {p}
      /\ Findable(given, now, revoked, accessCache)
  BY <1>1 DEF InTurn, OneAtATime
<1>3. f.op = "login" /\ \A t \in f.todo : t.user = f.user
  BY <1>1, FrameFacts DEF FrameOK, RefreshOK, RefreshPcs, ValidateOK, ValidatePcs, SignedFor
<1>4. PICK t \in f.todo, pc \in {"clrR", "delA"} :
         /\ accessCache' = {e \in accessCache : ~(e.ns = f.ns /\ e.tok = t)}
         /\ frame' = [frame EXCEPT ![p].todo = f.todo \ {t}, ![p].pc = pc]
  BY DEF DeleteAccess
<1> DEFINE g == [f EXCEPT !.todo = f.todo \ {t}, !.pc = pc]
<1>5. /\ frame' = [frame EXCEPT ![p] = g] /\ g.pc = pc /\ g.op = f.op /\ g.user = f.user
      /\ g.ns = f.ns
  BY <1>1, <1>4 DEF Frame
<1> HIDE DEF g, f
<1>6. \A k \in given :
        k.ns = f.ns /\ k.tok.user = f.user /\ Live(k.tok, now) => <<k.ns, k.tok>> \in revoked
  BY <1>1, <1>2, <1>3 DEF TurnOK, EarlyPcs
<1>7. Findable(given', now', revoked', accessCache')
  BY <1>1, <1>2, <1>3, <1>4, <1>6 DEF Findable, Keyed
<1>8. TurnOK(g, now', given', revoked', accessCache')
  BY <1>1, <1>4, <1>5, <1>6 DEF TurnOK
<1> QED BY <1>1, <1>2, <1>5, <1>7, <1>8, TurnSet

\* A token that is cached gets a key that lives as long.
LEMMA TurnCache ==
  ASSUME AccessTTL >= AccessLife, IInv, InTurn, NEW p \in Reqs, CacheAccess(p)
  PROVE  InTurn'
<1> DEFINE f == frame[p]
           key == [ns |-> f.ns, tok |-> f.acc, exp |-> now + AccessTTL]
<1>1. /\ f.pc = "cacheA" /\ p \in InFlight /\ UNCHANGED <<now, given, revoked>>
      /\ frame \in [Reqs -> Frame] /\ f \in Frame
  BY DEF CacheAccess, At, InFlight, history, IInv, TypeOK
<1>2. /\ TurnOK(f, now, given, revoked, accessCache) /\ InFlight \subseteq {p}
      /\ Findable(given, now, revoked, accessCache)
  BY <1>1 DEF InTurn, OneAtATime
<1>3. f.acc \in Jwt /\ f.acc.iat <= now /\ now \in Nat /\ f.acc.iat \in Nat
  BY <1>1, FrameFacts DEF FrameOK, LoginOK, RefreshOK, ValidateOK, SignedFor, IInv, TypeOK, Jwt
<1>4. accessCache' = {x \in accessCache : ~(x.ns = f.ns /\ x.tok = f.acc)} \cup {key}
  BY DEF CacheAccess, Put, SameAccess
<1>5. key.ns = f.ns /\ key.tok = f.acc /\ key.exp >= f.acc.iat + AccessLife
  BY <1>3, TimeAssumption
<1>6. PICK pc \in {"ok", "cacheR"} : Goto(p, pc)
  BY DEF CacheAccess
<1> DEFINE g == [f EXCEPT !.pc = pc]
<1>7. /\ frame' = [frame EXCEPT ![p] = g] /\ g.pc = pc /\ g.op = f.op /\ g.user = f.user
      /\ g.ns = f.ns /\ g.acc = f.acc
  BY <1>1, <1>6 DEF Goto, Frame
<1> HIDE DEF g, f, key
<1>8. Keyed(f.ns, f.acc, accessCache')
  BY <1>4, <1>5 DEF Keyed
<1>9. Findable(given', now', revoked', accessCache')
  BY <1>1, <1>2, <1>4, <1>8 DEF Findable, Keyed
<1>10. TurnOK(g, now', given', revoked', accessCache')
  BY <1>1, <1>2, <1>7, <1>8 DEF TurnOK, EarlyPcs
<1> QED BY <1>1, <1>2, <1>7, <1>9, <1>10, TurnSet

\* A reply hands out a token that has its key.
LEMMA TurnReply ==
  ASSUME IInv, InTurn, NEW p \in Reqs, Reply(p)
  PROVE  InTurn'
<1> DEFINE f == frame[p]
<1>1. /\ f.pc = "ok" /\ p \in InFlight /\ UNCHANGED <<now, revoked, accessCache>>
      /\ frame \in [Reqs -> Frame]
      /\ given' = IF f.op = "validate" THEN given ELSE given \cup {[ns |-> f.ns, tok |-> f.acc]}
  BY DEF Reply, At, InFlight, store, IInv, TypeOK
<1>2. /\ TurnOK(f, now, given, revoked, accessCache) /\ InFlight \subseteq {p}
      /\ Findable(given, now, revoked, accessCache)
  BY <1>1 DEF InTurn, OneAtATime
<1>3. frame' = [frame EXCEPT ![p] = Done] /\ Done.pc = "done"
  BY DEF Reply, Drop, Done, NewFrame
<1> HIDE DEF f
<1>4. Findable(given', now', revoked', accessCache')
  BY <1>1, <1>2 DEF Findable, TurnOK
<1> QED BY <1>1, <1>2, <1>3, <1>4, TurnSet

\* A key outlives its token, so that Redis forgets no live one.
LEMMA TurnTick ==
  ASSUME IInv, InTurn, Tick
  PROVE  InTurn'
<1>1. /\ now' = now + 1 /\ UNCHANGED <<given, revoked, frame>> /\ now \in Nat
      /\ accessCache' = {e \in accessCache : e.exp > now + 1}
  BY DEF Tick, history, IInv, TypeOK
<1>2. ASSUME NEW t \in Jwt, Live(t, now') PROVE Live(t, now)
  BY <1>1, <1>2, TimeAssumption DEF Live, Jwt
<1>3. ASSUME NEW ns, NEW t \in Jwt, Live(t, now'), Keyed(ns, t, accessCache)
      PROVE  Keyed(ns, t, accessCache')
  BY <1>1, <1>3, TimeAssumption DEF Keyed, Live, Jwt, IInv, TypeOK, AccessKey
<1>4. \A k \in given : k.tok \in Jwt
  BY DEF IInv, TypeOK
<1>5. Findable(given', now', revoked', accessCache')
  BY <1>1, <1>2, <1>3, <1>4 DEF InTurn, OneAtATime, Findable
<1>6. ASSUME NEW p \in InFlight
      PROVE  TurnOK(frame[p], now', given', revoked', accessCache')
  <2>1. TurnOK(frame[p], now, given, revoked, accessCache) /\ p \in Reqs
    BY DEF InTurn, OneAtATime, InFlight
  <2>2. frame[p].op # "validate" /\ frame[p].pc \in {"cacheR", "ok"} => frame[p].acc \in Jwt
    BY <2>1, FrameFacts DEF InFlight, FrameOK, LoginOK, RefreshOK, RefreshPcs, SignedFor
  <2> QED BY <1>1, <1>2, <1>3, <1>4, <2>1, <2>2 DEF TurnOK
<1> QED BY <1>1, <1>5, <1>6 DEF InTurn, OneAtATime, InFlight

\* With requests that do not overlap, and keys that live as long as the tokens,
\* AuthService.login leaves no live access token that was handed to the user in
\* the login's own namespace off that namespace's blacklist when it answers,
\* whatever calls fail and keys expire before.  It says nothing of tokens that
\* were refreshed under another X-Tenant-ID.
THEOREM LoginsRevokeEarlier ==
  ASSUME MaxInFlight = 1, AccessTTL >= AccessLife
  PROVE  Spec => []LoginRevokesEarlier
<1>1. Init => InTurn
  BY DEF Init, InTurn, OneAtATime, InFlight, Findable, Blank, NewFrame
<1>2. IInv /\ InTurn /\ [Next]_vars => InTurn'
  <2> SUFFICES ASSUME IInv, InTurn, [Next]_vars PROVE InTurn'
    OBVIOUS
  <2>1. CASE UNCHANGED vars
    BY <2>1 DEF vars, store, history, InTurn, OneAtATime, InFlight
  <2>2. ASSUME NEW p \in Reqs, Arrive(p) \/ Settle(p) PROVE InTurn'
    BY <2>2, TurnArrive, TurnWalk, TurnScan, TurnBlack, TurnDelete, TurnCache, TurnReply
  <2> QED BY <2>1, <2>2, TurnTick DEF Next
<1>3. IInv /\ InTurn => LoginRevokesEarlier
  <2> SUFFICES ASSUME IInv, InTurn, NEW p \in Reqs, At(p, "ok"), frame[p].op = "login",
                      NEW g \in given, g.ns = frame[p].ns, g.tok.user = frame[p].user,
                      Live(g.tok, now)
               PROVE  Cached(blacklist, g.ns, g.tok)
    BY DEF LoginRevokesEarlier
  <2>1. <<g.ns, g.tok>> \in revoked
    BY DEF InTurn, OneAtATime, TurnOK, InFlight, At, EarlyPcs
  <2>2. PICK e \in blacklist : e.ns = g.ns /\ e.tok = g.tok
    BY <2>1 DEF IInv, BlacklistHolds
  <2> QED BY <2>2 DEF Cached
<1> QED BY <1>1, <1>2, <1>3, Inductive, PTL DEF Spec

-----------------------------------------------------------------------------
(* The refresh tokens a login leaves.                                      *)

\* A login that has invalidated the rows of its user has none but its own,
\* and one that has cleared the refresh keys has none but its own.
ClosedOK(p) ==
  LET f == frame[p]
      valid == ValidRowsOf(f.user, f.ns)
      keys == RefreshKeysOf(f.ns, f.user)
  IN f.op = "login" =>
       /\ f.pc \in {"scan", "black", "clrA", "delA", "clrR", "delR", "sign", "create"} =>
            valid = {}
       /\ f.pc \in {"cacheA", "cacheR", "ok"} => valid \subseteq {f.ref}
       /\ f.pc = "delR" => keys \subseteq f.todo
       /\ f.pc \in {"sign", "create", "cacheA", "cacheR"} => keys = {}
       /\ f.pc = "ok" => keys \subseteq {f.ref}

Closed == OneAtATime /\ \A p \in InFlight : ClosedOK(p)

\* A request moves its own frame only.
LEMMA OwnFrame ==
  ASSUME IInv, NEW p \in Reqs, Settle(p)
  PROVE  p \in InFlight /\ \A q \in Reqs \ {p} : frame'[q] = frame[q]
<1> frame \in [Reqs -> Frame]
  BY DEF IInv, TypeOK
<1>1. CASE LoginStep(p)
  BY <1>1 DEF LoginStep, MarkVerified, InvalidateRefresh, ScanAccess, BlacklistKey,
     ScanClearAccess, DeleteAccess, ScanClearRefresh, DeleteRefresh, RefuseTwoFactor,
     SignLogin, SignRefresh, CreateRow, CacheAccess, CacheRefresh, At, InFlight, Goto, Drop
<1>2. CASE ~LoginStep(p)
  BY <1>2 DEF Settle, RefreshStep, GetRefresh, FindRefresh, TheftInvalidate, TheftDeny,
     NotifySecurityTeam, ValidateStep, GetBlacklist, GetAccess, FindUser,
     UpdateTrustedDevice, Reply, Fail, At, InFlight, Goto, Drop
<1> QED BY <1>1, <1>2

\* A refresh or a validation never turns into a login.
LEMMA NoLogin ==
  ASSUME IInv, NEW p \in Reqs, Settle(p), frame[p].op # "login"
  PROVE  frame'[p].op # "login"
<1> frame \in [Reqs -> Frame] /\ frame[p] \in Frame
  BY DEF IInv, TypeOK
<1>1. CASE LoginStep(p)
  <2>1. CASE MarkVerified(p) \/ InvalidateRefresh(p) \/ CacheAccess(p) \/ CacheRefresh(p)
    BY <2>1 DEF MarkVerified, InvalidateRefresh, CacheAccess, CacheRefresh, Goto, Frame
  <2>2. CASE ScanAccess(p) \/ ScanClearAccess(p) \/ ScanClearRefresh(p)
    BY <2>2 DEF ScanAccess, ScanClearAccess, ScanClearRefresh, Frame
  <2>3. CASE BlacklistKey(p) \/ DeleteAccess(p) \/ DeleteRefresh(p)
    <3>1. PICK t, pc : frame' = [frame EXCEPT ![p].todo = @ \ {t}, ![p].pc = pc]
      BY <2>3 DEF BlacklistKey, DeleteAccess, DeleteRefresh
    <3> QED BY <3>1 DEF Frame
  <2>4. CASE RefuseTwoFactor(p) \/ SignLogin(p) \/ SignRefresh(p) \/ CreateRow(p)
    BY <2>4 DEF RefuseTwoFactor, SignLogin, SignRefresh, CreateRow, Frame
  <2> QED BY <1>1, <2>1, <2>2, <2>3, <2>4 DEF LoginStep
<1>2. CASE ~LoginStep(p)
  BY <1>2 DEF Settle, RefreshStep, GetRefresh, FindRefresh, TheftInvalidate, TheftDeny,
     NotifySecurityTeam, ValidateStep, GetBlacklist, GetAccess, FindUser,
     UpdateTrustedDevice, Reply, Fail, Goto, Drop, Done, NewFrame, Frame
<1> QED BY <1>1, <1>2

\* The step of the only request has to restore its own part alone.
LEMMA ClosedSet ==
  ASSUME NEW p \in Reqs, InFlight \subseteq {p}, \A q \in Reqs \ {p} : frame'[q] = frame[q],
         frame'[p].pc # "done" => ClosedOK(p)'
  PROVE  Closed'
<1>1. InFlight' \subseteq {p} /\ (p \in InFlight' => frame'[p].pc # "done")
  BY DEF InFlight
<1>2. OneAtATime'
  BY <1>1 DEF OneAtATime
<1>3. \A q \in InFlight' : ClosedOK(q)'
  BY <1>1
<1> QED BY <1>2, <1>3 DEF Closed

\* A login that arrives has nothing to answer for yet.
LEMMA ClosedArrive ==
  ASSUME MaxInFlight = 1, IInv, Closed, NEW p \in Reqs, Arrive(p)
  PROVE  Closed'
<1>1. Cardinality(InFlight) < MaxInFlight
  BY DEF Arrive, LoginUser, LoginKnown, VerifyUserEmail, RefreshAccess, Validate, Request
<1>2. InFlight = {} /\ frame \in [Reqs -> Frame]
  BY <1>1, LoneArrival DEF Closed, IInv, TypeOK
<1>3. ASSUME NEW g, frame' = [frame EXCEPT ![p] = g],
             g.pc \in {"pre", "inval", "mark", "getR", "getB"}
      PROVE  Closed'
  <2>1. frame'[p] = g /\ \A q \in Reqs \ {p} : frame'[q] = frame[q]
    BY <1>2, <1>3
  <2>2. ClosedOK(p)'
    BY <1>3, <2>1 DEF ClosedOK
  <2> QED BY <1>2, <2>1, <2>2, ClosedSet
<1>4. CASE LoginUser(p) \/ LoginKnown(p) \/ VerifyUserEmail(p)
  <2>1. PICK u \in Users, n \in Ns, ip \in Ips, pc \in {"pre", "inval", "mark"} :
          frame' = [frame EXCEPT ![p] = LoginFrame(u, n, ip, pc)]
    BY <1>4, HomeAssumption DEF LoginUser, LoginKnown, VerifyUserEmail, Request, Ns
  <2>2. LoginFrame(u, n, ip, pc).pc = pc
    BY DEF LoginFrame, NewFrame
  <2> QED BY <1>3, <2>1, <2>2
<1>5. ASSUME NEW op, NEW pc \in {"getR", "getB"}, NEW u, NEW n, NEW ip, NEW a, NEW r, NEW w,
             Request(p, NewFrame(op, pc, u, n, ip, a, r, w))
      PROVE  Closed'
  BY <1>3, <1>5 DEF Request, NewFrame
<1>6. CASE RefreshAccess(p) \/ Validate(p)
  BY <1>5, <1>6 DEF RefreshAccess, Validate
<1> QED BY <1>4, <1>6 DEF Arrive

\* Rows and refresh keys as they were: what was closed is still closed.
LEMMA ClosedWalk ==
  ASSUME NEW p \in Reqs, ClosedOK(p), rows' = rows, refreshCache' = refreshCache,
         frame'[p].op = frame[p].op, frame'[p].user = frame[p].user,
         frame'[p].ns = frame[p].ns,
         \/ frame'[p].pc \in {"mark", "pre", "inval"}
         \/ /\ frame[p].pc \in {"scan", "black", "clrA", "delA"}
            /\ frame'[p].pc \in {"black", "clrA", "delA", "clrR"}
         \/ frame[p].pc = "sign" /\ frame'[p].pc = "create"
         \/ /\ frame[p].pc = "cacheA" /\ frame'[p].pc \in {"cacheR", "ok"}
            /\ frame'[p].ref = frame[p].ref
  PROVE  ClosedOK(p)'
<1> DEFINE u == frame[p].user
           n == frame[p].ns
<1>1. /\ ValidRowsOf(frame[p].user, frame[p].ns)' = ValidRowsOf(u, n)
      /\ RefreshKeysOf(frame[p].ns, frame[p].user)' = RefreshKeysOf(n, u)
  BY DEF ValidRowsOf, RefreshKeysOf
<1> QED BY <1>1 DEF ClosedOK

\* updateMany leaves the user without a valid row.
LEMMA ClosedInvalidate ==
  ASSUME IInv, NEW p \in Reqs, frame[p].op = "login", InvalidateRefresh(p)
  PROVE  ClosedOK(p)'
<1> PICK u, n : u = frame[p].user /\ n = frame[p].ns
  OBVIOUS
<1> DEFINE pc == IF At(p, "pre") THEN "inval" ELSE "scan"
<1>1. /\ frame \in [Reqs -> Frame] /\ frame[p] \in Frame
      /\ rows \in [RefreshTokens -> Row \cup {None}] /\ rows' = Invalidated(u, n)
      /\ frame' = [frame EXCEPT ![p].pc = pc] /\ pc \in {"inval", "scan"}
  BY DEF IInv, TypeOK, InvalidateRefresh, Goto
<1>2. frame'[p].user = u /\ frame'[p].ns = n /\ frame'[p].pc \in {"inval", "scan"}
  BY <1>1 DEF Frame
<1>3. ValidRowsOf(u, n)' = {}
  BY <1>1 DEF ValidRowsOf, Invalidated, Row
<1> QED BY <1>2, <1>3 DEF ClosedOK

\* The SCAN of the refresh keys misses none, and each key it found is deleted.
LEMMA ClosedClear ==
  ASSUME IInv, NEW p \in Reqs, ClosedOK(p), frame[p].op = "login",
         ScanClearRefresh(p) \/ DeleteRefresh(p)
  PROVE  ClosedOK(p)'
<1> DEFINE f == frame[p]
<1> PICK u, n : u = f.user /\ n = f.ns
  OBVIOUS
<1>1. /\ frame \in [Reqs -> Frame] /\ f \in Frame /\ rows' = rows
      /\ f.pc \in {"clrR", "delR"} /\ ValidRowsOf(u, n) = {}
      /\ f.pc = "delR" => RefreshKeysOf(n, u) \subseteq f.todo
  BY DEF IInv, TypeOK, ScanClearRefresh, DeleteRefresh, At, store, ClosedOK
<1>2. ASSUME NEW S, NEW pc \in {"sign", "delR"}, pc = "sign" => S = {},
             frame' = [frame EXCEPT ![p].todo = S, ![p].pc = pc],
             RefreshKeysOf(n, u)' \subseteq S
      PROVE  ClosedOK(p)'
  <2>1. frame'[p].user = u /\ frame'[p].ns = n /\ frame'[p].pc = pc /\ frame'[p].todo = S
    BY <1>1, <1>2 DEF Frame
  <2>2. ValidRowsOf(u, n)' = {}
    BY <1>1 DEF ValidRowsOf
  <2> QED BY <1>2, <2>1, <2>2 DEF ClosedOK
<1>3. CASE ScanClearRefresh(p)
  <2> DEFINE pc == IF RefreshKeysOf(n, u) = {} THEN "sign" ELSE "delR"
  <2>1. /\ frame' = [frame EXCEPT ![p].todo = RefreshKeysOf(n, u), ![p].pc = pc]
        /\ refreshCache' = refreshCache
    BY <1>3 DEF ScanClearRefresh, store
  <2>2. RefreshKeysOf(n, u)' = RefreshKeysOf(n, u)
    BY <2>1 DEF RefreshKeysOf
  <2>3. pc \in {"sign", "delR"} /\ (pc = "sign" => RefreshKeysOf(n, u) = {})
    OBVIOUS
  <2> HIDE DEF pc, f
  <2> QED BY <1>2, <2>1, <2>2, <2>3
<1>4. CASE DeleteRefresh(p)
  <2>1. PICK r \in f.todo :
          /\ refreshCache' = {e \in refreshCache : ~(e.ns = n /\ e.user = u /\ e.ref = r)}
          /\ frame' = [frame EXCEPT ![p].todo = f.todo \ {r},
                                    ![p].pc = IF f.todo = {r} THEN "sign" ELSE "delR"]
    BY <1>1, <1>4 DEF DeleteRefresh
  <2>2. RefreshKeysOf(n, u)' \subseteq f.todo \ {r}
    <3>1. RefreshKeysOf(n, u) \subseteq f.todo
      BY <1>1, <1>4 DEF DeleteRefresh, At
    <3>2. RefreshKeysOf(n, u)' \subseteq RefreshKeysOf(n, u) /\ r \notin RefreshKeysOf(n, u)'
      BY <2>1 DEF RefreshKeysOf
    <3> QED BY <3>1, <3>2
  <2> DEFINE pc == IF f.todo = {r} THEN "sign" ELSE "delR"
             S == f.todo \ {r}
  <2>3. /\ pc \in {"sign", "delR"} /\ (pc = "sign" => S = {}) /\ RefreshKeysOf(n, u)' \subseteq S
        /\ frame' = [frame EXCEPT ![p].todo = S, ![p].pc = pc]
    BY <2>1, <2>2
  <2> HIDE DEF pc, S, f
  <2> QED BY <1>2, <2>3
<1> QED BY <1>3, <1>4

\* The row the login creates is its own, and so is the key it caches.
LEMMA ClosedOpen ==
  ASSUME IInv, NEW p \in Reqs, ClosedOK(p), frame[p].op = "login",
         CreateRow(p) \/ CacheRefresh(p)
  PROVE  ClosedOK(p)'
<1> DEFINE f == frame[p]
<1> PICK u, n : u = f.user /\ n = f.ns
  OBVIOUS
<1>1. /\ frame \in [Reqs -> Frame] /\ f \in Frame
      /\ rows \in [RefreshTokens -> Row \cup {None}] /\ refreshCache \subseteq RefreshKey
  BY DEF IInv, TypeOK
<1>2. CASE CreateRow(p)
  <2>1. PICK r, row :
          /\ r \in RefreshTokens
          /\ rows' = [rows EXCEPT ![r] = row]
          /\ frame' = [frame EXCEPT ![p].pc = "cacheA", ![p].ref = r]
    BY <1>2 DEF CreateRow
  <2>2. /\ frame'[p].user = u /\ frame'[p].ns = n /\ frame'[p].pc = "cacheA"
        /\ frame'[p].ref = r
    BY <1>1, <2>1 DEF Frame
  <2>3. ValidRowsOf(u, n) = {} /\ RefreshKeysOf(n, u) = {} /\ refreshCache' = refreshCache
    BY <1>2 DEF CreateRow, At, ClosedOK
  <2>4. ValidRowsOf(u, n)' \subseteq {r} /\ RefreshKeysOf(n, u)' = {}
    BY <1>1, <2>1, <2>3 DEF ValidRowsOf, RefreshKeysOf
  <2> QED BY <2>2, <2>4 DEF ClosedOK
<1>3. CASE CacheRefresh(p)
  <2> DEFINE key == [ns |-> n, user |-> u, ref |-> f.ref, ip |-> f.ip, exp |-> now + RefreshTTL]
  <2>1. /\ rows' = rows /\ refreshCache' \subseteq refreshCache \cup {key}
        /\ frame' = [frame EXCEPT ![p].pc = "ok"] /\ f.pc = "cacheR"
    BY <1>3 DEF CacheRefresh, Put, Goto, At
  <2>2. /\ frame'[p].user = u /\ frame'[p].ns = n /\ frame'[p].pc = "ok"
        /\ frame'[p].ref = f.ref
    BY <1>1, <2>1 DEF Frame
  <2>3. ValidRowsOf(u, n) \subseteq {f.ref} /\ RefreshKeysOf(n, u) = {}
    BY <2>1 DEF ClosedOK
  <2>4. key.ref = f.ref
    OBVIOUS
  <2> HIDE DEF key, f
  <2>5. ValidRowsOf(u, n)' \subseteq {f.ref} /\ RefreshKeysOf(n, u)' \subseteq {f.ref}
    BY <2>1, <2>3, <2>4 DEF ValidRowsOf, RefreshKeysOf
  <2> QED BY <2>2, <2>5 DEF ClosedOK, f
<1> QED BY <1>2, <1>3

\* Every step of a login keeps what it has closed, or ends it.
LEMMA ClosedLogin ==
  ASSUME IInv, NEW p \in Reqs, ClosedOK(p), Settle(p), frame[p].op = "login"
  PROVE  frame'[p].pc = "done" \/ ClosedOK(p)'
<1> DEFINE f == frame[p]
<1>1. frame \in [Reqs -> Frame] /\ f \in Frame /\ p \in InFlight
  BY OwnFrame DEF IInv, TypeOK
<1>2. f.pc \in LoginPcs
  BY <1>1, FrameFacts DEF FrameOK, LoginOK, InFlight
<1>3. CASE Drop(p)
  BY <1>1, <1>3 DEF Drop, Done, NewFrame
<1>4. ASSUME rows' = rows, refreshCache' = refreshCache, NEW S, NEW pc,
             frame' = [frame EXCEPT ![p].todo = S, ![p].pc = pc],
             f.pc \in {"scan", "black", "clrA", "delA"}, pc \in {"black", "clrA", "delA", "clrR"}
      PROVE  ClosedOK(p)'
  <2>1. /\ frame'[p].op = f.op /\ frame'[p].user = f.user /\ frame'[p].ns = f.ns
        /\ frame'[p].pc = pc
    BY <1>1, <1>4 DEF Frame
  <2> QED BY <1>4, <2>1, ClosedWalk
<1>5. CASE ScanAccess(p) \/ ScanClearAccess(p)
  BY <1>4, <1>5 DEF ScanAccess, ScanClearAccess, AfterBlack, At, store
<1>6. CASE BlacklistKey(p) \/ DeleteAccess(p)
  <2>1. PICK t, pc : frame' = [frame EXCEPT ![p].todo = @ \ {t}, ![p].pc = pc]
    BY <1>6 DEF BlacklistKey, DeleteAccess
  <2>2. /\ frame'[p].op = f.op /\ frame'[p].user = f.user /\ frame'[p].ns = f.ns
        /\ frame'[p].pc = pc
    BY <1>1, <2>1 DEF Frame
  <2>3. CASE BlacklistKey(p)
    <3>1. frame'[p].pc \in {"black", "clrA"}
      BY <1>1, <2>3 DEF BlacklistKey, AfterBlack, Frame
    <3> QED BY <2>2, <2>3, <3>1, ClosedWalk DEF BlacklistKey, At
  <2>4. CASE DeleteAccess(p)
    <3>1. frame'[p].pc \in {"delA", "clrR"}
      BY <1>1, <2>4 DEF DeleteAccess, Frame
    <3> QED BY <2>2, <2>4, <3>1, ClosedWalk DEF DeleteAccess, At
  <2> QED BY <1>6, <2>3, <2>4
<1>7. CASE MarkVerified(p) \/ SignLogin(p) \/ CacheAccess(p)
  <2>1. CASE MarkVerified(p)
    <3>1. /\ frame'[p].op = f.op /\ frame'[p].user = f.user /\ frame'[p].ns = f.ns
          /\ frame'[p].pc = "inval"
      BY <1>1, <2>1 DEF MarkVerified, Goto, Frame
    <3> QED BY <2>1, <3>1, ClosedWalk DEF MarkVerified
  <2>2. CASE SignLogin(p)
    <3>1. /\ frame'[p].op = f.op /\ frame'[p].user = f.user /\ frame'[p].ns = f.ns
          /\ frame'[p].pc = "create"
      BY <1>1, <2>2 DEF SignLogin, Frame
    <3> QED BY <2>2, <3>1, ClosedWalk DEF SignLogin, At, store
  <2>3. CASE CacheAccess(p)
    <3>1. PICK pc \in {"ok", "cacheR"} : Goto(p, pc)
      BY <2>3 DEF CacheAccess
    <3>2. /\ frame'[p].op = f.op /\ frame'[p].user = f.user /\ frame'[p].ns = f.ns
          /\ frame'[p].pc = pc /\ frame'[p].ref = f.ref
      BY <1>1, <3>1 DEF Goto, Frame
    <3> QED BY <2>3, <3>2, ClosedWalk DEF CacheAccess, At
  <2> QED BY <1>7, <2>1, <2>2, <2>3
<1>8. CASE InvalidateRefresh(p) \/ ScanClearRefresh(p) \/ DeleteRefresh(p) \/ CreateRow(p)
           \/ CacheRefresh(p)
  BY <1>8, ClosedInvalidate, ClosedClear, ClosedOpen
<1>9. ~SignRefresh(p) /\ ~RefreshStep(p) /\ ~ValidateStep(p)
  BY <1>2 DEF SignRefresh, RefreshStep, ValidateStep, GetRefresh, FindRefresh, TheftInvalidate,
     TheftDeny, NotifySecurityTeam, GetBlacklist, GetAccess, FindUser, UpdateTrustedDevice, At,
     LoginPcs
<1>10. CASE RefuseTwoFactor(p) \/ Reply(p) \/ Fail(p)
  BY <1>3, <1>10 DEF RefuseTwoFactor, Reply, Fail
<1> QED BY <1>5, <1>6, <1>7, <1>8, <1>9, <1>10 DEF Settle, LoginStep

\* Redis may forget keys, and never finds one again.
LEMMA ClosedTick ==
  ASSUME Closed, Tick
  PROVE  Closed'
<1>1. frame' = frame /\ rows' = rows /\ refreshCache' \subseteq refreshCache
  BY DEF Tick
<1>2. \A u, n : ValidRowsOf(u, n)' = ValidRowsOf(u, n)
  BY <1>1 DEF ValidRowsOf
<1>3. \A u, n : RefreshKeysOf(n, u)' \subseteq RefreshKeysOf(n, u)
  BY <1>1 DEF RefreshKeysOf
<1>4. InFlight' = InFlight /\ OneAtATime'
  BY <1>1 DEF InFlight, Closed, OneAtATime
<1>5. ASSUME NEW p, ClosedOK(p) PROVE ClosedOK(p)'
  BY <1>1, <1>2, <1>3, <1>5 DEF ClosedOK
<1> QED BY <1>4, <1>5 DEF Closed

\* With requests that do not overlap, AuthService.login answers with the only
\* refresh token of its user that is still good in the table or among the Redis
\* keys of the login's own namespace, whatever logins, refreshes, validations,
\* failures and expiries came before.  A copy that a validation cached under
\* another X-Tenant-ID is outside it.
THEOREM LoginsLeaveOneSession ==
  ASSUME MaxInFlight = 1
  PROVE  Spec => []LoginLeavesOneSession
<1>1. Init => Closed
  BY DEF Init, Closed, OneAtATime, InFlight, Blank, NewFrame
<1>2. IInv /\ Closed /\ [Next]_vars => Closed'
  <2> SUFFICES ASSUME IInv, Closed, [Next]_vars PROVE Closed'
    OBVIOUS
  <2>1. CASE UNCHANGED vars
    BY <2>1 DEF vars, store, Closed, OneAtATime, InFlight, ClosedOK, ValidRowsOf, RefreshKeysOf
  <2>2. ASSUME NEW p \in Reqs, Settle(p) PROVE Closed'
    <3>1. p \in InFlight /\ \A q \in Reqs \ {p} : frame'[q] = frame[q]
      BY <2>2, OwnFrame
    <3>2. InFlight \subseteq {p} /\ ClosedOK(p)
      BY <3>1 DEF Closed, OneAtATime
    <3>3. frame'[p].pc # "done" => ClosedOK(p)'
      <4>1. CASE frame[p].op = "login"
        BY <2>2, <3>2, <4>1, ClosedLogin
      <4>2. CASE frame[p].op # "login"
        <5>1. frame'[p].op # "login"
          BY <2>2, <4>2, NoLogin
        <5> QED BY <5>1 DEF ClosedOK
      <4> QED BY <4>1, <4>2
    <3> QED BY <3>1, <3>2, <3>3, ClosedSet
  <2> QED BY <2>1, <2>2, ClosedArrive, ClosedTick DEF Next
<1>3. Closed => LoginLeavesOneSession
  BY DEF Closed, ClosedOK, LoginLeavesOneSession, At, InFlight
<1> QED BY <1>1, <1>2, <1>3, Inductive, PTL DEF Spec
=============================================================================
