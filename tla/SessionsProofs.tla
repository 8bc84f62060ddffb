--------------------------- MODULE SessionsProofs ---------------------------
(***************************************************************************)
(* Proofs about Sessions, for any number of users, tenants, requests in    *)
(* flight and tokens, and any lifetimes with BlackTTL >= AccessLife.       *)
(***************************************************************************)
EXTENDS Sessions, FiniteSetTheorems, TLAPS

-----------------------------------------------------------------------------
(* The strengthening that makes TypeOK, RevokedTokenRefused,               *)
(* TenantIsolation and RefreshGrantOwner inductive.                        *)

\* A tenant's user is served in its own namespace only.
Local(u, ns) == Home[u] # Root => ns = Home[u]

\* Refresh token r has a row of user u in table tab.
Owned(r, u, tab) == r \in RefreshTokens /\ tab[r] # None /\ tab[r].user = u

\* A refresh of user u on token ref, or on no token, redeems a row of u's.
Redeemed(ref, u, tab) == \E r \in RefreshTokens : Owned(r, u, tab) /\ ref \in {r, None}

\* An access token of user u that was signed in the past.
SignedFor(t, u, time) == t \in Jwt /\ t.user = u /\ t.iat <= time

LoginPcs == {"mark", "pre", "inval", "scan", "black", "clrA", "delA", "clrR", "delR",
             "sign", "create", "cacheA", "cacheR", "ok"}
RefreshPcs == {"getR", "findR", "theft", "deny", "notify", "sign", "scan", "black",
               "cacheA", "ok"}
ValidatePcs == {"getB", "getA", "findU", "cacheA", "cacheR", "ok"}

\* What a login, a refresh and a validation have established at each await.
LoginOK(f, time, tab) ==
  /\ f.pc \in LoginPcs
  /\ f.ns = Home[f.user]
  /\ f.pc \in {"create", "cacheA", "cacheR", "ok"} => SignedFor(f.acc, f.user, time)
  /\ f.pc \in {"cacheA", "cacheR", "ok"} => Owned(f.ref, f.user, tab)

RefreshOK(f, time, tab) ==
  /\ f.pc \in RefreshPcs
  /\ f.ref # None => tab[f.ref] # None
  /\ f.pc \notin {"getR", "findR"} => Redeemed(f.ref, f.user, tab) /\ Local(f.user, f.ns)
  /\ f.pc \in {"scan", "black", "cacheA", "ok"} => SignedFor(f.acc, f.user, time)

ValidateOK(f, time, tab) ==
  /\ f.pc \in ValidatePcs
  /\ SignedFor(f.acc, f.user, time)
  /\ f.pc \in {"cacheA", "cacheR", "ok"} => Local(f.user, f.ns)
  /\ f.ref # None => Owned(f.ref, f.user, tab)
  /\ f.pc = "cacheR" => f.ref # None

FrameOK(f, time, tab) ==
  /\ f.user \in Users /\ f.ns \in Ns /\ f.ip \in Ips
  /\ \/ f.op = "login" /\ LoginOK(f, time, tab)
     \/ f.op = "refresh" /\ RefreshOK(f, time, tab)
     \/ f.op = "validate" /\ ValidateOK(f, time, tab)
  /\ f.pc \in {"black", "delA"} => \A t \in f.todo : SignedFor(t, f.user, time)

FramesOK == \A p \in InFlight : FrameOK(frame[p], now, rows)

KeysOK ==
  /\ \A e \in accessCache : Local(e.tok.user, e.ns) /\ e.tok.iat <= now
  /\ \A e \in refreshCache : Owned(e.ref, e.user, rows) /\ Local(e.user, e.ns)
  /\ \A r \in handed : rows[r] # None
  /\ \A g \in given : g.tok.iat <= now

\* A revoked token that is still alive is on the blacklist until it dies.
BlacklistHolds ==
  \A k \in revoked :
    Live(k[2], now) =>
      \E e \in blacklist : e.ns = k[1] /\ e.tok = k[2] /\ e.exp >= k[2].iat + AccessLife

\* Past the blacklist lookup, a token revoked before the request arrived has
\* expired.
RefusalOK(f, time, rev) ==
  f.op = "validate" /\ "revoked" \in f.was =>
    /\ <<f.ns, f.acc>> \in rev
    /\ f.pc # "getB" => ~Live(f.acc, time)

RefusalHolds == \A p \in InFlight : RefusalOK(frame[p], now, revoked)

IInv == TypeOK /\ FramesOK /\ KeysOK /\ BlacklistHolds /\ RefusalHolds

-----------------------------------------------------------------------------
\* The part of TypeOK that is not about the requests.
StoreOK ==
  /\ now \in Nat
  /\ rows \in [RefreshTokens -> Row \cup {None}]
  /\ accessCache \subseteq AccessKey
  /\ refreshCache \subseteq RefreshKey
  /\ blacklist \subseteq AccessKey
  /\ denied \subseteq Ips
  /\ verified \subseteq Users
  /\ alerted \subseteq Users
  /\ given \subseteq [ns : Ns, tok : Jwt]
  /\ handed \subseteq RefreshTokens
  /\ revoked \subseteq (Ns \X Jwt)

Quiet == UNCHANGED <<now, store, history>>

\* Rows are never deleted and never change their user.
RowsKept(R1, R2) ==
  \A r \in RefreshTokens : R1[r] # None => R2[r] # None /\ R2[r].user = R1[r].user

\* TypeOK is the typing of the store and that of the requests.
LEMMA TypeParts == TypeOK <=> StoreOK /\ frame \in [Reqs -> Frame]
  BY DEF TypeOK, StoreOK

\* What a request has established stays true while others move.
LEMMA FrameStable ==
  ASSUME NEW f \in Frame, NEW t1 \in Nat, NEW t2 \in Nat, t1 <= t2,
         NEW R1, NEW R2, RowsKept(R1, R2), FrameOK(f, t1, R1)
  PROVE  FrameOK(f, t2, R2)
<1>1. ASSUME NEW t, NEW u, SignedFor(t, u, t1) PROVE SignedFor(t, u, t2)
  BY <1>1 DEF SignedFor, Jwt
<1>2. ASSUME NEW r, NEW u, Owned(r, u, R1) PROVE Owned(r, u, R2)
  BY <1>2 DEF Owned, RowsKept
<1>3. LoginOK(f, t1, R1) => LoginOK(f, t2, R2)
  BY <1>1, <1>2 DEF LoginOK
<1>4. RefreshOK(f, t1, R1) => RefreshOK(f, t2, R2)
  <2>1. f.ref # None => f.ref \in RefreshTokens
    BY DEF Frame
  <2>2. ASSUME NEW ref, NEW u, Redeemed(ref, u, R1) PROVE Redeemed(ref, u, R2)
    BY <1>2, <2>2 DEF Redeemed
  <2> QED BY <1>1, <2>1, <2>2 DEF RefreshOK, RowsKept
<1>5. ValidateOK(f, t1, R1) => ValidateOK(f, t2, R2)
  BY <1>1, <1>2 DEF ValidateOK
<1> QED BY <1>1, <1>3, <1>4, <1>5 DEF FrameOK

\* A validation that would refuse a revoked token still does later.
LEMMA RefusalStable ==
  ASSUME NEW f \in Frame, NEW t1 \in Nat, NEW t2 \in Nat, t1 <= t2,
         NEW V1, NEW V2, V1 \subseteq V2, RefusalOK(f, t1, V1),
         f.op = "validate" => f.acc \in Jwt
  PROVE  RefusalOK(f, t2, V2)
  BY TimeAssumption DEF RefusalOK, Live, Jwt

\* A step of request p is judged by the frame it leaves p in.
LEMMA Moves ==
  ASSUME IInv, NEW p \in Reqs, NEW g \in Frame,
         frame' = [frame EXCEPT ![p] = g],
         now' \in Nat, now <= now', RowsKept(rows, rows'), revoked \subseteq revoked',
         g.pc \notin {"new", "done"} =>
           FrameOK(g, now', rows') /\ RefusalOK(g, now', revoked')
  PROVE  frame' \in [Reqs -> Frame] /\ FramesOK' /\ RefusalHolds'
<1>1. frame \in [Reqs -> Frame] /\ now \in Nat
  BY DEF IInv, TypeOK
<1>2. frame' \in [Reqs -> Frame]
  BY <1>1
<1>3. ASSUME NEW q \in Reqs, frame'[q].pc \notin {"new", "done"}
      PROVE  FrameOK(frame'[q], now', rows') /\ RefusalOK(frame'[q], now', revoked')
  <2>1. CASE q = p
    BY <1>1, <2>1, <1>3
  <2>2. CASE q # p
    <3>1. frame'[q] = frame[q] /\ frame[q] \in Frame /\ q \in InFlight
      BY <1>1, <1>3, <2>2 DEF InFlight
    <3>2. FrameOK(frame[q], now, rows) /\ RefusalOK(frame[q], now, revoked)
      BY <3>1 DEF IInv, FramesOK, RefusalHolds
    <3>3. FrameOK(frame[q], now', rows')
      BY <1>1, <3>1, <3>2, FrameStable
    <3>4. frame[q].op = "validate" => frame[q].acc \in Jwt
      BY <3>2 DEF FrameOK, ValidateOK, SignedFor
    <3>5. RefusalOK(frame[q], now', revoked')
      BY <1>1, <3>1, <3>2, <3>4, RefusalStable
    <3> QED BY <3>1, <3>3, <3>5
  <2> QED BY <2>1, <2>2
<1> QED BY <1>2, <1>3 DEF FramesOK, RefusalHolds, InFlight

-----------------------------------------------------------------------------
(* The store: tables and Redis keys.                                       *)

\* Redis keys, replies and the blacklist, which a step that changes none of
\* them cannot break.
KeysInv == StoreOK /\ KeysOK /\ BlacklistHolds

\* A step that touches no table, key or reply keeps them all.
LEMMA KeysQuiet == KeysInv /\ Quiet => KeysInv'
  BY DEF KeysInv, StoreOK, KeysOK, BlacklistHolds, Quiet, store, history

\* updateMany on isValid keeps the rows and their owners.
LEMMA InvalidatedKept ==
  ASSUME StoreOK, NEW u, NEW d
  PROVE  /\ Invalidated(u, d) \in [RefreshTokens -> Row \cup {None}]
         /\ RowsKept(rows, Invalidated(u, d))
<1>1. ASSUME NEW r \in RefreshTokens, r \in ValidRowsOf(u, d)
      PROVE  /\ rows[r] \in Row /\ [rows[r] EXCEPT !.valid = FALSE] \in Row
             /\ [rows[r] EXCEPT !.valid = FALSE].user = rows[r].user
  BY <1>1 DEF StoreOK, ValidRowsOf, Row
<1>2. \A r \in RefreshTokens : rows[r] \in Row \cup {None}
  BY DEF StoreOK
<1> QED BY <1>1, <1>2, NoRowAssumption DEF Invalidated, RowsKept

\* A step that only changes rows, and keeps them and their owners.
LEMMA KeysRows ==
  ASSUME KeysInv, rows' \in [RefreshTokens -> Row \cup {None}], RowsKept(rows, rows'),
         UNCHANGED <<now, accessCache, refreshCache, blacklist, denied, verified, alerted, history>>
  PROVE  KeysInv'
  BY DEF KeysInv, StoreOK, KeysOK, BlacklistHolds, RowsKept, Owned, history

\* Blacklisting a token signed in the past covers the rest of its life.
LEMMA KeysBlacklist ==
  ASSUME KeysInv, NEW ns \in Ns, NEW t \in Jwt, t.iat <= now,
         blacklist' = Put(blacklist, [ns |-> ns, tok |-> t, exp |-> now + BlackTTL], SameAccess),
         revoked' = revoked \cup {<<ns, t>>},
         UNCHANGED <<now, rows, accessCache, refreshCache, denied, verified, alerted,
                     given, handed>>
  PROVE  KeysInv'
<1> DEFINE e == [ns |-> ns, tok |-> t, exp |-> now + BlackTTL]
<1>1. now \in Nat /\ BlackTTL \in Nat /\ AccessLife \in Nat /\ BlackTTL >= AccessLife
  BY TimeAssumption, BlacklistAssumption DEF KeysInv, StoreOK
<1>2. e \in AccessKey
  BY <1>1 DEF AccessKey
<1>3. blacklist' = {x \in blacklist : ~(x.ns = ns /\ x.tok = t)} \cup {e}
  BY DEF Put, SameAccess
<1>4. StoreOK'
  BY <1>2, <1>3 DEF KeysInv, StoreOK
<1>5. KeysOK'
  BY DEF KeysInv, KeysOK
<1>6. ASSUME NEW k \in revoked', Live(k[2], now')
      PROVE  \E x \in blacklist' :
               x.ns = k[1] /\ x.tok = k[2] /\ x.exp >= k[2].iat + AccessLife
  <2>1. CASE k = <<ns, t>>
    <3>1. e.ns = k[1] /\ e.tok = k[2] /\ e.exp >= k[2].iat + AccessLife
      BY <1>1, <2>1 DEF Jwt
    <3> QED BY <1>3, <3>1
  <2>2. CASE k # <<ns, t>>
    <3>1. k \in revoked /\ k \in Ns \X Jwt /\ ~(k[1] = ns /\ k[2] = t)
      BY <1>6, <2>2 DEF KeysInv, StoreOK
    <3>2. PICK x \in blacklist : x.ns = k[1] /\ x.tok = k[2] /\ x.exp >= k[2].iat + AccessLife
      BY <1>6, <3>1 DEF KeysInv, BlacklistHolds
    <3>3. x \in blacklist'
      BY <1>3, <3>1, <3>2
    <3> QED BY <3>2, <3>3
  <2> QED BY <2>1, <2>2
<1> QED BY <1>4, <1>5, <1>6 DEF KeysInv, BlacklistHolds

\* Redis forgets a blacklist key only when the token it covers is dead.
LEMMA KeysTick == KeysInv /\ Tick => KeysInv'
<1> SUFFICES ASSUME KeysInv, Tick PROVE KeysInv'
  OBVIOUS
<1>1. now \in Nat /\ now' = now + 1 /\ AccessLife \in Nat
  BY TimeAssumption DEF KeysInv, StoreOK, Tick
<1>2. StoreOK'
  BY <1>1 DEF KeysInv, StoreOK, Tick, history
<1>3. KeysOK'
  <2>1. /\ accessCache' \subseteq accessCache /\ refreshCache' \subseteq refreshCache
        /\ handed' = handed /\ given' = given /\ rows' = rows
    BY DEF Tick, history
  <2>2. \A e \in accessCache : e.tok.iat \in Nat
    BY DEF KeysInv, StoreOK, AccessKey, Jwt
  <2>3. \A g \in given : g.tok.iat \in Nat
    BY DEF KeysInv, StoreOK, Jwt
  <2> QED BY <1>1, <2>1, <2>2, <2>3 DEF KeysInv, KeysOK
<1>4. ASSUME NEW k \in revoked', Live(k[2], now')
      PROVE  \E x \in blacklist' :
               x.ns = k[1] /\ x.tok = k[2] /\ x.exp >= k[2].iat + AccessLife
  <2>1. k \in revoked /\ k[2].iat \in Nat
    BY <1>4 DEF KeysInv, StoreOK, Tick, history, Jwt
  <2>2. PICK x \in blacklist : x.ns = k[1] /\ x.tok = k[2] /\ x.exp >= k[2].iat + AccessLife
    BY <1>1, <1>4, <2>1 DEF KeysInv, BlacklistHolds, Live
  <2>3. x.exp \in Nat
    BY DEF KeysInv, StoreOK, AccessKey
  <2>4. x.exp > now + 1
    BY <1>1, <1>4, <2>1, <2>2, <2>3 DEF Live
  <2>5. x \in blacklist'
    BY <2>4 DEF Tick
  <2> QED BY <2>2, <2>5
<1> QED BY <1>2, <1>3, <1>4 DEF KeysInv, BlacklistHolds

\* What IInv says of one request in flight.
LEMMA FrameFacts ==
  ASSUME IInv, NEW p \in Reqs, frame[p].pc \notin {"new", "done"}
  PROVE  /\ frame[p] \in Frame
         /\ FrameOK(frame[p], now, rows)
         /\ RefusalOK(frame[p], now, revoked)
  BY DEF IInv, TypeOK, FramesOK, RefusalHolds, InFlight

\* Every step keeps the tables typed, the Redis keys owned and local, and
\* every live revoked token on the blacklist.
LEMMA KeysStep == IInv /\ [Next]_vars => KeysInv'
<1> SUFFICES ASSUME IInv, [Next]_vars PROVE KeysInv'
  OBVIOUS
<1>0. KeysInv
  BY TypeParts DEF IInv, KeysInv
<1>1. ASSUME NEW p \in Reqs, InvalidateRefresh(p) \/ TheftInvalidate(p) PROVE KeysInv'
  <2>1. PICK d : rows' = Invalidated(frame[p].user, d)
    BY <1>1 DEF InvalidateRefresh, TheftInvalidate
  <2>2. UNCHANGED <<now, accessCache, refreshCache, blacklist, denied, verified, alerted, history>>
    BY <1>1 DEF InvalidateRefresh, TheftInvalidate
  <2>3. rows' \in [RefreshTokens -> Row \cup {None}] /\ RowsKept(rows, rows')
    BY <1>0, <2>1, InvalidatedKept DEF KeysInv
  <2> QED BY <1>0, <2>2, <2>3, KeysRows
<1>2. ASSUME NEW p \in Reqs, BlacklistKey(p) PROVE KeysInv'
  <2>1. /\ frame[p].pc = "black" /\ frame[p].ns \in Ns
        /\ \A t \in frame[p].todo : SignedFor(t, frame[p].user, now)
    BY <1>2, FrameFacts DEF BlacklistKey, At, FrameOK
  <2>2. PICK t \in frame[p].todo :
          /\ blacklist' = Put(blacklist,
                              [ns |-> frame[p].ns, tok |-> t, exp |-> now + BlackTTL],
                              SameAccess)
          /\ revoked' = revoked \cup {<<frame[p].ns, t>>}
    BY <1>2 DEF BlacklistKey
  <2>3. t \in Jwt /\ t.iat <= now
    BY <2>1 DEF SignedFor
  <2>4. UNCHANGED <<now, rows, accessCache, refreshCache, denied, verified, alerted,
                    given, handed>>
    BY <1>2 DEF BlacklistKey
  <2> QED BY <1>0, <2>1, <2>2, <2>3, <2>4, KeysBlacklist
<1>3. ASSUME NEW p \in Reqs, DeleteAccess(p) \/ DeleteRefresh(p) PROVE KeysInv'
  <2>1. /\ accessCache' \subseteq accessCache /\ refreshCache' \subseteq refreshCache
        /\ UNCHANGED <<now, rows, blacklist, denied, verified, alerted, history>>
    BY <1>3 DEF DeleteAccess, DeleteRefresh
  <2> QED BY <1>0, <2>1 DEF KeysInv, StoreOK, KeysOK, BlacklistHolds, history
<1>4. ASSUME NEW p \in Reqs, MarkVerified(p) PROVE KeysInv'
  <2>1. frame[p].user \in Users
    BY <1>4, FrameFacts DEF MarkVerified, At, FrameOK
  <2> QED BY <1>0, <1>4, <2>1 DEF MarkVerified, KeysInv, StoreOK, KeysOK, BlacklistHolds, history
<1>5. ASSUME NEW p \in Reqs, CreateRow(p) PROVE KeysInv'
  <2>1. /\ frame[p].pc = "create" /\ frame[p] \in Frame
        /\ FrameOK(frame[p], now, rows)
    BY <1>5, FrameFacts DEF CreateRow, At
  <2>2. /\ frame[p].user \in Users /\ frame[p].ip \in Ips /\ frame[p].acc \in Jwt
    BY <2>1 DEF FrameOK, LoginOK, RefreshOK, ValidateOK, RefreshPcs, ValidatePcs, SignedFor
  <2> DEFINE row == [user |-> frame[p].user, ip |-> frame[p].ip, valid |-> TRUE,
                     exp |-> frame[p].acc.iat + RefreshLife]
  <2>3. row \in Row
    BY <2>2, TimeAssumption DEF Row, Jwt
  <2>4. PICK r \in RefreshTokens : rows[r] = None /\ rows' = [rows EXCEPT ![r] = row]
    BY <1>5 DEF CreateRow
  <2> HIDE DEF row
  <2>5. rows \in [RefreshTokens -> Row \cup {None}]
    BY <1>0 DEF KeysInv, StoreOK
  <2>6. rows' \in [RefreshTokens -> Row \cup {None}] /\ RowsKept(rows, rows')
    BY <2>3, <2>4, <2>5 DEF RowsKept
  <2>7. UNCHANGED <<now, accessCache, refreshCache, blacklist, denied, verified, alerted, history>>
    BY <1>5 DEF CreateRow
  <2> QED BY <1>0, <2>6, <2>7, KeysRows
<1>6. ASSUME NEW p \in Reqs, CacheAccess(p) PROVE KeysInv'
  <2>1. /\ frame[p].pc = "cacheA" /\ frame[p] \in Frame
        /\ FrameOK(frame[p], now, rows)
    BY <1>6, FrameFacts DEF CacheAccess, At
  <2>2. /\ frame[p].ns \in Ns /\ SignedFor(frame[p].acc, frame[p].user, now)
        /\ Local(frame[p].user, frame[p].ns)
    BY <2>1 DEF FrameOK, LoginOK, RefreshOK, ValidateOK, Local
  <2> DEFINE e == [ns |-> frame[p].ns, tok |-> frame[p].acc, exp |-> now + AccessTTL]
  <2>3. e \in AccessKey /\ Local(e.tok.user, e.ns) /\ e.tok.iat <= now
    BY <1>0, <2>2, TimeAssumption DEF AccessKey, SignedFor, KeysInv, StoreOK
  <2>4. accessCache' \subseteq accessCache \cup {e}
    BY <1>6 DEF CacheAccess, Put
  <2>5. UNCHANGED <<now, rows, refreshCache, blacklist, denied, verified, alerted, history>>
    BY <1>6 DEF CacheAccess
  <2> HIDE DEF e
  <2> QED BY <1>0, <2>3, <2>4, <2>5 DEF KeysInv, StoreOK, KeysOK, BlacklistHolds, history
<1>7. ASSUME NEW p \in Reqs, CacheRefresh(p) PROVE KeysInv'
  <2>1. /\ frame[p].pc = "cacheR" /\ frame[p] \in Frame
        /\ FrameOK(frame[p], now, rows)
    BY <1>7, FrameFacts DEF CacheRefresh, At
  <2>2. /\ frame[p].ns \in Ns /\ frame[p].user \in Users /\ frame[p].ip \in Ips
        /\ Owned(frame[p].ref, frame[p].user, rows) /\ Local(frame[p].user, frame[p].ns)
    BY <2>1 DEF FrameOK, LoginOK, RefreshOK, ValidateOK, RefreshPcs, Local
  <2> DEFINE e == [ns |-> frame[p].ns, user |-> frame[p].user, ref |-> frame[p].ref,
                   ip |-> frame[p].ip, exp |-> now + RefreshTTL]
  <2>3. e \in RefreshKey /\ Owned(e.ref, e.user, rows) /\ Local(e.user, e.ns)
    BY <1>0, <2>2, TimeAssumption DEF RefreshKey, Owned, KeysInv, StoreOK
  <2>4. refreshCache' \subseteq refreshCache \cup {e}
    BY <1>7 DEF CacheRefresh, Put
  <2>5. UNCHANGED <<now, rows, accessCache, blacklist, denied, verified, alerted, history>>
    BY <1>7 DEF CacheRefresh
  <2> HIDE DEF e
  <2> QED BY <1>0, <2>3, <2>4, <2>5 DEF KeysInv, StoreOK, KeysOK, BlacklistHolds, history
<1>8. ASSUME NEW p \in Reqs, TheftDeny(p) PROVE KeysInv'
  <2>1. frame[p].ip \in Ips
    BY <1>8, FrameFacts DEF TheftDeny, At, FrameOK
  <2> QED BY <1>0, <1>8, <2>1 DEF TheftDeny, KeysInv, StoreOK, KeysOK, BlacklistHolds, history
<1>9. ASSUME NEW p \in Reqs, NotifySecurityTeam(p) PROVE KeysInv'
  BY <1>0, <1>9 DEF NotifySecurityTeam, KeysInv, StoreOK, KeysOK, BlacklistHolds, history
<1>10. ASSUME NEW p \in Reqs, Reply(p) PROVE KeysInv'
  <2>1. /\ frame[p].pc = "ok" /\ frame[p] \in Frame
        /\ FrameOK(frame[p], now, rows)
    BY <1>10, FrameFacts DEF Reply, At
  <2>2. /\ frame[p].ns \in Ns /\ SignedFor(frame[p].acc, frame[p].user, now)
        /\ frame[p].op = "login" => Owned(frame[p].ref, frame[p].user, rows)
    BY <2>1 DEF FrameOK, LoginOK, RefreshOK, ValidateOK
  <2> DEFINE g == [ns |-> frame[p].ns, tok |-> frame[p].acc]
  <2>3. g \in [ns : Ns, tok : Jwt] /\ g.tok.iat <= now
    BY <2>2 DEF SignedFor
  <2>4. given' \subseteq given \cup {g}
    BY <1>10 DEF Reply
  <2>5. /\ \A r \in handed' : r \in handed \/ (r \in RefreshTokens /\ rows[r] # None)
    BY <1>10, <2>2 DEF Reply, Owned
  <2>6. UNCHANGED <<now, store, revoked>>
    BY <1>10 DEF Reply
  <2> HIDE DEF g
  <2> QED BY <1>0, <2>3, <2>4, <2>5, <2>6 DEF KeysInv, StoreOK, KeysOK, BlacklistHolds, store
<1>11. CASE Tick
  BY <1>0, <1>11, KeysTick
<1>12. ASSUME NEW p \in Reqs,
              \/ Arrive(p) \/ ScanAccess(p) \/ ScanClearAccess(p) \/ ScanClearRefresh(p)
              \/ RefuseTwoFactor(p) \/ SignLogin(p) \/ SignRefresh(p) \/ GetRefresh(p)
              \/ FindRefresh(p) \/ ValidateStep(p) \/ Fail(p)
       PROVE Quiet
  BY <1>12 DEF Quiet, Arrive, LoginUser, LoginKnown, VerifyUserEmail, RefreshAccess, Validate,
     ScanAccess, ScanClearAccess, ScanClearRefresh, RefuseTwoFactor, SignLogin, SignRefresh,
     GetRefresh, FindRefresh, ValidateStep, GetBlacklist, GetAccess, FindUser,
     UpdateTrustedDevice, Fail
<1>13. UNCHANGED vars => Quiet
  BY DEF vars, Quiet
<1> QED
  BY <1>0, <1>1, <1>2, <1>3, <1>4, <1>5, <1>6, <1>7, <1>8, <1>9, <1>10, <1>11, <1>12, <1>13,
     KeysQuiet
  DEF Next, Settle, LoginStep, RefreshStep

-----------------------------------------------------------------------------
(* The requests.                                                           *)

\* What a step of a request leaves behind in the frames of all requests.
FramesInv == frame \in [Reqs -> Frame] /\ FramesOK /\ RefusalHolds

\* The record a request starts from.
LEMMA BlankFrame == Blank \in Frame /\ Done \in Frame
  BY DEF Blank, Done, NewFrame, Frame, Pcs, Facts

\* A request that ends asks nothing of the store.
LEMMA DropStep ==
  ASSUME IInv, NEW p \in Reqs, Drop(p), UNCHANGED <<now, rows>>, revoked \subseteq revoked'
  PROVE  FramesInv'
<1>1. Done \in Frame /\ Done.pc = "done"
  BY BlankFrame DEF Done, NewFrame
<1>2. now' \in Nat /\ now <= now' /\ RowsKept(rows, rows')
  BY DEF IInv, TypeOK, RowsKept
<1>3. frame' = [frame EXCEPT ![p] = Done]
  BY DEF Drop
<1>4. frame' \in [Reqs -> Frame] /\ FramesOK' /\ RefusalHolds'
  BY <1>1, <1>2, <1>3, Moves
<1> QED BY <1>4 DEF FramesInv

\* A request that moves on keeps its locals; only the new await is judged.
LEMMA GotoStep ==
  ASSUME IInv, NEW p \in Reqs, frame[p].pc \notin {"new", "done"},
         NEW pc \in Pcs, Goto(p, pc),
         now' = now, RowsKept(rows, rows'), revoked \subseteq revoked',
         FrameOK([frame[p] EXCEPT !.pc = pc], now, rows'),
         frame[p].pc = "getB" => RefusalOK([frame[p] EXCEPT !.pc = pc], now, revoked')
  PROVE  FramesInv'
<1> DEFINE g == [frame[p] EXCEPT !.pc = pc]
<1>1. frame[p] \in Frame /\ RefusalOK(frame[p], now, revoked) /\ FrameOK(frame[p], now, rows)
  BY FrameFacts
<1>2. g \in Frame
  BY <1>1 DEF Frame
<1>3. frame' = [frame EXCEPT ![p] = g]
  BY DEF Goto
<1>4. RefusalOK(g, now, revoked')
  BY <1>1 DEF RefusalOK, Frame
<1>5. now' \in Nat /\ now <= now'
  BY DEF IInv, TypeOK
<1>6. FrameOK(g, now', rows') /\ RefusalOK(g, now', revoked')
  BY <1>4
<1> HIDE DEF g
<1>7. frame' \in [Reqs -> Frame] /\ FramesOK' /\ RefusalHolds'
  BY <1>2, <1>3, <1>5, <1>6, Moves
<1> QED BY <1>7 DEF FramesInv

\* A request that replaces its locals and touches nothing else.
LEMMA SetStep ==
  ASSUME IInv, NEW p \in Reqs, NEW g \in Frame, frame' = [frame EXCEPT ![p] = g], Quiet,
         FrameOK(g, now, rows), RefusalOK(g, now, revoked)
  PROVE  FramesInv'
<1>1. now' = now /\ rows' = rows /\ revoked' = revoked /\ now \in Nat
  BY DEF Quiet, store, history, IInv, TypeOK
<1>2. now' \in Nat /\ now <= now' /\ RowsKept(rows, rows') /\ revoked \subseteq revoked'
  BY <1>1 DEF RowsKept
<1>3. FrameOK(g, now', rows') /\ RefusalOK(g, now', revoked')
  BY <1>1
<1>4. frame' \in [Reqs -> Frame] /\ FramesOK' /\ RefusalHolds'
  BY <1>2, <1>3, Moves
<1> QED BY <1>4 DEF FramesInv

\* Login and mail verification start with what LoginOK asks of a first await.
LEMMA ArriveLogin ==
  ASSUME IInv, NEW p \in Reqs, LoginUser(p) \/ LoginKnown(p) \/ VerifyUserEmail(p)
  PROVE  FramesInv'
<1>1. PICK u \in Users, ip \in Ips, pc \in {"pre", "inval", "mark"} :
        /\ frame' = [frame EXCEPT ![p] = LoginFrame(u, Home[u], ip, pc)]
        /\ Quiet
  BY DEF LoginUser, LoginKnown, VerifyUserEmail, Request, Quiet
<1> DEFINE g == LoginFrame(u, Home[u], ip, pc)
<1>2. Home[u] \in Ns
  BY HomeAssumption
<1>3. /\ g = [op |-> "login", pc |-> pc, user |-> u, ns |-> Home[u], ip |-> ip,
              acc |-> None, ref |-> None, todo |-> {}, was |-> {}]
  BY DEF LoginFrame, NewFrame
<1>4. g \in Frame
  BY <1>2, <1>3 DEF Frame, Pcs
<1>5. FrameOK(g, now, rows) /\ RefusalOK(g, now, revoked)
  BY <1>2, <1>3 DEF FrameOK, LoginOK, LoginPcs, RefusalOK
<1> HIDE DEF g
<1> QED BY <1>1, <1>4, <1>5, SetStep DEF g

\* A refresh, asked for by a client or by updateTrustedDevice, starts with a
\* token some login handed out, so it has a row, or with none.
LEMMA ArriveRefresh ==
  ASSUME IInv, NEW p \in Reqs, RefreshAccess(p) \/ UpdateTrustedDevice(p)
  PROVE  FramesInv'
<1>0. UpdateTrustedDevice(p) => frame[p].user \in Users /\ frame[p].ns \in Ns
  BY FrameFacts DEF UpdateTrustedDevice, At, FrameOK
<1>1. PICK u \in Users, r \in handed \cup {None}, ns \in Ns, ip \in Ips :
        /\ frame' = [frame EXCEPT ![p] =
             NewFrame("refresh", "getR", u, ns, ip, None, r, {})]
        /\ Quiet
  BY <1>0 DEF RefreshAccess, UpdateTrustedDevice, Request, Quiet
<1> DEFINE g == NewFrame("refresh", "getR", u, ns, ip, None, r, {})
<1>2. g = [op |-> "refresh", pc |-> "getR", user |-> u, ns |-> ns, ip |-> ip,
           acc |-> None, ref |-> r, todo |-> {}, was |-> {}]
  BY DEF NewFrame
<1>3. {} \subseteq Facts
  OBVIOUS
<1>4. r \in RefreshTokens \cup {None} /\ (r # None => rows[r] # None)
  BY DEF IInv, TypeOK, KeysOK
<1>5. g \in Frame
  BY <1>2, <1>3, <1>4 DEF Frame, Pcs
<1>6. FrameOK(g, now, rows) /\ RefusalOK(g, now, revoked)
  BY <1>2, <1>4 DEF FrameOK, RefreshOK, RefreshPcs, RefusalOK
<1> HIDE DEF g
<1> QED BY <1>1, <1>5, <1>6, SetStep DEF g

\* A validation starts with a token that the service signed, and remembers
\* whether it was revoked in its namespace.
LEMMA ArriveValidate ==
  ASSUME IInv, NEW p \in Reqs, Validate(p)
  PROVE  FramesInv'
<1>1. PICK k \in given, ns \in Ns, ip \in Ips :
        /\ frame' = [frame EXCEPT ![p] =
             NewFrame("validate", "getB", k.tok.user, ns, ip, k.tok, None,
                      ValidateFacts(ns, k.tok))]
        /\ Quiet
  BY DEF Validate, Request, Quiet
<1> DEFINE W == ValidateFacts(ns, k.tok)
           g == NewFrame("validate", "getB", k.tok.user, ns, ip, k.tok, None, W)
<1>2. g = [op |-> "validate", pc |-> "getB", user |-> k.tok.user, ns |-> ns, ip |-> ip,
           acc |-> k.tok, ref |-> None, todo |-> {}, was |-> W]
  BY DEF NewFrame
<1>3. W \subseteq Facts /\ ("revoked" \in W => <<ns, k.tok>> \in revoked)
  BY DEF ValidateFacts
<1>4. k.tok \in Jwt /\ k.tok.user \in Users /\ k.tok.iat <= now
  BY DEF IInv, TypeOK, KeysOK, Jwt
<1>5. frame' = [frame EXCEPT ![p] = g]
  BY <1>1
<1> HIDE DEF W
<1>6. g \in Frame
  BY <1>2, <1>3, <1>4 DEF Frame, Pcs
<1>7. FrameOK(g, now, rows) /\ RefusalOK(g, now, revoked)
  BY <1>2, <1>3, <1>4 DEF FrameOK, ValidateOK, ValidatePcs, RefusalOK, SignedFor
<1> HIDE DEF g
<1> QED BY <1>1, <1>5, <1>6, <1>7, SetStep

\* A request that replaces its locals while it grows the tables or the
\* blacklist.
LEMMA MoveStep ==
  ASSUME IInv, NEW p \in Reqs, NEW g \in Frame, frame' = [frame EXCEPT ![p] = g],
         now' = now, RowsKept(rows, rows'), revoked \subseteq revoked',
         FrameOK(g, now, rows'), RefusalOK(g, now, revoked')
  PROVE  FramesInv'
<1>1. now' \in Nat /\ now <= now'
  BY DEF IInv, TypeOK
<1>2. FrameOK(g, now', rows') /\ RefusalOK(g, now', revoked')
  OBVIOUS
<1>3. frame' \in [Reqs -> Frame] /\ FramesOK' /\ RefusalHolds'
  BY <1>1, <1>2, Moves
<1> QED BY <1>3 DEF FramesInv

\* The steps of a login up to the signature, and of a refresh after it.
LEMMA LoginMoves ==
  ASSUME IInv, NEW p \in Reqs,
         MarkVerified(p) \/ InvalidateRefresh(p) \/ ScanAccess(p) \/ BlacklistKey(p)
  PROVE  FramesInv'
<1> DEFINE f == frame[p]
<1>1. f.pc \in {"mark", "pre", "inval", "scan", "black"}
  BY DEF MarkVerified, InvalidateRefresh, ScanAccess, BlacklistKey, At
<1>2. f \in Frame /\ FrameOK(f, now, rows) /\ RefusalOK(f, now, revoked)
  BY <1>1, FrameFacts
<1>3. f.op # "validate"
  BY <1>1, <1>2 DEF FrameOK, ValidateOK, ValidatePcs
<1>4. StoreOK
  BY TypeParts DEF IInv
<1>5. CASE MarkVerified(p)
  <2>1. /\ Goto(p, "inval") /\ f.pc = "mark"
        /\ now' = now /\ rows' = rows /\ revoked' = revoked
    BY <1>5 DEF MarkVerified, At, history
  <2>2. RowsKept(rows, rows') /\ "inval" \in Pcs
    BY <2>1 DEF RowsKept, Pcs
  <2>3. FrameOK([f EXCEPT !.pc = "inval"], now, rows')
    BY <1>2, <2>1 DEF Frame, FrameOK, LoginOK, RefreshOK, ValidateOK, LoginPcs, RefreshPcs, ValidatePcs
  <2> QED BY <1>1, <2>1, <2>2, <2>3, GotoStep
<1>6. CASE InvalidateRefresh(p)
  <2> DEFINE pc == IF At(p, "pre") THEN "inval" ELSE "scan"
  <2>1. /\ Goto(p, pc) /\ f.pc \in {"pre", "inval"}
        /\ now' = now /\ rows' = Invalidated(f.user, f.ns) /\ revoked' = revoked
    BY <1>6 DEF InvalidateRefresh, history
  <2>2. RowsKept(rows, rows')
    BY <1>4, <2>1, InvalidatedKept
  <2>3. pc \in Pcs /\ pc \in {"inval", "scan"}
    BY DEF Pcs
  <2> HIDE DEF pc
  <2>4. FrameOK(f, now, rows')
    BY <1>2, <1>4, <2>2, FrameStable DEF StoreOK
  <2>5. FrameOK([f EXCEPT !.pc = pc], now, rows')
    BY <1>2, <2>1, <2>3, <2>4 DEF Frame, FrameOK, LoginOK, RefreshOK, ValidateOK, LoginPcs, RefreshPcs, ValidatePcs
  <2> QED BY <1>1, <2>1, <2>2, <2>3, <2>5, GotoStep
<1>7. CASE ScanAccess(p)
  <2> DEFINE keys == AccessKeysOf(f.ns, f.user)
             pc == IF keys = {} THEN AfterBlack(p) ELSE "black"
             g == [f EXCEPT !.todo = keys, !.pc = pc]
  <2>1. frame' = [frame EXCEPT ![p] = g] /\ f.pc = "scan"
    BY <1>7 DEF ScanAccess, At
  <2>2. Quiet
    BY <1>7 DEF ScanAccess, Quiet
  <2>3. keys \subseteq Jwt /\ \A t \in keys : SignedFor(t, f.user, now)
    BY DEF AccessKeysOf, IInv, TypeOK, KeysOK, AccessKey, SignedFor
  <2>4. /\ pc \in {"black", "clrA", "cacheA"}
        /\ pc = "clrA" => f.op = "login"
        /\ pc = "cacheA" => f.op # "login"
    BY DEF AfterBlack
  <2> HIDE DEF keys, pc
  <2>5. g \in Frame
    BY <1>2, <2>3, <2>4 DEF Frame, Pcs
  <2>6. FrameOK(g, now, rows)
    BY <1>2, <2>1, <2>3, <2>4 DEF Frame, FrameOK, LoginOK, RefreshOK, ValidateOK, LoginPcs, RefreshPcs, ValidatePcs
  <2>7. RefusalOK(g, now, revoked)
    BY <1>2, <1>3 DEF RefusalOK, Frame
  <2> HIDE DEF g
  <2> QED BY <2>1, <2>2, <2>5, <2>6, <2>7, SetStep
<1>8. CASE BlacklistKey(p)
  <2>1. PICK t \in f.todo :
          /\ revoked' = revoked \cup {<<f.ns, t>>}
          /\ frame' = [frame EXCEPT ![p].todo = @ \ {t},
                                    ![p].pc = IF f.todo = {t} THEN AfterBlack(p) ELSE "black"]
    BY <1>8 DEF BlacklistKey
  <2> DEFINE pc == IF f.todo = {t} THEN AfterBlack(p) ELSE "black"
             g == [f EXCEPT !.todo = f.todo \ {t}, !.pc = pc]
  <2>2. frame' = [frame EXCEPT ![p] = g] /\ f.pc = "black"
    BY <1>8, <2>1 DEF BlacklistKey, At
  <2>3. now' = now /\ RowsKept(rows, rows') /\ rows' = rows
    BY <1>8 DEF BlacklistKey, RowsKept
  <2>4. /\ pc \in {"black", "clrA", "cacheA"}
        /\ pc = "clrA" => f.op = "login"
        /\ pc = "cacheA" => f.op # "login"
    BY DEF AfterBlack
  <2> HIDE DEF pc
  <2>5. g \in Frame
    BY <1>2, <2>4 DEF Frame, Pcs
  <2>6. FrameOK(g, now, rows)
    BY <1>2, <2>2, <2>4 DEF Frame, FrameOK, LoginOK, RefreshOK, ValidateOK, LoginPcs, RefreshPcs, ValidatePcs
  <2>7. RefusalOK(g, now, revoked')
    BY <1>2, <1>3 DEF RefusalOK, Frame
  <2> HIDE DEF g
  <2>8. revoked \subseteq revoked' /\ FrameOK(g, now, rows')
    BY <2>1, <2>3, <2>6
  <2> QED BY <2>2, <2>3, <2>5, <2>7, <2>8, MoveStep
<1> QED BY <1>5, <1>6, <1>7, <1>8

\* clearUserAllTokenCaches, step by step.
LEMMA ClearMoves ==
  ASSUME IInv, NEW p \in Reqs,
         ScanClearAccess(p) \/ DeleteAccess(p) \/ ScanClearRefresh(p) \/ DeleteRefresh(p)
  PROVE  FramesInv'
<1> DEFINE f == frame[p]
<1>1. f.pc \in {"clrA", "delA", "clrR", "delR"}
  BY DEF ScanClearAccess, DeleteAccess, ScanClearRefresh, DeleteRefresh, At
<1>2. f \in Frame /\ FrameOK(f, now, rows)
  BY <1>1, FrameFacts
<1>3. f.op = "login"
  BY <1>1, <1>2 DEF FrameOK, RefreshOK, RefreshPcs, ValidateOK, ValidatePcs
<1>4. CASE ScanClearAccess(p)
  <2> DEFINE keys == AccessKeysOf(f.ns, f.user)
             pc == IF keys = {} THEN "clrR" ELSE "delA"
             g == [f EXCEPT !.todo = keys, !.pc = pc]
  <2>1. frame' = [frame EXCEPT ![p] = g] /\ Quiet
    BY <1>4 DEF ScanClearAccess, Quiet
  <2>2. keys \subseteq Jwt /\ \A t \in keys : SignedFor(t, f.user, now)
    BY DEF AccessKeysOf, IInv, TypeOK, KeysOK, AccessKey, RefreshKey, SignedFor
  <2>5. pc \in {"clrR", "delA"}
    OBVIOUS
  <2> HIDE DEF keys, pc
  <2>3. g \in Frame
    BY <1>2, <2>2, <2>5 DEF Frame, Pcs
  <2>4. FrameOK(g, now, rows) /\ RefusalOK(g, now, revoked)
    BY <1>2, <1>3, <2>2, <2>5 DEF Frame, FrameOK, LoginOK, RefreshOK, ValidateOK, LoginPcs, RefreshPcs, ValidatePcs, RefusalOK
  <2> HIDE DEF g
  <2> QED BY <2>1, <2>3, <2>4, SetStep
<1>5. CASE DeleteAccess(p)
  <2>1. PICK t \in f.todo :
          frame' = [frame EXCEPT ![p].todo = @ \ {t},
                                 ![p].pc = IF f.todo = {t} THEN "clrR" ELSE "delA"]
    BY <1>5 DEF DeleteAccess
  <2> DEFINE pc == IF f.todo = {t} THEN "clrR" ELSE "delA"
             g == [f EXCEPT !.todo = f.todo \ {t}, !.pc = pc]
  <2>2. frame' = [frame EXCEPT ![p] = g] /\ f.pc = "delA"
    BY <1>5, <2>1 DEF DeleteAccess, At
  <2>7. pc \in {"clrR", "delA"}
    OBVIOUS
  <2> HIDE DEF pc
  <2>3. now' = now /\ rows' = rows /\ revoked' = revoked /\ RowsKept(rows, rows')
    BY <1>5 DEF DeleteAccess, RowsKept, history
  <2>4. g \in Frame
    BY <1>2, <2>7 DEF Frame, Pcs
  <2>5. FrameOK(g, now, rows) /\ RefusalOK(g, now, revoked)
    BY <1>2, <1>3, <2>2, <2>7 DEF Frame, FrameOK, LoginOK, RefreshOK, ValidateOK, LoginPcs, RefreshPcs, ValidatePcs, RefusalOK
  <2>6. FrameOK(g, now, rows') /\ RefusalOK(g, now, revoked') /\ revoked \subseteq revoked'
    BY <2>3, <2>5
  <2> HIDE DEF g
  <2> QED BY <2>2, <2>3, <2>4, <2>6, MoveStep
<1>6. CASE ScanClearRefresh(p)
  <2> DEFINE keys == RefreshKeysOf(f.ns, f.user)
             pc == IF keys = {} THEN "sign" ELSE "delR"
             g == [f EXCEPT !.todo = keys, !.pc = pc]
  <2>1. frame' = [frame EXCEPT ![p] = g] /\ Quiet
    BY <1>6 DEF ScanClearRefresh, Quiet
  <2>2. keys \subseteq RefreshTokens
    BY DEF RefreshKeysOf, IInv, TypeOK, KeysOK, AccessKey, RefreshKey, SignedFor
  <2>5. pc \in {"sign", "delR"}
    OBVIOUS
  <2> HIDE DEF keys, pc
  <2>3. g \in Frame
    BY <1>2, <2>2, <2>5 DEF Frame, Pcs
  <2>4. FrameOK(g, now, rows) /\ RefusalOK(g, now, revoked)
    BY <1>2, <1>3, <2>2, <2>5 DEF Frame, FrameOK, LoginOK, RefreshOK, ValidateOK, LoginPcs, RefreshPcs, ValidatePcs, RefusalOK
  <2> HIDE DEF g
  <2> QED BY <2>1, <2>3, <2>4, SetStep
<1>7. CASE DeleteRefresh(p)
  <2>1. PICK t \in f.todo :
          frame' = [frame EXCEPT ![p].todo = @ \ {t},
                                 ![p].pc = IF f.todo = {t} THEN "sign" ELSE "delR"]
    BY <1>7 DEF DeleteRefresh
  <2> DEFINE pc == IF f.todo = {t} THEN "sign" ELSE "delR"
             g == [f EXCEPT !.todo = f.todo \ {t}, !.pc = pc]
  <2>2. frame' = [frame EXCEPT ![p] = g] /\ f.pc = "delR"
    BY <1>7, <2>1 DEF DeleteRefresh, At
  <2>7. pc \in {"sign", "delR"}
    OBVIOUS
  <2> HIDE DEF pc
  <2>3. now' = now /\ rows' = rows /\ revoked' = revoked /\ RowsKept(rows, rows')
    BY <1>7 DEF DeleteRefresh, RowsKept, history
  <2>4. g \in Frame
    BY <1>2, <2>7 DEF Frame, Pcs
  <2>5. FrameOK(g, now, rows) /\ RefusalOK(g, now, revoked)
    BY <1>2, <1>3, <2>2, <2>7 DEF Frame, FrameOK, LoginOK, RefreshOK, ValidateOK, LoginPcs, RefreshPcs, ValidatePcs, RefusalOK
  <2>6. FrameOK(g, now, rows') /\ RefusalOK(g, now, revoked') /\ revoked \subseteq revoked'
    BY <2>3, <2>5
  <2> HIDE DEF g
  <2> QED BY <2>2, <2>3, <2>4, <2>6, MoveStep
<1> QED BY <1>4, <1>5, <1>6, <1>7

\* Signing, storing and caching the tokens.
LEMMA IssueMoves ==
  ASSUME IInv, NEW p \in Reqs,
         SignLogin(p) \/ SignRefresh(p) \/ CreateRow(p) \/ CacheAccess(p) \/ CacheRefresh(p)
  PROVE  FramesInv'
<1> DEFINE f == frame[p]
<1>1. f.pc \in {"sign", "create", "cacheA", "cacheR"}
  BY DEF SignLogin, SignRefresh, CreateRow, CacheAccess, CacheRefresh, At
<1>2. f \in Frame /\ FrameOK(f, now, rows) /\ RefusalOK(f, now, revoked)
  BY <1>1, FrameFacts
<1>3. now \in Nat /\ rows \in [RefreshTokens -> Row \cup {None}]
  BY DEF IInv, TypeOK
<1>4. CASE SignLogin(p)
  <2> DEFINE t == [user |-> f.user, iat |-> now, tag |-> None]
             g == [f EXCEPT !.pc = "create", !.acc = t]
  <2>1. frame' = [frame EXCEPT ![p] = g] /\ Quiet /\ f.op = "login" /\ f.pc = "sign"
    BY <1>4 DEF SignLogin, Quiet, At
  <2>2. SignedFor(t, f.user, now)
    BY <1>2, <1>3 DEF SignedFor, Jwt, Tags, FrameOK
  <2> HIDE DEF t
  <2>3. g \in Frame
    BY <1>2, <2>2 DEF Frame, Pcs, SignedFor
  <2>4. FrameOK(g, now, rows) /\ RefusalOK(g, now, revoked)
    BY <1>2, <2>1, <2>2 DEF Frame, FrameOK, LoginOK, RefreshOK, ValidateOK, LoginPcs, RefreshPcs, ValidatePcs, RefusalOK
  <2> HIDE DEF g
  <2> QED BY <2>1, <2>3, <2>4, SetStep
<1>5. CASE SignRefresh(p)
  <2>1. PICK ms \in Millis :
          frame' = [frame EXCEPT ![p].pc = "scan",
                                 ![p].acc = [user |-> f.user, iat |-> now, tag |-> <<ms, f.ip>>]]
    BY <1>5 DEF SignRefresh
  <2> DEFINE t == [user |-> f.user, iat |-> now, tag |-> <<ms, f.ip>>]
             g == [f EXCEPT !.pc = "scan", !.acc = t]
  <2>2. frame' = [frame EXCEPT ![p] = g] /\ Quiet /\ f.op = "refresh" /\ f.pc = "sign"
    BY <1>5, <2>1 DEF SignRefresh, Quiet, At
  <2>3. SignedFor(t, f.user, now)
    BY <1>2, <1>3 DEF SignedFor, Jwt, Tags, FrameOK
  <2> HIDE DEF t
  <2>4. g \in Frame
    BY <1>2, <2>3 DEF Frame, Pcs, SignedFor
  <2>5. FrameOK(g, now, rows) /\ RefusalOK(g, now, revoked)
    BY <1>2, <2>2, <2>3 DEF Frame, FrameOK, LoginOK, RefreshOK, ValidateOK, LoginPcs, RefreshPcs, ValidatePcs, RefusalOK
  <2> HIDE DEF g
  <2> QED BY <2>2, <2>4, <2>5, SetStep
<1>6. CASE CreateRow(p)
  <2> DEFINE row == [user |-> f.user, ip |-> f.ip, valid |-> TRUE,
                     exp |-> f.acc.iat + RefreshLife]
  <2>1. PICK r \in RefreshTokens :
          /\ rows[r] = None /\ rows' = [rows EXCEPT ![r] = row]
          /\ frame' = [frame EXCEPT ![p].pc = "cacheA", ![p].ref = r]
    BY <1>6 DEF CreateRow
  <2> DEFINE g == [f EXCEPT !.pc = "cacheA", !.ref = r]
  <2>2. frame' = [frame EXCEPT ![p] = g] /\ f.pc = "create"
    BY <1>6, <2>1 DEF CreateRow, At
  <2>3. now' = now /\ revoked' = revoked
    BY <1>6 DEF CreateRow, history
  <2>4. f.op = "login" /\ f.user \in Users /\ f.ip \in Ips /\ f.acc \in Jwt
    BY <1>2, <2>2 DEF FrameOK, LoginOK, RefreshOK, ValidateOK, RefreshPcs, ValidatePcs, SignedFor
  <2>5. row \in Row /\ row.user = f.user
    BY <2>4, TimeAssumption DEF Row, Jwt
  <2> HIDE DEF row
  <2>6. RowsKept(rows, rows') /\ Owned(r, f.user, rows')
    BY <1>3, <2>1, <2>5, NoRowAssumption DEF RowsKept, Owned
  <2>7. FrameOK(f, now, rows')
    BY <1>2, <1>3, <2>6, FrameStable
  <2>8. g \in Frame
    BY <1>2 DEF Frame, Pcs
  <2>9. FrameOK(g, now, rows') /\ RefusalOK(g, now, revoked') /\ revoked \subseteq revoked'
    BY <1>2, <2>2, <2>3, <2>4, <2>6, <2>7 DEF Frame, FrameOK, LoginOK, RefreshOK, ValidateOK, LoginPcs, RefreshPcs, ValidatePcs, RefusalOK
  <2> HIDE DEF g
  <2> QED BY <2>2, <2>3, <2>6, <2>8, <2>9, MoveStep
<1>7. CASE CacheAccess(p)
  <2> DEFINE pc == IF f.op = "refresh" \/ f.ref = None THEN "ok" ELSE "cacheR"
  <2>1. Goto(p, pc) /\ f.pc = "cacheA" /\ now' = now /\ rows' = rows /\ revoked' = revoked
    BY <1>7 DEF CacheAccess, At, history
  <2>2. RowsKept(rows, rows') /\ revoked \subseteq revoked' /\ pc \in Pcs
    BY <2>1 DEF RowsKept, Pcs
  <2>3. FrameOK([f EXCEPT !.pc = pc], now, rows')
    BY <1>2, <2>1, NoneAssumption DEF Frame, FrameOK, LoginOK, RefreshOK, ValidateOK, LoginPcs, RefreshPcs, ValidatePcs, Owned
  <2> HIDE DEF pc
  <2> QED BY <1>1, <2>1, <2>2, <2>3, GotoStep
<1>8. CASE CacheRefresh(p)
  <2>1. Goto(p, "ok") /\ f.pc = "cacheR" /\ now' = now /\ rows' = rows /\ revoked' = revoked
    BY <1>8 DEF CacheRefresh, At, history
  <2>2. RowsKept(rows, rows') /\ revoked \subseteq revoked' /\ "ok" \in Pcs
    BY <2>1 DEF RowsKept, Pcs
  <2>3. FrameOK([f EXCEPT !.pc = "ok"], now, rows')
    BY <1>2, <2>1 DEF Frame, FrameOK, LoginOK, RefreshOK, ValidateOK, LoginPcs, RefreshPcs, ValidatePcs
  <2> QED BY <1>1, <2>1, <2>2, <2>3, GotoStep
<1> QED BY <1>4, <1>5, <1>6, <1>7, <1>8

\* The refresh handler: what it found, in Redis or in the root database, is
\* owned by the user of the request.
LEMMA RefreshMoves ==
  ASSUME IInv, NEW p \in Reqs, RefreshStep(p)
  PROVE  FramesInv'
<1> DEFINE f == frame[p]
<1>1. f.pc \in {"getR", "findR", "theft", "deny", "notify"}
  BY DEF RefreshStep, GetRefresh, FindRefresh, TheftInvalidate, TheftDeny,
     NotifySecurityTeam, At
<1>2. f \in Frame /\ FrameOK(f, now, rows)
  BY <1>1, FrameFacts
<1>3. f.op = "refresh" /\ RefreshOK(f, now, rows)
  BY <1>1, <1>2 DEF FrameOK, LoginOK, LoginPcs, ValidateOK, ValidatePcs
<1>4. StoreOK
  BY TypeParts DEF IInv
<1>5. now' = now /\ revoked' = revoked /\ revoked \subseteq revoked'
  BY DEF RefreshStep, GetRefresh, FindRefresh, TheftInvalidate, TheftDeny,
     NotifySecurityTeam, history
<1>6. RowsKept(rows, rows')
  <2>1. rows' = rows \/ rows' = Invalidated(f.user, Root)
    BY DEF RefreshStep, GetRefresh, FindRefresh, TheftInvalidate, TheftDeny,
       NotifySecurityTeam, store
  <2>2. RowsKept(rows, rows)
    BY DEF RowsKept
  <2> QED BY <1>4, <2>1, <2>2, InvalidatedKept
<1>7. FrameOK(f, now, rows')
  BY <1>2, <1>4, <1>6, FrameStable DEF StoreOK
<1>8. ASSUME NEW pc \in {"findR", "theft", "deny", "notify", "sign"}, Goto(p, pc),
             pc # "findR" => Redeemed(f.ref, f.user, rows) /\ Local(f.user, f.ns)
      PROVE  FramesInv'
  <2>1. pc \in Pcs
    BY DEF Pcs
  <2>2. pc # "findR" => Redeemed(f.ref, f.user, rows')
    BY <1>6, <1>8 DEF Redeemed, Owned, RowsKept
  <2>3. FrameOK([f EXCEPT !.pc = pc], now, rows')
    BY <1>2, <1>3, <1>7, <1>8, <2>2 DEF Frame, FrameOK, RefreshOK, RefreshPcs
  <2> QED BY <1>1, <1>5, <1>6, <1>8, <2>1, <2>3, GotoStep
<1>9. CASE GetRefresh(p)
  <2>1. CASE Goto(p, "findR")
    BY <1>8, <2>1
  <2>2. ASSUME NEW e \in refreshCache, e.ns = f.ns, e.user = f.user, e.ref = f.ref,
               Goto(p, IF e.ip # f.ip THEN "theft" ELSE "sign")
        PROVE  FramesInv'
    <3>1. Redeemed(f.ref, f.user, rows) /\ Local(f.user, f.ns)
      BY <2>2 DEF IInv, KeysOK, Redeemed, Owned
    <3> QED BY <1>8, <2>2, <3>1
  <2> QED BY <1>9, <2>1, <2>2 DEF GetRefresh
<1>10. CASE FindRefresh(p)
  <2>1. CASE Drop(p)
    <3>1. UNCHANGED <<now, rows>>
      BY <1>10 DEF FindRefresh, store
    <3> QED BY <1>5, <2>1, <3>1, DropStep
  <2>2. ASSUME NEW r \in FoundRows(p), rows[r].user = f.user,
               Goto(p, IF rows[r].ip # f.ip THEN "theft" ELSE "sign")
        PROVE  FramesInv'
    <3>1. Redeemed(f.ref, f.user, rows) /\ Local(f.user, f.ns)
      BY <2>2 DEF FoundRows, ValidRowsOf, Redeemed, Owned, Local
    <3> QED BY <1>8, <2>2, <3>1
  <2> QED BY <1>10, <2>1, <2>2 DEF FindRefresh
<1>11. CASE TheftInvalidate(p) \/ TheftDeny(p) \/ NotifySecurityTeam(p)
  <2>1. f.pc \in {"theft", "deny", "notify"}
    BY <1>11 DEF TheftInvalidate, TheftDeny, NotifySecurityTeam, At
  <2>2. Redeemed(f.ref, f.user, rows) /\ Local(f.user, f.ns)
    BY <1>3, <2>1 DEF RefreshOK
  <2>3. CASE Goto(p, "deny") \/ Goto(p, "notify") \/ Goto(p, "sign")
    BY <1>8, <2>2, <2>3
  <2>4. CASE NotifySecurityTeam(p) /\ Drop(p)
    <3>1. UNCHANGED <<now, rows>>
      BY <2>4 DEF NotifySecurityTeam
    <3> QED BY <1>5, <2>4, <3>1, DropStep
  <2> QED BY <1>11, <2>3, <2>4 DEF TheftInvalidate, TheftDeny, NotifySecurityTeam
<1> QED BY <1>9, <1>10, <1>11 DEF RefreshStep

\* The validation: a token that passes the blacklist lookup and was revoked
\* before is dead, and a hit in the access cache is a hit in its own namespace.
LEMMA ValidateMoves ==
  ASSUME IInv, NEW p \in Reqs, GetBlacklist(p) \/ GetAccess(p) \/ FindUser(p)
  PROVE  FramesInv'
<1> DEFINE f == frame[p]
<1>1. f.pc \in {"getB", "getA", "findU"}
  BY DEF GetBlacklist, GetAccess, FindUser, At
<1>2. f \in Frame /\ FrameOK(f, now, rows) /\ RefusalOK(f, now, revoked)
  BY <1>1, FrameFacts
<1>3. f.op = "validate" /\ ValidateOK(f, now, rows)
  BY <1>1, <1>2 DEF FrameOK, LoginOK, LoginPcs, RefreshOK, RefreshPcs
<1>4. Quiet
  BY DEF GetBlacklist, GetAccess, FindUser, Quiet
<1>5. /\ now' = now /\ rows' = rows /\ revoked' = revoked
      /\ RowsKept(rows, rows') /\ revoked \subseteq revoked'
  BY <1>4 DEF Quiet, store, history, RowsKept
<1>6. ASSUME NEW pc \in {"getA", "findU", "cacheA", "ok"}, Goto(p, pc),
             pc \in {"cacheA", "ok"} => Local(f.user, f.ns),
             f.pc = "getB" => RefusalOK([f EXCEPT !.pc = pc], now, revoked)
      PROVE  FramesInv'
  <2>1. pc \in Pcs
    BY DEF Pcs
  <2>2. FrameOK([f EXCEPT !.pc = pc], now, rows)
    BY <1>2, <1>3, <1>6 DEF Frame, FrameOK, ValidateOK, ValidatePcs
  <2>3. FrameOK([f EXCEPT !.pc = pc], now, rows')
    BY <1>5, <2>2
  <2>4. f.pc = "getB" => RefusalOK([f EXCEPT !.pc = pc], now, revoked')
    BY <1>5, <1>6
  <2> QED BY <1>1, <1>5, <1>6, <2>1, <2>3, <2>4, GotoStep
<1>7. CASE Drop(p)
  BY <1>5, <1>7, DropStep
<1>8. CASE GetBlacklist(p) /\ ~Drop(p)
  <2>1. Goto(p, "getA") /\ ~Cached(blacklist, f.ns, f.acc)
    BY <1>8 DEF GetBlacklist
  <2>2. "revoked" \in f.was => ~Live(f.acc, now)
    <3>1. HAVE "revoked" \in f.was
    <3>2. <<f.ns, f.acc>> \in revoked
      BY <1>2, <1>3, <3>1 DEF RefusalOK
    <3> QED BY <2>1, <3>2 DEF IInv, BlacklistHolds, Cached
  <2>3. RefusalOK([f EXCEPT !.pc = "getA"], now, revoked)
    BY <1>2, <2>2 DEF RefusalOK, Frame
  <2> QED BY <1>6, <2>1, <2>3
<1>9. CASE GetAccess(p)
  <2>1. f.pc = "getA"
    BY <1>9 DEF GetAccess, At
  <2>2. CASE Cached(accessCache, f.ns, f.acc)
    <3>1. Local(f.acc.user, f.ns) /\ f.acc.user = f.user
      BY <1>3, <2>2 DEF IInv, KeysOK, Cached, ValidateOK, SignedFor
    <3>2. Goto(p, "ok")
      BY <1>9, <2>2 DEF GetAccess
    <3>3. Local(f.user, f.ns)
      BY <3>1
    <3> QED BY <1>6, <2>1, <3>2, <3>3
  <2>3. CASE ~Cached(accessCache, f.ns, f.acc)
    <3>1. Goto(p, "findU")
      BY <1>9, <2>3 DEF GetAccess
    <3> QED BY <1>6, <2>1, <3>1
  <2> QED BY <2>2, <2>3
<1>10. CASE FindUser(p) /\ ~Drop(p)
  <2>1. f.pc = "findU" /\ Home[f.user] = Root
    BY <1>10 DEF FindUser, At
  <2>2. Local(f.user, f.ns)
    BY <2>1 DEF Local
  <2>3. CASE Goto(p, "cacheA")
    BY <1>6, <2>1, <2>2, <2>3
  <2>4. ASSUME NEW r \in ValidRowsOf(f.user, Root),
               frame' = [frame EXCEPT ![p].pc = "cacheA", ![p].ref = r]
        PROVE  FramesInv'
    <3> DEFINE g == [f EXCEPT !.pc = "cacheA", !.ref = r]
    <3>1. Owned(r, f.user, rows) /\ r \in RefreshTokens
      BY <2>4 DEF ValidRowsOf, Owned
    <3>2. frame' = [frame EXCEPT ![p] = g]
      BY <2>4
    <3>3. g \in Frame
      BY <1>2, <3>1 DEF Frame, Pcs
    <3>4. FrameOK(g, now, rows)
      BY <1>2, <1>3, <2>2, <3>1 DEF Frame, FrameOK, ValidateOK, ValidatePcs
    <3>5. RefusalOK(g, now, revoked)
      BY <1>2, <2>1 DEF Frame, RefusalOK
    <3> HIDE DEF g
    <3> QED BY <1>4, <3>2, <3>3, <3>4, <3>5, SetStep
  <2> QED BY <1>10, <2>3, <2>4 DEF FindUser
<1> QED BY <1>7, <1>8, <1>9, <1>10

\* The clock, and stuttering: no request moves.
LEMMA FramesTick ==
  ASSUME IInv, frame' = frame, now' \in Nat, now <= now', rows' = rows, revoked' = revoked
  PROVE  FramesInv'
<1>1. frame \in [Reqs -> Frame] /\ now \in Nat
  BY DEF IInv, TypeOK
<1>2. InFlight' = InFlight
  BY DEF InFlight
<1>3. ASSUME NEW p \in InFlight
      PROVE  FrameOK(frame[p], now', rows') /\ RefusalOK(frame[p], now', revoked')
  <2>1. p \in Reqs /\ frame[p].pc \notin {"new", "done"}
    BY <1>3 DEF InFlight
  <2>2. frame[p] \in Frame /\ FrameOK(frame[p], now, rows) /\ RefusalOK(frame[p], now, revoked)
    BY <2>1, FrameFacts
  <2>3. frame[p].op = "validate" => frame[p].acc \in Jwt
    BY <2>2 DEF FrameOK, ValidateOK, SignedFor
  <2>4. RowsKept(rows, rows') /\ revoked \subseteq revoked'
    BY DEF RowsKept
  <2>5. FrameOK(frame[p], now', rows')
    BY <1>1, <2>2, <2>4, FrameStable
  <2>6. RefusalOK(frame[p], now', revoked')
    BY <1>1, <2>2, <2>3, <2>4, RefusalStable
  <2> QED BY <2>5, <2>6
<1> QED BY <1>1, <1>2, <1>3 DEF FramesInv, FramesOK, RefusalHolds

\* Every step leaves every request with what its next await relies on.
LEMMA FramesStep == IInv /\ [Next]_vars => FramesInv'
<1> SUFFICES ASSUME IInv, [Next]_vars PROVE FramesInv'
  OBVIOUS
<1>1. CASE Tick
  <2>1. now \in Nat
    BY DEF IInv, TypeOK
  <2>2. /\ frame' = frame /\ now' \in Nat /\ now <= now'
        /\ rows' = rows /\ revoked' = revoked
    BY <1>1, <2>1 DEF Tick, history
  <2> QED BY <2>2, FramesTick
<1>2. CASE UNCHANGED vars
  <2>1. now \in Nat
    BY DEF IInv, TypeOK
  <2>2. /\ frame' = frame /\ now' \in Nat /\ now <= now'
        /\ rows' = rows /\ revoked' = revoked
    BY <1>2, <2>1 DEF vars, store, history
  <2> QED BY <2>2, FramesTick
<1>3. ASSUME NEW p \in Reqs, Arrive(p) PROVE FramesInv'
  BY <1>3, ArriveLogin, ArriveRefresh, ArriveValidate DEF Arrive
<1>4. ASSUME NEW p \in Reqs, LoginStep(p) PROVE FramesInv'
  <2>1. CASE RefuseTwoFactor(p)
    <3>1. Drop(p) /\ UNCHANGED <<now, rows>> /\ revoked \subseteq revoked'
      BY <2>1 DEF RefuseTwoFactor, store, history
    <3> QED BY <3>1, DropStep
  <2> QED BY <1>4, <2>1, LoginMoves, ClearMoves, IssueMoves DEF LoginStep
<1>5. ASSUME NEW p \in Reqs, Reply(p) \/ Fail(p) PROVE FramesInv'
  <2>1. Drop(p) /\ UNCHANGED <<now, rows>> /\ revoked \subseteq revoked'
    BY <1>5 DEF Reply, Fail, store, history
  <2> QED BY <2>1, DropStep
<1>6. ASSUME NEW p \in Reqs, ValidateStep(p) PROVE FramesInv'
  BY <1>6, ValidateMoves, ArriveRefresh DEF ValidateStep
<1> QED BY <1>1, <1>2, <1>3, <1>4, <1>5, <1>6, RefreshMoves DEF Next, Settle

-----------------------------------------------------------------------------
(* The theorems.                                                           *)

\* No session, no key and no request at the start.
LEMMA InitInv == Init => IInv
<1> SUFFICES ASSUME Init PROVE IInv
  OBVIOUS
<1>1. \A p \in Reqs : frame[p].pc = "new"
  BY DEF Init, Blank, NewFrame
<1>2. InFlight = {}
  BY <1>1 DEF InFlight
<1>3. frame \in [Reqs -> Frame]
  BY BlankFrame DEF Init
<1>4. StoreOK
  BY HomeAssumption DEF Init, StoreOK
<1>5. KeysOK /\ BlacklistHolds
  BY DEF Init, KeysOK, BlacklistHolds
<1> QED BY <1>2, <1>3, <1>4, <1>5, TypeParts DEF IInv, FramesOK, RefusalHolds

\* The inductive invariant of the session core: every await of login, refresh
\* and validate finds what the steps before it established, and the blacklist
\* covers every revoked token that is still alive.
THEOREM Inductive == Spec => []IInv
<1>1. Init => IInv
  BY InitInv
<1>2. IInv /\ [Next]_vars => IInv'
  <2> SUFFICES ASSUME IInv, [Next]_vars PROVE IInv'
    OBVIOUS
  <2>1. KeysInv' /\ FramesInv'
    BY KeysStep, FramesStep
  <2>2. TypeOK'
    BY <2>1 DEF KeysInv, FramesInv, TypeOK, StoreOK
  <2> QED BY <2>1, <2>2 DEF IInv, KeysInv, FramesInv
<1> QED BY <1>1, <1>2, PTL DEF Spec

\* The tables, the Redis keys and the locals of the handlers keep their types.
THEOREM SessionTypes == Spec => []TypeOK
<1>1. IInv => TypeOK
  BY DEF IInv
<1> QED BY <1>1, Inductive, PTL

\* JwtStrategy.validate never accepts a live token that was revoked, in the
\* request's own namespace, before the request arrived, whatever the number of
\* requests in flight and the lifetimes, as long as the blacklist keeps a token
\* at least as long as it lives.  A token revoked in one namespace is not
\* revoked in another.
THEOREM RevocationHolds == Spec => []RevokedTokenRefused
<1>1. IInv => RevokedTokenRefused
  <2> SUFFICES ASSUME IInv, NEW p \in Reqs, At(p, "ok"), frame[p].op = "validate",
                      "revoked" \in frame[p].was
               PROVE  ~Live(frame[p].acc, now)
    BY DEF RevokedTokenRefused
  <2>1. frame[p].pc = "ok"
    BY DEF At
  <2>2. RefusalOK(frame[p], now, revoked)
    BY <2>1, FrameFacts
  <2> QED BY <2>1, <2>2 DEF RefusalOK
<1> QED BY <1>1, Inductive, PTL

\* Login, refresh and validate never serve a tenant's user under another
\* tenant's code.
THEOREM TenantsIsolated == Spec => []TenantIsolation
<1>1. IInv => TenantIsolation
  <2> SUFFICES ASSUME IInv, NEW p \in Reqs, At(p, "ok"), Home[frame[p].user] # Root
               PROVE  frame[p].ns = Home[frame[p].user]
    BY DEF TenantIsolation
  <2>1. frame[p].pc = "ok"
    BY DEF At
  <2>2. FrameOK(frame[p], now, rows)
    BY <2>1, FrameFacts
  <2> QED BY <2>1, <2>2 DEF FrameOK, LoginOK, RefreshOK, ValidateOK, Local
<1> QED BY <1>1, Inductive, PTL

\* A refresh is granted to the user the presented refresh token was issued to;
\* one without a token, to a user who was issued some refresh token.
THEOREM RefreshOwned == Spec => []RefreshGrantOwner
<1>1. IInv => RefreshGrantOwner
  <2> SUFFICES ASSUME IInv, NEW p \in Reqs, At(p, "ok"), frame[p].op = "refresh"
               PROVE  \E r \in RefreshTokens :
                        /\ rows[r] # None /\ rows[r].user = frame[p].user
                        /\ frame[p].ref \in {r, None}
    BY DEF RefreshGrantOwner
  <2>1. frame[p].pc = "ok"
    BY DEF At
  <2>2. FrameOK(frame[p], now, rows)
    BY <2>1, FrameFacts
  <2> QED BY <2>1, <2>2 DEF FrameOK, RefreshOK, Redeemed, Owned
<1> QED BY <1>1, Inductive, PTL
=============================================================================
