---------------------------- MODULE TokenService ----------------------------
(***************************************************************************)
(* What the session core promises its clients, whatever its caches, rows   *)
(* and awaits: a token is granted to a request only in the user's own      *)
(* namespace; a refresh token serves its owner only, for ever, and a       *)
(* refresh without a token serves only users a token was issued to; and an *)
(* access token that was revoked before the request asked, in the          *)
(* namespace it asks in, is refused for as long as it would live.          *)
(***************************************************************************)
EXTENDS Naturals

CONSTANTS Users, Ns, Root, Home, Reqs, RefreshTokens, Tags, AccessLife, None

VARIABLES
  time,     \* the clock
  owner,    \* the user a refresh token was issued to, None if it was not
  issued,   \* access tokens handed to clients, with their namespace
  revoked,  \* the access tokens revoked so far, with their namespace
  req       \* what each request asked for and was granted

vars == <<time, owner, issued, revoked, req>>

\* The access tokens of the users U that can have been signed by now.
Signed(U) == [user : U, iat : 0 .. time, tag : Tags]

Request(op, phase, user, ns, tok, ref, stale) ==
  [op |-> op, phase |-> phase, user |-> user, ns |-> ns, tok |-> tok, ref |-> ref,
   stale |-> stale]

Idle == Request("none", "idle", None, None, None, None, FALSE)
Over == Request("none", "over", None, None, None, None, FALSE)

Init ==
  /\ time = 0
  /\ owner = [r \in RefreshTokens |-> None]
  /\ issued = {} /\ revoked = {}
  /\ req = [p \in Reqs |-> Idle]

Pass ==
  /\ time' = time + 1
  /\ UNCHANGED <<owner, issued, revoked, req>>

\* A refresh token is issued, once.
Register(r, u) ==
  /\ owner[r] = None
  /\ owner' = [owner EXCEPT ![r] = u]
  /\ UNCHANGED <<time, issued, revoked, req>>

\* Access tokens are revoked, for good.
Revoke ==
  /\ revoked \subseteq revoked' /\ revoked' \ revoked \subseteq Ns \X Signed(Users)
  /\ UNCHANGED <<time, owner, issued, req>>

Become(p, q) ==
  /\ req' = [req EXCEPT ![p] = q]
  /\ UNCHANGED <<time, owner, revoked>>

AskLogin(p, u) ==
  /\ req[p].phase = "idle"
  /\ Become(p, Request("login", "asked", u, Home[u], None, None, FALSE))
  /\ UNCHANGED issued

\* A refresh is asked for by a client, or on behalf of a user just validated,
\* with a refresh token that was issued or with none.
AskRefresh(p, u, ns, r) ==
  /\ \/ req[p].phase = "idle"
     \/ req[p].phase = "granted" /\ req[p].op = "validate" /\ req[p].user = u /\ req[p].ns = ns
  /\ r # None => owner[r] # None
  /\ Become(p, Request("refresh", "asked", u, ns, None, r, FALSE))
  /\ UNCHANGED issued

AskValidate(p, g, ns) ==
  /\ req[p].phase = "idle" /\ g \in issued
  /\ Become(p, Request("validate", "asked", g.tok.user, ns, g.tok, None,
                       <<ns, g.tok>> \in revoked))
  /\ UNCHANGED issued

\* What a refresh for user u redeems: the token it names, or any of u's.
Redeems(ref, u) == \E r \in RefreshTokens : owner[r] = u /\ ref \in {r, None}

\* A tenant's user is served in its own namespace only.
Local(u, ns) == Home[u] # Root => ns = Home[u]

Grant(p) ==
  LET q == req[p]
  IN /\ q.phase = "asked" /\ Local(q.user, q.ns)
     /\ \E t \in Signed({q.user}) :
          /\ q.op = "refresh" => Redeems(q.ref, q.user)
          /\ q.op = "validate" => t = q.tok
          /\ q.stale => t.iat + AccessLife <= time
          /\ Become(p, Request(q.op, "granted", q.user, q.ns, t, q.ref, q.stale))
     /\ UNCHANGED issued

Answer(p) ==
  /\ req[p].phase = "granted"
  /\ Become(p, Over)
  /\ issued' = IF req[p].op = "validate" THEN issued
               ELSE issued \cup {[ns |-> req[p].ns, tok |-> req[p].tok]}

Refuse(p) ==
  /\ req[p].phase = "asked"
  /\ Become(p, Over)
  /\ UNCHANGED issued

Next ==
  \/ Revoke \/ Pass
  \/ \E r \in RefreshTokens, u \in Users : Register(r, u)
  \/ \E p \in Reqs :
       \/ \E u \in Users : AskLogin(p, u)
       \/ \E u \in Users, ns \in Ns, r \in RefreshTokens \cup {None} : AskRefresh(p, u, ns, r)
       \/ \E g \in issued, ns \in Ns : AskValidate(p, g, ns)
       \/ Grant(p) \/ Answer(p) \/ Refuse(p)

Spec == Init /\ [][Next]_vars
=============================================================================
