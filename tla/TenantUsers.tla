---------------------------- MODULE TenantUsers ----------------------------
(***************************************************************************)
(* What provisioning, signup and mail verification promise together,       *)
(* whatever the awaits, child processes and failures between them: a       *)
(* tenant that is served stays served; a signup makes one user, with an    *)
(* address of its own and at most one administrator per tenant; a link     *)
(* stands for one address of one tenant; a confirmation that carries the   *)
(* token of a link confirms the user that was made with it and nobody      *)
(* else, one that carries none a user of its tenant.                       *)
(***************************************************************************)
CONSTANTS Codes, User, Mail, None

VARIABLES
  served,  \* tenants whose database holds tables and client row
  rows,    \* their users
  mailed,  \* confirmation links delivered
  asked    \* confirmations under way: their tenant and their token, if any

vars == <<served, rows, mailed, asked>>

Init == served = {} /\ rows = {} /\ mailed = {} /\ asked = {}

Serve(c) ==
  /\ served' = served \cup {c}
  /\ UNCHANGED <<rows, mailed, asked>>

Join(u) ==
  /\ u.code \in served /\ ~u.verified
  /\ \A v \in rows : /\ v.tok # u.tok
                     /\ v.code = u.code => v.email # u.email /\ ~(v.admin /\ u.admin)
  /\ \A m \in mailed : m.tok = u.tok => m.code = u.code /\ m.email = u.email
  /\ rows' = rows \cup {u}
  /\ UNCHANGED <<served, mailed, asked>>

\* The link may arrive before the user is made, or although none ever is.
Deliver(m) ==
  /\ \A x \in rows \cup mailed : x.tok = m.tok => x.code = m.code /\ x.email = m.email
  /\ mailed' = mailed \cup {m}
  /\ UNCHANGED <<served, rows, asked>>

Tokens == {m.tok : m \in mailed}
Tenants == {m.code : m \in mailed}

Ask(c, t) ==
  /\ asked' = asked \cup {[code |-> c, tok |-> t]}
  /\ UNCHANGED <<served, rows, mailed>>

\* Confirmations end, with or without having confirmed anybody.
Forget ==
  /\ asked' \subseteq asked
  /\ UNCHANGED <<served, rows, mailed>>

\* Confirmation k may confirm user u.
Entitles(k, u) ==
  /\ k.code = u.code
  /\ \/ k.tok = None
     \/ k.tok = u.tok /\ [code |-> u.code, email |-> u.email, tok |-> u.tok] \in mailed

Confirm(u) ==
  /\ \E k \in asked : Entitles(k, u)
  /\ rows' = (rows \ {u}) \cup {[u EXCEPT !.verified = TRUE]}
  /\ asked' \subseteq asked
  /\ UNCHANGED <<served, mailed>>

Next ==
  \/ \E c \in Codes : Serve(c)
  \/ \E u \in User : Join(u)
  \/ \E m \in Mail : Deliver(m)
  \/ \E c \in Tenants, t \in Tokens \cup {None} : Ask(c, t)
  \/ Forget
  \/ \E u \in rows : Confirm(u)

Spec == Init /\ [][Next]_vars
=============================================================================
