----------------------------- MODULE ClientPool -----------------------------
(***************************************************************************)
(* What TenantPrismaService promises to the repositories, whatever its     *)
(* maps, urls and timers: a pool of at most MaxSize connections, one per   *)
(* tenant, and to every caller a connection to the database of the tenant  *)
(* it asked for, or an error.  A connection is given up for a caller only  *)
(* when the pool is full, and then only one.                               *)
(***************************************************************************)
EXTENDS Naturals, FiniteSets

CONSTANTS Codes, Calls, None, MaxSize

VARIABLES
  held,   \* the tenants with a pooled connection
  wants,  \* the tenant each caller asked for, None while it asks for nothing
  got     \* the tenant whose database the caller was connected to

vars == <<held, wants, got>>

Init ==
  /\ held = {}
  /\ wants = [p \in Calls |-> None]
  /\ got = [p \in Calls |-> None]

\* A tenant whose connection is pooled is served on the spot.
Hit(p, c) ==
  /\ wants[p] = None /\ c \in held
  /\ wants' = [wants EXCEPT ![p] = c]
  /\ got' = [got EXCEPT ![p] = c]
  /\ UNCHANGED held

Miss(p, c) ==
  /\ wants[p] = None /\ c \notin held
  /\ wants' = [wants EXCEPT ![p] = c]
  /\ UNCHANGED <<held, got>>

\* The connection is there: it is pooled, if need be in another one's place.
Supply(p) ==
  /\ wants[p] # None /\ got[p] = None
  /\ got' = [got EXCEPT ![p] = wants[p]]
  /\ \/ held' = held \cup {wants[p]}
     \/ /\ Cardinality(held) = MaxSize
        /\ \E victim \in held : held' = (held \ {victim}) \cup {wants[p]}
  /\ Cardinality(held') <= MaxSize
  /\ UNCHANGED wants

\* The caller is done, or is told that it cannot be served.
Leave(p) ==
  /\ wants[p] # None
  /\ wants' = [wants EXCEPT ![p] = None]
  /\ got' = [got EXCEPT ![p] = None]
  /\ UNCHANGED held

\* Connections nobody has used for long are given up.
Shrink ==
  /\ held' \subseteq held
  /\ UNCHANGED <<wants, got>>

Next ==
  \/ \E p \in Calls, c \in Codes : Hit(p, c) \/ Miss(p, c)
  \/ \E p \in Calls : Supply(p) \/ Leave(p)
  \/ Shrink

Spec == Init /\ [][Next]_vars
=============================================================================
