----------------------------- MODULE MCSessions -----------------------------
(* Small instances of Sessions for TLC.                                    *)
EXTENDS Sessions, TLC

CONSTANTS root_user, tenant_user, tenant_a

\* One user in the root database and one in tenant_a's.
MCHome == [u \in Users |-> IF u = tenant_user THEN tenant_a ELSE Root]

\* Requests, uuids and client addresses are interchangeable.
MCSymmetry ==
  Permutations(Reqs) \cup Permutations(RefreshTokens) \cup Permutations(Ips)
=============================================================================
