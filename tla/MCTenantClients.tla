--------------------------- MODULE MCTenantClients ---------------------------
(* Small instances of TenantClients for TLC.                               *)
EXTENDS TenantClients, TLC

\* Calls, instances and client codes are interchangeable.
MCSymmetry == Permutations(Calls) \cup Permutations(Clients) \cup Permutations(Codes)
=============================================================================
