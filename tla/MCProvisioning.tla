--------------------------- MODULE MCProvisioning ---------------------------
(* Instances of Provisioning for TLC.                                      *)
EXTENDS Provisioning, TLC

\* Paid clients, addresses and requests are interchangeable.
MCSymmetry == Permutations(Paid) \cup Permutations(Emails) \cup Permutations(Reqs)
=============================================================================
