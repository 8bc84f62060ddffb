----------------------------- MODULE MCAccounts -----------------------------
(* Instances of Accounts for TLC.                                          *)
EXTENDS Accounts, TLC

\* Paid clients, addresses and requests are interchangeable.
MCSymmetry == Permutations(Paid) \cup Permutations(Emails) \cup Permutations(Reqs)
=============================================================================
