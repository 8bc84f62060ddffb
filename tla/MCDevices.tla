----------------------------- MODULE MCDevices ------------------------------
(* Instances of Devices for TLC.                                           *)
EXTENDS Devices, TLC

\* Calls, refresh tokens and addresses are interchangeable.
MCSymmetry == Permutations(Calls) \cup Permutations(RefreshTokens) \cup Permutations(Ips)
=============================================================================
