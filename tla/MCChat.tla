------------------------------- MODULE MCChat -------------------------------
(* Small instances of Chat for TLC.                                        *)
EXTENDS Chat, TLC

\* Users and sockets are interchangeable.
MCSymmetry == Permutations(Users) \cup Permutations(Sockets)
=============================================================================
