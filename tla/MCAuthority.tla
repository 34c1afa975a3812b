---------------------------- MODULE MCAuthority ----------------------------
(* A home and two apps: the newer ships one released and one unreleased
   migration more than the older.                                            *)
EXTENDS Authority, TLC

CONSTANTS old, new

MCApps == {old, new}
MCLatest == [a \in MCApps |-> IF a = old THEN 1 ELSE 3]
MCReleased == [a \in MCApps |-> IF a = old THEN 1 ELSE 2]

Symmetry == Permutations(Procs)
=============================================================================
