------------------------- MODULE MCRefreshRotation -------------------------
(***************************************************************************)
(* Small instances of RefreshRotation: two instances that share one Redis,  *)
(* i1 strict and i2 "contain".                                              *)
(***************************************************************************)
EXTENDS RefreshRotation, TLC

CONSTANTS f1, a1, p1

MCAccountOf == [f \in Family |-> a1]

\* One family that was alive before the upgrade.
MCLegacyHead == [f \in Family |-> IF f = f1 THEN p1 ELSE None]

\* No family predates the upgrade.
MCNoLegacy == [f \in Family |-> None]

\* p1 is the legacy pair, the others are interchangeable.
MCSymmetry == Permutations(Pair \ {p1}) \cup Permutations(Req)
              \cup Permutations(Client)
=============================================================================
