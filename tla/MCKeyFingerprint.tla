-------------------------- MODULE MCKeyFingerprint --------------------------
(***************************************************************************)
(* A small fleet for KeyFingerprint.                                        *)
(***************************************************************************)
EXTENDS KeyFingerprint, TLC

MCSymmetry == Permutations(Instance) \cup Permutations(Key)
              \cup Permutations(OAuth)
=============================================================================
