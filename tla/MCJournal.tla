----------------------------- MODULE MCJournal -----------------------------
(***************************************************************************)
(* A small instance of Journal: two writing surfaces on different sites and *)
(* a third one without the write tools.                                     *)
(***************************************************************************)
EXTENDS Journal, TLC

CONSTANTS w1, w2, ro, s1, s2

MCSiteOf == w1 :> s1 @@ ro :> s1 @@ w2 :> s2

MCSymmetry == Permutations(Op) \cup Permutations(Account)
=============================================================================
