----------------------------- MODULE MCOAuthFlow -----------------------------
(* OAuthFlow for TLC: the names of transactions, clients, visits and token  *)
(* requests are interchangeable; the accounts differ by Members.            *)
EXTENDS OAuthFlow, TLC

Symmetry == Permutations(Txn) \cup Permutations(Client)
              \cup Permutations(Visit) \cup Permutations(Exchange)
=============================================================================
