---------------------------- MODULE TokenFamily ----------------------------
(***************************************************************************)
(* What the refresh-token store promises, without Redis, requests or time:  *)
(* a family is a chain of pairs.  It begins once, has at most one live      *)
(* pair, each pair has at most one successor, and once closed it never      *)
(* opens again.                                                             *)
(***************************************************************************)
CONSTANTS Pair, Family

VARIABLES
    used,       \* pairs minted so far
    live,       \* per family: {} or the set of its one live pair
    closed,     \* families that had a live pair and have none any more
    successor   \* per pair: {} or the set of the one pair issued for it

vars == <<used, live, closed, successor>>

Init ==
    /\ used \in SUBSET Pair
    /\ live \in [Family -> {{}} \cup {{p} : p \in used}]
    /\ closed = {}
    /\ successor = [p \in Pair |-> {}]

Begin(f, q) ==
    /\ live[f] = {}
    /\ f \notin closed
    /\ q \in Pair \ used
    /\ used' = used \cup {q}
    /\ live' = [live EXCEPT ![f] = {q}]
    /\ UNCHANGED <<closed, successor>>

Advance(f, p, q) ==
    /\ live[f] = {p}
    /\ successor[p] = {}
    /\ q \in Pair \ used
    /\ used' = used \cup {q}
    /\ live' = [live EXCEPT ![f] = {q}]
    /\ successor' = [successor EXCEPT ![p] = {q}]
    /\ UNCHANGED closed

Close(f) ==
    /\ live[f] # {}
    /\ live' = [live EXCEPT ![f] = {}]
    /\ closed' = closed \cup {f}
    /\ UNCHANGED <<used, successor>>

Next ==
    \E f \in Family :
        \/ \E q \in Pair : Begin(f, q)
        \/ \E p, q \in Pair : Advance(f, p, q)
        \/ Close(f)

Spec == Init /\ [][Next]_vars
=============================================================================
