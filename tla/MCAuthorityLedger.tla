-------------------------- MODULE MCAuthorityLedger --------------------------
(* Instances of AuthorityLedger for TLC. *)
EXTENDS AuthorityLedger, TLC

CONSTANTS old, new, newer, c1, c2, c3

Chain == [g \in Grants |-> CASE g = old   -> None
                             [] g = new   -> IF old \in Grants THEN old ELSE None
                             [] g = newer -> new]
Ages  == [g \in Grants |-> CASE g = old -> 0 [] g = new -> 1 [] g = newer -> 2]

SameCallers == Permutations(Callers)
=============================================================================
