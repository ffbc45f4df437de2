--------------------------- MODULE AuthorityBook ---------------------------
(***************************************************************************)
(* What the authority store promises: a book in which a grant, once it is  *)
(* recorded, stays.  The grants of old are in it from the beginning, each  *)
(* later one is entered once, on its own and after the grant that it       *)
(* supersedes.  A page for the readers shows recorded grants; it may be    *)
(* thrown away or written anew at any time without touching the book.      *)
(* AuthorityLedger implements it with a ledger that is filled by requests  *)
(* that overlap, and a projection that they rebuild.                       *)
(***************************************************************************)
CONSTANTS
    Grants, Supersedes,  \* as in AuthorityLedger
    Old,                 \* grants that are there at the beginning
    None

VARIABLES
    recorded,  \* the grants in the book
    shown      \* the grants on the page

vars == <<recorded, shown>>

Init == recorded = Old /\ shown = Old

Record(g) ==
    /\ g \notin recorded /\ Supersedes[g] \in recorded \cup {None}
    /\ recorded' = recorded \cup {g}
    /\ UNCHANGED shown

Show ==
    /\ shown' \in SUBSET recorded
    /\ UNCHANGED recorded

Next == Show \/ \E g \in Grants : Record(g)

Spec == Init /\ [][Next]_vars
=============================================================================
