---------------------------- MODULE MCShowClaims ----------------------------
(* A small flower show for TLC. *)
EXTENDS ShowClaims, TLC

CONSTANTS show1

\* A class with all its splits or with a split and two entries, and two entries
\* with two scorecards.
SplitsOrScores == {Classes \cup Entries \cup Splits, Entries \cup Cards}
OneShow == [c \in Classes |-> show1]
MCSymmetry == Permutations(Splits) \cup Permutations(Cards) \cup Permutations(Media)
                \cup Permutations(Entries) \cup Permutations(Classes)
=============================================================================
