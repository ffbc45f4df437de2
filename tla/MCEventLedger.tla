--------------------------- MODULE MCEventLedger ---------------------------
(* Two creates of one title, two edits and two changes of state for TLC. *)
EXTENDS EventLedger, TLC

CONSTANTS c1, c2, u1, u2, p1, p2, fair

MCRequests == {c1, c2, u1, u2, p1, p2}
MCKind == [r \in {c1, c2} |-> "create"] @@ [r \in {u1, u2} |-> "edit"]
              @@ [r \in {p1, p2} |-> "state"]
MCTitle == [r \in MCRequests |-> fair]
MCTarget == [r \in MCRequests |-> IF r = p2 THEN "canceled" ELSE "published"]
=============================================================================
