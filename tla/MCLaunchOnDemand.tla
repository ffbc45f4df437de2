-------------------------- MODULE MCLaunchOnDemand --------------------------
(* Two visitors of one realization with at most two executions, a cache     *)
(* that lives for one tick and queries that take at most one; every launch  *)
(* has two attempts.  Where one visitor comes alone, again and again, a     *)
(* statement of webd fails or execd meets an outage.                        *)
EXTENDS LaunchOnDemand, TLC

CONSTANTS v1, v2
AloneOrTogether == {v1} :> 1 @@ {v1, v2} :> 0
=============================================================================
