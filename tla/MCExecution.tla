---------------------------- MODULE MCExecution ----------------------------
(* Instances of Execution for TLC. *)
EXTENDS ExecutionQueue, TLC

CONSTANTS e1, e2, r1, r2

OneRef   == [e \in Execs |-> r1]
TwoRefs  == (e1 :> r1) @@ (e2 :> r2)
SameRef  == Permutations({e1, e2})
=============================================================================
