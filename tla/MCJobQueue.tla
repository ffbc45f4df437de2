----------------------------- MODULE MCJobQueue -----------------------------
(* Instances of JobQueue for TLC. *)
EXTENDS JobQueue, TLC

CONSTANTS j1, j2, j3, k1

\* j1 and j2 share a dedupe key; j3 is more urgent and has none.
MCJobs == {j1, j2, j3}
MCPriority == (j1 :> 100) @@ (j2 :> 100) @@ (j3 :> 140)
MCDedupe == (j1 :> k1) @@ (j2 :> k1) @@ (j3 :> NoKey)
=============================================================================
