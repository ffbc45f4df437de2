---------------------------- MODULE MCClaimStore ----------------------------
(* Two or three requests on two objects for TLC. *)
EXTENDS ClaimStore, TLC

CONSTANTS r1, r2, r3, x1, x2

MCWrites == (r1 :> <<x1>>) @@ (r2 :> <<x2, x1>>)
ThreeWrites == (r1 :> <<x1>>) @@ (r2 :> <<x2>>) @@ (r3 :> <<x1, x2>>)

\* Neither page views nor the rebuild matter to what reaches the ledger.
NoReaders == view = None /\ build = "load"
=============================================================================
