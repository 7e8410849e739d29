---------------------------- MODULE MCQueueClaim ----------------------------
(* QueueClaim with values for the model checker.                           *)
EXTENDS QueueClaim

CONSTANTS f1, f2, f3

ThreeFiles == {f1, f2, f3}
=============================================================================
