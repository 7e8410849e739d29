---------------------------- MODULE MCJobRunner ----------------------------
(* Values of JobRunner's constants for the model checker. *)
EXTENDS JobRunner

\* Jobs 1 and 3 come from the phone and 2 from the PC; 2 and 3 have the same
\* sources.
MCFingerprint == [j \in Jobs |-> IF j = 1 THEN "a" ELSE "b"]

\* The inbox is listed in the order the bundles were made.
MCPlace == [j \in Jobs |-> j]
=============================================================================
