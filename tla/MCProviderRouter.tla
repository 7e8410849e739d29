-------------------------- MODULE MCProviderRouter --------------------------
(* Values of ProviderRouter's constants for the model checker. *)
EXTENDS ProviderRouter

CONSTANTS r1, r2, r3

\* Two requests of one feature and one of another; the first has a picture.
MCFeature == [r \in Requests |-> IF r = r3 THEN "answer" ELSE "study"]
MCMedia == [r \in Requests |-> IF r = r1 THEN "image" ELSE "none"]
\* Two concurrent requests of an HTTP provider, one whose database fails or
\* whose settings change, and three that take turns at a command-line one.
Everything(p) == [study |-> p, answer |-> p]
MCWorkloads ==
  {[to |-> Everything("openai_api"), made |-> {r1, r2}, disturbances |-> 0],
   [to |-> Everything("openai_api"), made |-> {r1}, disturbances |-> 2],
   [to |-> Everything("codex_cli"), made |-> {r1, r2, r3}, disturbances |-> 0]}
=============================================================================
