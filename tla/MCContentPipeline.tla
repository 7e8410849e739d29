------------------------- MODULE MCContentPipeline -------------------------
(* Values of ContentPipeline's constants for the model checker. *)
EXTENDS ContentPipeline

Bound(c, f, q, k, d) == [changes |-> c, faults |-> f, quits |-> q, crashes |-> k, damages |-> d]

\* Two changes of what is saved; a change among failures; the program's end, twice asked for.
MCWorkloads == {Bound(2, 0, 0, 0, 0), Bound(1, 1, 0, 1, 0), Bound(0, 1, 2, 1, 1)}
=============================================================================
