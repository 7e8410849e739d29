----------------------------- MODULE MCCliCall -----------------------------
(* Values of CliCall's constants for the model checker. *)
EXTENDS CliCall

CONSTANTS c1, c2

\* One call of a CLI below the profile, aborted or tampered with; two concurrent
\* calls, one of which something fails for; and two with a crash, after which the
\* letters left behind are cleaned or not.
Workload == [roots |-> {"runtime"}, made |-> {c1, c2}, faults |-> 0, crashes |-> 0, aborts |-> 0,
             tampers |-> 0, cleans |-> FALSE]
MCWorkloads ==
  {[Workload EXCEPT !.roots = Roots, !.made = {c1}, !.faults = 2, !.aborts = 1, !.tampers = 1],
   [Workload EXCEPT !.faults = 1],
   [Workload EXCEPT !.crashes = 1],
   [Workload EXCEPT !.made = {c1}, !.faults = 2, !.crashes = 1, !.cleans = TRUE]}

\* Two calls, one of which is cancelled, and nothing fails.
MCCancelled == {[Workload EXCEPT !.aborts = 1]}
=============================================================================
