-------------------------- MODULE MCAntigravityCall --------------------------
(* Values of AntigravityCall's constants for the model checker. *)
EXTENDS AntigravityCall

\* The answers of all providers, long enough for two thoughts or pieces and one item
\* too many; and the calls of Antigravity with what may go wrong around them.
Answer(p, what, n) ==
  [provider |-> p, op |-> what, items |-> n, strays |-> 2, faults |-> 0, tampers |-> 0]
MCWorkloads ==
  {Answer(p, "execute", 6) : p \in {"codex_cli", "gemini_cli"}} \cup
  {Answer(p, "execute", 4) : p \in Interfaces} \cup
  {Answer(p, "models", 3) : p \in Interfaces} \cup
  {Answer("antigravity_cli", "models", 3), Answer("antigravity_cli", "execute", 4),
   [Answer("antigravity_cli", "execute", 0) EXCEPT !.faults = 2, !.tampers = 1],
   [Answer("antigravity_cli", "inspect", 0) EXCEPT !.faults = 1, !.tampers = 1],
   [Answer("antigravity_cli", "probe", 2) EXCEPT !.faults = 1]}
=============================================================================
