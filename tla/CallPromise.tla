----------------------------- MODULE CallPromise -----------------------------
(***************************************************************************)
(* What the provider router promises of a request, whatever the provider,  *)
(* the limits and the retries: a request is opened at most once and always *)
(* settles; it is accepted only if its caller has not taken it back; once  *)
(* the router is closed no request is opened, and those that are open are  *)
(* taken back.  Stated over what a caller of execute() and shutdown() sees.*)
(***************************************************************************)
CONSTANTS Requests

VARIABLES
  outcome,   \* r -> idle, open, accepted or refused
  revoked,   \* the requests whose signal is aborted
  closed     \* shutdown() has been called

vars == <<outcome, revoked, closed>>

Init ==
  /\ outcome = [r \in Requests |-> "idle"]
  /\ revoked = {}
  /\ closed = FALSE

Live == {r \in Requests: outcome[r] = "open"}

Open(r) ==
  /\ ~closed /\ r \notin revoked /\ outcome[r] = "idle"
  /\ outcome' = [outcome EXCEPT ![r] = "open"]
  /\ UNCHANGED <<revoked, closed>>

Accept(r) ==
  /\ r \in Live /\ r \notin revoked
  /\ outcome' = [outcome EXCEPT ![r] = "accepted"]
  /\ UNCHANGED <<revoked, closed>>

Refuse(r) ==
  /\ outcome[r] \in {"idle", "open"}
  /\ outcome' = [outcome EXCEPT ![r] = "refused"]
  /\ UNCHANGED <<revoked, closed>>

\* Taking a request back may settle it in the same step.
Revoke(r) ==
  /\ outcome[r] \in {"idle", "open"} /\ r \notin revoked
  /\ revoked' = revoked \cup {r}
  /\ outcome' \in {outcome, [outcome EXCEPT ![r] = "refused"]}
  /\ UNCHANGED closed

\* Closing takes back every open request; some settle in the same step.
Close ==
  /\ closed' = TRUE
  /\ revoked' = revoked \cup Live
  /\ \E R \in SUBSET Live: outcome' = [r \in Requests |-> IF r \in R THEN "refused" ELSE outcome[r]]

Next ==
  \/ \E r \in Requests: Open(r) \/ Accept(r) \/ Refuse(r) \/ Revoke(r)
  \/ Close

Settles(r) == outcome[r] = "open" /\ (Accept(r) \/ Refuse(r))

Spec == Init /\ [][Next]_vars /\ \A r \in Requests: WF_vars(Settles(r))
=============================================================================
