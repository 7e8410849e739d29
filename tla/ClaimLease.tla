----------------------------- MODULE ClaimLease -----------------------------
(***************************************************************************)
(* What a reader of the queue may find out about the claim of a lane: there*)
(* is none, one is being written, one is held for a token, or it is        *)
(* committed.  A claim never changes its token, is never committed twice   *)
(* and never falls back; only a release ends it.  That a commit moves files*)
(* around does not show.                                                   *)
(***************************************************************************)
CONSTANTS Lanes, Tokens, NoToken

VARIABLE lease

At(k, state, token) == lease' = [lease EXCEPT ![k] = [state |-> state, token |-> token]]

Init == lease = [k \in Lanes |-> [state |-> "free", token |-> NoToken]]

Open(k) == lease[k].state = "free" /\ At(k, "torn", NoToken)

Fill(k) == lease[k].state = "torn" /\ \E t \in Tokens : At(k, "held", t)

Commit(k) == lease[k].state = "held" /\ At(k, "committed", lease[k].token)

Release(k) == lease[k].state # "free" /\ At(k, "free", NoToken)

Next == \E k \in Lanes : Open(k) \/ Fill(k) \/ Commit(k) \/ Release(k)

Spec == Init /\ [][Next]_lease
=============================================================================
