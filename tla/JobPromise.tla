------------------------------ MODULE JobPromise ------------------------------
(***************************************************************************)
(* What the job runner promises of one submission, whatever fails on the     *)
(* way: it is refused for good or becomes a job, once; a job ends completed  *)
(* or waits for the user, who may put it back; a completed job has both its  *)
(* outputs on record and neither changes any more.  Stated over the public   *)
(* outcome of jobs (toPublicQueueStatus in src/shared/contracts/job.ts and   *)
(* the job_artifacts rows), without the runner, its stages or its retries.   *)
(***************************************************************************)
CONSTANTS Jobs, Kinds

VARIABLES phase, recorded
vars == <<phase, recorded>>

Init ==
  /\ phase = [j \in Jobs |-> "submitted"]
  /\ recorded = [j \in Jobs |-> {}]

Refuse(j) ==
  /\ phase[j] = "submitted"
  /\ phase' = [phase EXCEPT ![j] = "refused"]
  /\ UNCHANGED recorded

Accept(j) ==
  /\ phase[j] = "submitted"
  /\ phase' = [phase EXCEPT ![j] = "pending"]
  /\ UNCHANGED recorded

\* An output is put on record once, while the job is being worked on.
Record(j, kind) ==
  /\ phase[j] = "pending"
  /\ kind \notin recorded[j]
  /\ recorded' = [recorded EXCEPT ![j] = @ \cup {kind}]
  /\ UNCHANGED phase

Complete(j) ==
  /\ phase[j] = "pending"
  /\ recorded[j] = Kinds
  /\ phase' = [phase EXCEPT ![j] = "completed"]
  /\ UNCHANGED recorded

NeedAttention(j) ==
  /\ phase[j] = "pending"
  /\ phase' = [phase EXCEPT ![j] = "attention"]
  /\ UNCHANGED recorded

Resolve(j) ==
  /\ phase[j] = "attention"
  /\ phase' = [phase EXCEPT ![j] = "pending"]
  /\ UNCHANGED recorded

Next ==
  \E j \in Jobs :
    \/ Refuse(j) \/ Accept(j) \/ Complete(j) \/ NeedAttention(j) \/ Resolve(j)
    \/ \E kind \in Kinds : Record(j, kind)

Spec == Init /\ [][Next]_vars
=============================================================================
