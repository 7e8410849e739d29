--------------------------- MODULE JobStateMachine ---------------------------
(***************************************************************************)
(* The status machine of one job: src/core/jobs/stateMachine.ts and the     *)
(* refinements JobSchema puts on a row (src/shared/contracts/job.ts).  Pure  *)
(* operators only; the modules that keep job rows instantiate nothing and    *)
(* simply EXTEND this one.                                                   *)
(*                                                                         *)
(* A job is abstracted to the fields the machine reads or writes:            *)
(*   status, last     status and lastSuccessfulStatus                        *)
(*   retry            retryCount                                             *)
(*   error            errorCode: "null", or the retry policy of the code     *)
(*   resolved         attentionResolutionId # null                           *)
(*   warning          cleanupWarningCode                                     *)
(* revision and updatedAt are left out: every write changes the row, so      *)
(* "the row still is the one I read" is what the revision check decides.     *)
(***************************************************************************)
EXTENDS Naturals

CONSTANT MaxAutomaticRetries        \* MAX_AUTOMATIC_RETRIES, 3 in the code

ASSUME MaxAutomaticRetriesAssumption == MaxAutomaticRetries \in Nat

ActiveStatus ==
  {"queued", "receiving", "source_ready", "transcribing_or_extracting",
   "structuring", "generating", "verifying", "writing"}

FailureStatus == {"retryable_failed", "needs_attention"}

SuccessfulStatus == ActiveStatus \cup {"completed"}

JobStatus == SuccessfulStatus \cup FailureStatus

\* NORMAL_SUCCESSORS
NormalSuccessor ==
  [queued                     |-> "receiving",
   receiving                  |-> "source_ready",
   source_ready               |-> "transcribing_or_extracting",
   transcribing_or_extracting |-> "structuring",
   structuring                |-> "generating",
   generating                 |-> "verifying",
   verifying                  |-> "writing",
   writing                    |-> "completed"]

\* RESUME_CHECKPOINTS, read by resumeStatus
ResumeStatus ==
  [queued                     |-> "queued",
   receiving                  |-> "queued",
   source_ready               |-> "source_ready",
   transcribing_or_extracting |-> "source_ready",
   structuring                |-> "transcribing_or_extracting",
   generating                 |-> "structuring",
   verifying                  |-> "generating",
   writing                    |-> "verifying",
   completed                  |-> "completed",
   retryable_failed           |-> "retryable_failed",
   needs_attention            |-> "needs_attention"]

\* SUCCESSFUL_STATUS_INDEX: the position of a status on the way to completed
StatusIndex ==
  [queued                     |-> 0,
   receiving                  |-> 1,
   source_ready               |-> 2,
   transcribing_or_extracting |-> 3,
   structuring                |-> 4,
   generating                 |-> 5,
   verifying                  |-> 6,
   writing                    |-> 7,
   completed                  |-> 8]

\* What normalizeError leaves of an error: the retry policy of its code.
Failure == {"retryable", "permanent"}

CleanupWarning ==
  {"null", "CLEANUP_PENDING", "STAGING_CLEANUP_FAILED", "QUEUE_CLEANUP_FAILED",
   "STAGING_AND_QUEUE_CLEANUP_FAILED"}

JobRecord ==
  [status   : JobStatus,
   last     : SuccessfulStatus,
   retry    : Nat,
   error    : Failure \cup {"null"},
   resolved : BOOLEAN,
   warning  : CleanupWarning]

\* The cross-field refinements of JobSchema.  A row that fails them cannot be
\* read back, so a write that would produce one is refused with an exception.
JobSchema(job) ==
  /\ job.status \in FailureStatus <=> job.error # "null"
  /\ job.resolved => job.status = "queued"
  /\ job.status \in FailureStatus => job.last # "completed"
  /\ job.status \in SuccessfulStatus => StatusIndex[job.last] <= StatusIndex[job.status]
  /\ job.status = "completed" => job.last = "completed"

ClassifyFailure(failure, retryCount) ==
  IF failure = "retryable" /\ retryCount < MaxAutomaticRetries
  THEN "retryable_failed"
  ELSE "needs_attention"

-----------------------------------------------------------------------------
(* transitionJob, one operator per kind of edge isAllowedTransition accepts. *)

\* The next stage of an active job.
CanAdvance(job) == job.status \in ActiveStatus

Advance(job) ==
  LET next == NormalSuccessor[job.status]
  IN  [job EXCEPT !.status   = next,
                  !.last     = ResumeStatus[next],
                  !.error    = "null",
                  !.resolved = FALSE]

\* A failure of an active job; lastSuccessfulStatus is kept for the recovery.
CanFail(job) == job.status \in ActiveStatus

Fail(job, failure) ==
  LET next == ClassifyFailure(failure, job.retry)
  IN  [job EXCEPT !.status   = next,
                  !.retry    = IF next = "retryable_failed" THEN @ + 1 ELSE @,
                  !.error    = failure,
                  !.resolved = FALSE]

\* The automatic retry of a retryable failure.
CanRetry(job) == job.status = "retryable_failed" /\ job.last # "completed"

Retry(job) ==
  [job EXCEPT !.status = job.last, !.error = "null", !.resolved = FALSE]

\* The user's resolution of a job that needs attention.  The resolution is
\* always fresh: its failureRevision and createdAt are taken from the row just read.
CanResolve(job) == job.status = "needs_attention"

Resolve(job) ==
  [job EXCEPT !.status   = "queued",
              !.last     = "queued",
              !.retry    = 0,
              !.error    = "null",
              !.resolved = TRUE]

-----------------------------------------------------------------------------
\* JobRunner's #prepareRecovery for a row that a crash or a restart left active:
\* back to the checkpoint of its status.  It does not go through transitionJob.
Rewind(job) ==
  LET checkpoint == ResumeStatus[job.status]
  IN  IF checkpoint = job.status
      THEN job
      ELSE [job EXCEPT !.status = checkpoint, !.last = checkpoint]

PrepareRecovery(job) ==
  IF job.status = "retryable_failed" THEN Retry(job)
  ELSE IF job.status \in {"needs_attention", "completed"} THEN job
  ELSE Rewind(job)

\* The stage at which a job would be taken up again.
Checkpoint(job) ==
  IF job.status \in FailureStatus THEN job.last ELSE job.status
=============================================================================
