-------------------------- MODULE JobRunner_proofs --------------------------
(***************************************************************************)
(* Safety of the job runner for any set of submissions, any limits and any   *)
(* number of faults, crashes and edits.                                      *)
(***************************************************************************)
EXTENDS JobRunner, TLAPS

-----------------------------------------------------------------------------
(* The edges of the job status machine, for every retry limit.             *)

USE DEF ActiveStatus, FailureStatus, SuccessfulStatus, JobStatus

\* One look at the two tables, stage by stage.
LEMMA StageTables ==
  \A s \in ActiveStatus :
    /\ NormalSuccessor[s] \in SuccessfulStatus \ {"queued"}
    /\ NormalSuccessor[s] = "completed" <=> s = "writing"
    /\ ResumeStatus[NormalSuccessor[s]] \in SuccessfulStatus
    /\ NormalSuccessor[s] = "completed" => ResumeStatus[NormalSuccessor[s]] = "completed"
    /\ StatusIndex[s] \in 0 .. 7
    /\ StatusIndex[NormalSuccessor[s]] = StatusIndex[s] + 1
    /\ StatusIndex[ResumeStatus[NormalSuccessor[s]]] <= StatusIndex[NormalSuccessor[s]]
    /\ ResumeStatus[s] \in ActiveStatus
    /\ StatusIndex[s] >= 2 => StatusIndex[ResumeStatus[s]] >= 2
<1>1. SUFFICES ASSUME NEW s \in ActiveStatus
               PROVE  /\ NormalSuccessor[s] \in SuccessfulStatus \ {"queued"}
                      /\ NormalSuccessor[s] = "completed" <=> s = "writing"
                      /\ ResumeStatus[NormalSuccessor[s]] \in SuccessfulStatus
                      /\ NormalSuccessor[s] = "completed" => ResumeStatus[NormalSuccessor[s]] = "completed"
                      /\ StatusIndex[s] \in 0 .. 7
                      /\ StatusIndex[NormalSuccessor[s]] = StatusIndex[s] + 1
                      /\ StatusIndex[ResumeStatus[NormalSuccessor[s]]] <= StatusIndex[NormalSuccessor[s]]
                      /\ ResumeStatus[s] \in ActiveStatus
                      /\ StatusIndex[s] >= 2 => StatusIndex[ResumeStatus[s]] >= 2
  OBVIOUS
<1> USE DEF NormalSuccessor, ResumeStatus, StatusIndex
<1>2. CASE s = "queued" BY <1>2
<1>3. CASE s = "receiving" BY <1>3
<1>4. CASE s = "source_ready" BY <1>4
<1>5. CASE s = "transcribing_or_extracting" BY <1>5
<1>6. CASE s = "structuring" BY <1>6
<1>7. CASE s = "generating" BY <1>7
<1>8. CASE s = "verifying" BY <1>8
<1>9. CASE s = "writing" BY <1>9
<1> QED BY <1>2, <1>3, <1>4, <1>5, <1>6, <1>7, <1>8, <1>9

\* The edges keep the shape of a row, JobSchema aside.
LEMMA EdgesKeepType ==
  ASSUME NEW job \in JobRecord
  PROVE  /\ job.status \in ActiveStatus => Advance(job) \in JobRecord
         /\ \A cause \in Failure : Fail(job, cause) \in JobRecord
         /\ Resolve(job) \in JobRecord
         /\ PrepareRecovery(job) \in JobRecord
         /\ \A w \in CleanupWarning : [job EXCEPT !.warning = w] \in JobRecord
         /\ \A s \in JobStatus, l \in SuccessfulStatus : [job EXCEPT !.status = s, !.last = l] \in JobRecord
<1>1. job.status \in ActiveStatus => Advance(job) \in JobRecord
  <2>1. ASSUME job.status \in ActiveStatus PROVE Advance(job) \in JobRecord
    <3> DEFINE next == NormalSuccessor[job.status]
    <3>1. next \in SuccessfulStatus /\ ResumeStatus[next] \in SuccessfulStatus
      BY <2>1, StageTables
    <3> HIDE DEF next
    <3>2. [job EXCEPT !.status = next, !.last = ResumeStatus[next], !.error = "null", !.resolved = FALSE]
            \in JobRecord
      BY <3>1 DEF JobRecord
    <3> QED
      BY <3>2 DEF Advance, next
  <2> QED
    BY <2>1
<1>2. ASSUME NEW cause \in Failure PROVE Fail(job, cause) \in JobRecord
  <2>1. PICK next \in FailureStatus : ClassifyFailure(cause, job.retry) = next
    BY DEF ClassifyFailure
  <2>2. job.retry \in Nat
    BY DEF JobRecord
  <2> DEFINE count == IF next = "retryable_failed" THEN job.retry + 1 ELSE job.retry
  <2>3. count \in Nat
    BY <2>2
  <2>4. Fail(job, cause) =
          [job EXCEPT !.status = next, !.retry = count, !.error = cause, !.resolved = FALSE]
    BY <2>1 DEF Fail
  <2> HIDE DEF count
  <2> QED
    BY <2>3, <2>4 DEF JobRecord
<1>3. Resolve(job) \in JobRecord
  BY DEF Resolve, JobRecord
<1>4. \A w \in CleanupWarning : [job EXCEPT !.warning = w] \in JobRecord
  BY DEF JobRecord
<1>5. \A s \in JobStatus, l \in SuccessfulStatus : [job EXCEPT !.status = s, !.last = l] \in JobRecord
  BY DEF JobRecord
<1>6. PrepareRecovery(job) \in JobRecord
  <2>1. CASE job.status = "retryable_failed"
    <3>1. job.last \in SuccessfulStatus
      BY DEF JobRecord
    <3>2. Retry(job) \in JobRecord
      BY <3>1 DEF Retry, JobRecord
    <3> QED
      BY <2>1, <3>2 DEF PrepareRecovery
  <2>2. CASE job.status \in ActiveStatus
    <3>1. ResumeStatus[job.status] \in ActiveStatus
      BY <2>2, StageTables
    <3> QED
      BY <1>5, <2>2, <3>1 DEF PrepareRecovery, Rewind
  <2>3. CASE job.status \in {"needs_attention", "completed"}
    BY <2>3 DEF PrepareRecovery
  <2> QED
    BY <2>1, <2>2, <2>3 DEF JobRecord
<1> QED
  BY <1>1, <1>2, <1>3, <1>4, <1>5, <1>6

\* transitionJob along a normal edge yields a row JobSchema accepts, one stage
\* further; the candidate it parses at the end is never refused.
THEOREM AdvanceKeepsSchema ==
  ASSUME NEW job \in JobRecord, JobSchema(job), CanAdvance(job)
  PROVE  /\ Advance(job) \in JobRecord
         /\ JobSchema(Advance(job))
         /\ Advance(job).status = NormalSuccessor[job.status]
         /\ Advance(job).status \in SuccessfulStatus \ {"queued"}
         /\ Advance(job).status = "completed" <=> job.status = "writing"
         /\ Advance(job).retry = job.retry
         /\ Advance(job).warning = job.warning
         /\ StatusIndex[Checkpoint(job)] <= StatusIndex[Checkpoint(Advance(job))]
<1>1. PICK s \in ActiveStatus : job.status = s
  BY DEF CanAdvance
<1>2. Advance(job) = [job EXCEPT !.status = NormalSuccessor[s], !.last = ResumeStatus[NormalSuccessor[s]],
                                 !.error = "null", !.resolved = FALSE]
  BY <1>1 DEF Advance
<1> DEFINE next == NormalSuccessor[s]
           resume == ResumeStatus[next]
           new == [job EXCEPT !.status = next, !.last = resume, !.error = "null", !.resolved = FALSE]
<1>3. /\ next \in SuccessfulStatus \ {"queued"}
      /\ next = "completed" <=> s = "writing"
      /\ resume \in SuccessfulStatus
      /\ next = "completed" => resume = "completed"
      /\ StatusIndex[s] <= StatusIndex[next]
      /\ StatusIndex[resume] <= StatusIndex[next]
  BY <1>1, StageTables
<1> HIDE DEF next, resume
<1>4. /\ new \in JobRecord
      /\ new.status = next /\ new.last = resume /\ new.error = "null" /\ new.resolved = FALSE
      /\ new.retry = job.retry /\ new.warning = job.warning
  BY <1>3 DEF JobRecord
<1>5. Advance(job) = new
  BY <1>2 DEF next, resume
<1>6. JobSchema(new)
  BY <1>3, <1>4 DEF JobSchema
<1>7. NormalSuccessor[job.status] = next
  BY <1>1 DEF next
<1>8. Checkpoint(job) = s /\ Checkpoint(new) = next
  BY <1>1, <1>3, <1>4 DEF Checkpoint
<1> QED
  BY <1>1, <1>3, <1>4, <1>5, <1>6, <1>7, <1>8

\* Recording a failure yields a row JobSchema accepts and counts a retry only
\* below the limit.
THEOREM FailKeepsSchema ==
  ASSUME NEW job \in JobRecord, NEW cause \in Failure, JobSchema(job), CanFail(job),
         job.retry <= MaxAutomaticRetries
  PROVE  /\ Fail(job, cause) \in JobRecord
         /\ JobSchema(Fail(job, cause))
         /\ Fail(job, cause).status \in FailureStatus
         /\ Fail(job, cause).retry <= MaxAutomaticRetries
         /\ Fail(job, cause).last = job.last
<1>1. job.last # "completed"
  BY DEF JobSchema, CanFail, StatusIndex
<1>2. PICK next \in FailureStatus : ClassifyFailure(cause, job.retry) = next
  BY DEF ClassifyFailure
<1>3. next = "retryable_failed" => job.retry < MaxAutomaticRetries
  BY <1>2 DEF ClassifyFailure
<1> DEFINE count == IF next = "retryable_failed" THEN job.retry + 1 ELSE job.retry
           new == [job EXCEPT !.status = next, !.retry = count, !.error = cause, !.resolved = FALSE]
<1>4. Fail(job, cause) = new
  BY <1>2 DEF Fail
<1>5. job.retry \in Nat /\ count \in Nat /\ count <= MaxAutomaticRetries
  BY <1>3, MaxAutomaticRetriesAssumption DEF JobRecord
<1> HIDE DEF count
<1>6. /\ new \in JobRecord
      /\ new.status = next /\ new.last = job.last /\ new.retry = count
      /\ new.error = cause /\ new.resolved = FALSE
  BY <1>5 DEF JobRecord
<1>7. JobSchema(new)
  BY <1>1, <1>6 DEF JobSchema, Failure
<1> QED
  BY <1>4, <1>5, <1>6, <1>7

\* The user's resolution yields a row JobSchema accepts, with its retries reset.
THEOREM ResolveKeepsSchema ==
  ASSUME NEW job \in JobRecord
  PROVE  /\ Resolve(job) \in JobRecord
         /\ JobSchema(Resolve(job))
         /\ Resolve(job).retry = 0
         /\ Resolve(job).status = "queued"
<1>1. /\ Resolve(job) \in JobRecord
      /\ Resolve(job).status = "queued" /\ Resolve(job).last = "queued" /\ Resolve(job).retry = 0
      /\ Resolve(job).error = "null" /\ Resolve(job).resolved = TRUE
  BY DEF Resolve, JobRecord
<1>2. JobSchema(Resolve(job))
  BY <1>1 DEF JobSchema, StatusIndex
<1> QED
  BY <1>1, <1>2

\* #prepareRecovery builds its row by hand; it is one JobSchema accepts, in an
\* active stage, and no earlier than source_ready if the job had come that far.
THEOREM RecoveryKeepsSchema ==
  ASSUME NEW job \in JobRecord, JobSchema(job),
         job.status \notin {"completed", "needs_attention"}
  PROVE  /\ PrepareRecovery(job) \in JobRecord
         /\ JobSchema(PrepareRecovery(job))
         /\ PrepareRecovery(job).status \in ActiveStatus
         /\ PrepareRecovery(job).retry = job.retry
         /\ PrepareRecovery(job).warning = job.warning
         /\ StatusIndex[Checkpoint(job)] >= StatusIndex["source_ready"]
              => StatusIndex[Checkpoint(PrepareRecovery(job))] >= StatusIndex["source_ready"]
<1>1. CASE job.status = "retryable_failed"
  <2>1. PrepareRecovery(job) = Retry(job)
    BY <1>1 DEF PrepareRecovery
  <2>2. job.last \in ActiveStatus /\ Checkpoint(job) = job.last
    BY <1>1 DEF JobSchema, JobRecord, Checkpoint
  <2>3. /\ Retry(job) \in JobRecord
        /\ Retry(job).status = job.last /\ Retry(job).last = job.last
        /\ Retry(job).retry = job.retry /\ Retry(job).warning = job.warning
        /\ Retry(job).error = "null" /\ Retry(job).resolved = FALSE
    BY <2>2 DEF Retry, JobRecord
  <2>4. StatusIndex[job.last] \in 0 .. 7
    BY <2>2, StageTables
  <2>5. JobSchema(Retry(job))
    BY <2>2, <2>3, <2>4 DEF JobSchema
  <2>6. Checkpoint(Retry(job)) = job.last
    BY <2>2, <2>3 DEF Checkpoint
  <2> QED
    BY <2>1, <2>2, <2>3, <2>5, <2>6
<1>2. CASE job.status \in ActiveStatus
  <2>1. PrepareRecovery(job) = Rewind(job)
    BY <1>2 DEF PrepareRecovery
  <2>2. CASE ResumeStatus[job.status] = job.status
    BY <1>2, <2>1, <2>2 DEF Rewind
  <2>3. CASE ResumeStatus[job.status] # job.status
    <3> DEFINE back == ResumeStatus[job.status]
               new == [job EXCEPT !.status = back, !.last = back]
    <3>1. Rewind(job) = new
      BY <2>3 DEF Rewind
    <3>2. /\ back \in ActiveStatus
          /\ StatusIndex[job.status] >= 2 => StatusIndex[back] >= 2
          /\ StatusIndex[back] \in 0 .. 7
      BY <1>2, StageTables
    <3>3. job.resolved = FALSE /\ job.error = "null"
      BY <1>2, <2>3 DEF JobSchema, ResumeStatus, JobRecord
    <3> HIDE DEF back
    <3>4. /\ new \in JobRecord
          /\ new.status = back /\ new.last = back /\ new.error = "null" /\ new.resolved = FALSE
          /\ new.retry = job.retry /\ new.warning = job.warning
      BY <3>2, <3>3 DEF JobRecord
    <3>5. JobSchema(new)
      BY <3>2, <3>4 DEF JobSchema
    <3>6. Checkpoint(job) = job.status /\ Checkpoint(new) = back
      BY <1>2, <3>2, <3>4 DEF Checkpoint
    <3>7. StatusIndex["source_ready"] = 2
      BY DEF StatusIndex
    <3> QED
      BY <2>1, <3>1, <3>2, <3>4, <3>5, <3>6, <3>7
  <2> QED
    BY <2>2, <2>3
<1> QED
  BY <1>1, <1>2 DEF JobRecord

-----------------------------------------------------------------------------
(* The runner.                                                             *)

\* Between RunWriting and Complete the job is being written and the processor's
\* result is in memory.
WritingSteps == {"archive", "archiveRow", "note", "noteRow", "completedReceipt", "complete"}

\* TypeOK is inductive with what the steps know of the job they are at.
TypeInv ==
  /\ TypeOK
  /\ pending \subseteq Existing
  /\ pc \in RunSteps \cup CleanupSteps \cup IntakeSteps => cur \in Jobs
  /\ pc \in RunSteps => mem \in JobRecord
  /\ pc \in CleanupSteps =>
       row[cur] \in JobRecord /\ (ret = "finalized" => mem \in JobRecord)
  /\ pc \in WritingSteps => mem.status = "writing" /\ processed \in Results
  /\ pc = "archiveRow" => path \in ArchivePaths
  /\ pc = "noteRow" => path \in NotePaths

LEMMA ReplaceType ==
  ASSUME row \in [Jobs -> JobRecord \cup {NoRow}], older \in [Jobs -> SUBSET Jobs],
         NEW j \in Jobs, NEW new \in JobRecord, Replace(j, new)
  PROVE  /\ row' \in [Jobs -> JobRecord \cup {NoRow}]
         /\ older' \in [Jobs -> SUBSET Jobs]
         /\ row'[j] = new
         /\ \A k \in Jobs : k # j => row'[k] = row[k]
         /\ Existing' = Existing \cup {j}
<1>1. new # NoRow
  BY DistinctConstants
<1> QED
  BY <1>1 DEF Replace, Existing

LEMMA InsertType ==
  ASSUME row \in [Jobs -> JobRecord \cup {NoRow}], older \in [Jobs -> SUBSET Jobs],
         NEW j \in Jobs, NEW new \in JobRecord, Insert(j, new)
  PROVE  /\ row' \in [Jobs -> JobRecord \cup {NoRow}]
         /\ older' \in [Jobs -> SUBSET Jobs]
         /\ row'[j] = new
         /\ \A k \in Jobs : k # j => row'[k] = row[k]
         /\ Existing' = Existing \cup {j}
<1>1. new # NoRow
  BY DistinctConstants
<1>2. PICK before \in SUBSET (Existing \ {j}) :
        /\ row' = [row EXCEPT ![j] = new]
        /\ older' = [k \in Jobs |-> IF k = j THEN before
                                    ELSE IF k \in Existing \ before THEN older[k] \cup {j}
                                    ELSE older[k]]
  BY DEF Insert
<1> QED
  BY <1>1, <1>2 DEF Existing

LEMMA NewJobType ==
  /\ \A s \in {"queued", "source_ready"} : NewJob(s) \in JobRecord /\ JobSchema(NewJob(s))
  BY DEF NewJob, JobRecord, JobSchema, Failure, CleanupWarning, StatusIndex, JobStatus, SuccessfulStatus,
         ActiveStatus, FailureStatus

LEMMA CompletedType ==
  ASSUME NEW job \in JobRecord, job.status = "writing"
  PROVE  Completed(job) \in JobRecord
<1>1. Advance(job) \in JobRecord
  BY EdgesKeepType DEF ActiveStatus
<1> QED
  BY <1>1, EdgesKeepType DEF Completed, CleanupWarning


\* Every variable keeps its type and every step its job, whatever fails.
THEOREM TypeCorrect == Spec => []TypeInv
<1>1. Init => TypeInv
  BY DEF Init, TypeInv, TypeOK, Existing, Failure, NoPath, ListSteps, Steps, RunSteps, FallibleSteps,
         CleanupSteps, IntakeSteps, WritingSteps
<1>2. TypeInv /\ [Next]_vars => TypeInv'
  <2> SUFFICES ASSUME TypeInv, [Next]_vars PROVE TypeInv'
    OBVIOUS
  <2> USE DEF TypeInv, TypeOK, durable, volatile, vars, Steps, RunSteps, FallibleSteps, CleanupSteps,
              IntakeSteps, ListSteps, WritingSteps, Existing, Disturb
  <2>1. ASSUME Boot PROVE TypeInv'
    BY <2>1 DEF Boot, Begin, First, CleanupDebts
  <2>2. ASSUME Poll PROVE TypeInv'
    BY <2>2 DEF Poll, Begin, First, CleanupDebts
  <2>3. ASSUME RetryCleanup PROVE TypeInv'
    BY <2>3 DEF RetryCleanup, EnterCleanup, First
  <2>4. ASSUME ScanReady PROVE TypeInv'
    <3>1. ready' \in SUBSET Jobs
      BY <2>4 DEF ScanReady, ReadyBundles, ReadyFirst
    <3>2. disturbances' \in Nat
      BY <2>4 DEF ScanReady
    <3> QED
      BY <2>4, <3>1, <3>2 DEF ScanReady
  <2>5. ASSUME ListRecoverable PROVE TypeInv'
    BY <2>5 DEF ListRecoverable
  <2>6. ASSUME BatchDone PROVE TypeInv'
    BY <2>6 DEF BatchDone
  <2>7. ASSUME NEW j \in Jobs, SkipExisting(j) PROVE TypeInv'
    BY <2>7 DEF SkipExisting, NextItem
  <2>8. ASSUME NEW j \in Jobs, CleanExisting(j) PROVE TypeInv'
    BY <2>8 DEF CleanExisting, EnterCleanup, Has
  <2>9. ASSUME NEW j \in Jobs, Claim(j) PROVE TypeInv'
    BY <2>9 DEF Claim
  <2>10. ASSUME NEW j \in Jobs, BeginJob(j) PROVE TypeInv'
    <3>1. batch[j] \in JobRecord
      BY <2>10 DEF BeginJob, Turn
    <3>2. PrepareRecovery(batch[j]) \in JobRecord /\ row[j] = batch[j]
      BY <2>10, <3>1, EdgesKeepType DEF BeginJob, RowIs
    <3>3. /\ row' \in [Jobs -> JobRecord \cup {NoRow}]
          /\ older' \in [Jobs -> SUBSET Jobs]
          /\ Existing \subseteq Existing'
      BY <2>10, <3>1, <3>2, ReplaceType DEF BeginJob
    <3> QED
      BY <2>10, <3>1, <3>2, <3>3 DEF BeginJob
  <2>11. ASSUME ClaimReceipt PROVE TypeInv'
    BY <2>11 DEF ClaimReceipt, NextItem
  <2>12. ASSUME Provision PROVE TypeInv'
    BY <2>12 DEF Provision
  <2>13. ASSUME RefuseClaim PROVE TypeInv'
    BY <2>13 DEF RefuseClaim
  <2>14. ASSUME InsertClaimed PROVE TypeInv'
    <3>1. /\ row' \in [Jobs -> JobRecord \cup {NoRow}]
          /\ older' \in [Jobs -> SUBSET Jobs]
          /\ Existing' = Existing \cup {cur}
          /\ \A k \in Jobs : k # cur => row'[k] = row[k]
      BY <2>14, NewJobType, InsertType DEF InsertClaimed
    <3> QED
      BY <2>14, <3>1 DEF InsertClaimed, NextItem
  <2>15. ASSUME RejectStatus PROVE TypeInv'
    BY <2>15 DEF RejectStatus
  <2>16. ASSUME RejectDurable PROVE TypeInv'
    BY <2>16 DEF RejectDurable, NextItem
  <2>17. ASSUME InsertLocal PROVE TypeInv'
    <3>1. /\ row' \in [Jobs -> JobRecord \cup {NoRow}]
          /\ older' \in [Jobs -> SUBSET Jobs]
          /\ Existing' = Existing \cup {cur}
          /\ \A k \in Jobs : k # cur => row'[k] = row[k]
      BY <2>17, NewJobType, InsertType DEF InsertLocal
    <3> QED
      BY <2>17, <3>1 DEF InsertLocal, Begin, First, CleanupDebts
  <2>18. ASSUME RunStage PROVE TypeInv'
    <3>1. mem.status \in ActiveStatus /\ mem \in JobRecord
      BY <2>18 DEF RunStage, ActiveStatus
    <3>2. Advance(mem) \in JobRecord
      BY <2>18, <3>1, EdgesKeepType
    <3>3. /\ row' \in [Jobs -> JobRecord \cup {NoRow}]
          /\ older' \in [Jobs -> SUBSET Jobs]
          /\ Existing' = Existing \cup {cur}
      BY <2>18, <3>2, ReplaceType DEF RunStage, Transition
    <3> QED
      BY <2>18, <3>2, <3>3 DEF RunStage, Transition
  <2>19. ASSUME Receipt PROVE TypeInv'
    BY <2>19 DEF Receipt
  <2>20. ASSUME RunProcessor PROVE TypeInv'
    <3>1. mem.status \in ActiveStatus /\ mem \in JobRecord
      BY <2>20 DEF RunProcessor, ActiveStatus
    <3>2. Advance(mem) \in JobRecord
      BY <2>20, <3>1, EdgesKeepType
    <3>3. /\ row' \in [Jobs -> JobRecord \cup {NoRow}]
          /\ older' \in [Jobs -> SUBSET Jobs]
          /\ Existing' = Existing \cup {cur}
      BY <2>20, <3>2, ReplaceType DEF RunProcessor, Transition
    <3> QED
      BY <2>20, <3>2, <3>3 DEF RunProcessor, Transition
  <2>21. ASSUME RunWriting PROVE TypeInv'
    BY <2>21 DEF RunWriting
  <2>22. ASSUME ArchiveSource PROVE TypeInv'
    <3>1. ArchiveChoice(cur) \in ArchivePaths
      BY <2>22 DEF ArchiveChoice, ArchivePaths
    <3> QED
      BY <2>22, <3>1 DEF ArchiveSource
  <2>23. ASSUME RecordArchive PROVE TypeInv'
    <3>1. [path |-> path, sha256 |-> "source"] \in Artifact
      BY <2>23 DEF RecordArchive, Artifact
    <3> QED
      BY <2>23, <3>1 DEF RecordArchive, ArtifactKind, NoPath
  <2>24. ASSUME KeepArchive PROVE TypeInv'
    BY <2>24 DEF KeepArchive
  <2>25. ASSUME WriteNote PROVE TypeInv'
    <3>1. NoteChoice(cur, processed) \in NotePaths
      BY <2>25 DEF WriteNote, NoteChoice, NotePaths
    <3> QED
      BY <2>25, <3>1 DEF WriteNote
  <2>26. ASSUME RecordNote PROVE TypeInv'
    <3>1. [path |-> path, sha256 |-> processed] \in Artifact
      BY <2>26 DEF RecordNote, Artifact
    <3> QED
      BY <2>26, <3>1 DEF RecordNote, ArtifactKind, NoPath
  <2>27. ASSUME KeepNote PROVE TypeInv'
    BY <2>27 DEF KeepNote
  <2>28. ASSUME StopOnConflict PROVE TypeInv'
    <3>1. pc \in {"archive", "archiveRow", "note"}
      BY <2>28 DEF StopOnConflict, VaultConflict
    <3> QED
      BY <2>28, <3>1 DEF StopOnConflict, Failure
  <2>29. ASSUME CompletedReceipt PROVE TypeInv'
    BY <2>29 DEF CompletedReceipt
  <2>30. ASSUME Complete PROVE TypeInv'
    <3>1. Completed(mem) \in JobRecord
      BY <2>30, CompletedType DEF Complete
    <3>2. /\ row' \in [Jobs -> JobRecord \cup {NoRow}]
          /\ older' \in [Jobs -> SUBSET Jobs]
          /\ row'[cur] = Completed(mem)
          /\ Existing' = Existing \cup {cur}
      BY <2>30, <3>1, ReplaceType DEF Complete
    <3> QED
      BY <2>30, <3>1, <3>2 DEF Complete, EnterCleanup
  <2>31. ASSUME Finalized PROVE TypeInv'
    BY <2>31 DEF Finalized, EndRun
  <2>32. ASSUME FailJob PROVE TypeInv'
    <3>1. Fail(mem, failure) \in JobRecord
      BY <2>32, EdgesKeepType DEF FailJob
    <3>2. /\ row' \in [Jobs -> JobRecord \cup {NoRow}]
          /\ older' \in [Jobs -> SUBSET Jobs]
          /\ Existing' = Existing \cup {cur}
      BY <2>32, <3>1, ReplaceType DEF FailJob
    <3> QED
      BY <2>32, <3>1, <3>2 DEF FailJob
  <2>33. ASSUME FailUnrecorded PROVE TypeInv'
    BY <2>33 DEF FailUnrecorded, EndRun
  <2>34. ASSUME FailReceipt PROVE TypeInv'
    <3>1. receipt' \in {receipt, [receipt EXCEPT ![cur] = "failed"]}
      BY <2>34 DEF FailReceipt
    <3>2. receipt' \in [Jobs -> {"none", "processing", "completed", "failed"}]
      BY <3>1
    <3>3. disturbances' \in Nat
      BY <2>34 DEF FailReceipt
    <3> QED
      BY <2>34, <3>2, <3>3 DEF FailReceipt, EndRun
  <2>35. ASSUME CleanStaging PROVE TypeInv'
    <3>1. staged' \in {staged, [staged EXCEPT ![cur] = FALSE]}
      BY <2>35 DEF CleanStaging
    <3>2. staged' \in [Jobs -> BOOLEAN]
      BY <3>1
    <3>3. disturbances' \in Nat
      BY <2>35 DEF CleanStaging
    <3>4. stuck' \in SUBSET {"staging", "queue"}
      BY <2>35 DEF CleanStaging
    <3> QED
      BY <2>35, <3>2, <3>3, <3>4 DEF CleanStaging
  <2>36. ASSUME CleanQueue PROVE TypeInv'
    <3>1. inbox' \in {inbox, [inbox EXCEPT ![cur] = "removed"]}
      BY <2>36 DEF CleanQueue
    <3>2. inbox' \in [Jobs -> {"unsent", "present", "removed", "redelivered"}]
      BY <3>1
    <3>3. disturbances' \in Nat
      BY <2>36 DEF CleanQueue
    <3>4. stuck' \in SUBSET {"staging", "queue"}
      BY <2>36 DEF CleanQueue
    <3> QED
      BY <2>36, <3>2, <3>3, <3>4 DEF CleanQueue
  <2>37. ASSUME CleanWarning PROVE TypeInv'
    <3>1. [row[cur] EXCEPT !.warning = WarningOf(stuck)] \in JobRecord
      BY <2>37, EdgesKeepType DEF CleanWarning, WarningOf, CleanupWarning
    <3>2. /\ row' \in [Jobs -> JobRecord \cup {NoRow}]
          /\ older' \in [Jobs -> SUBSET Jobs]
          /\ Existing \subseteq Existing'
      BY <2>37, <3>1, ReplaceType DEF CleanWarning
    <3> QED
      BY <2>37, <3>1, <3>2 DEF CleanWarning, LeaveCleanup
  <2>38. ASSUME ScanFails PROVE TypeInv'
    BY <2>38 DEF ScanFails
  <2>39. ASSUME ReceiptFails PROVE TypeInv'
    BY <2>39 DEF ReceiptFails, NextItem
  <2>40. ASSUME ProvisionFails PROVE TypeInv'
    <3>1. staged' \in [Jobs -> BOOLEAN] /\ pc' \in {"rejectStatus", "claimReceipt"}
      BY <2>40 DEF ProvisionFails
    <3> QED
      BY <2>40, <3>1 DEF ProvisionFails
  <2>41. ASSUME AdmitFails PROVE TypeInv'
    BY <2>41 DEF AdmitFails, NextItem
  <2>42. ASSUME InsertLocalFails PROVE TypeInv'
    BY <2>42 DEF InsertLocalFails
  <2>43. ASSUME StepFails PROVE TypeInv'
    BY <2>43 DEF StepFails
  <2>44. ASSUME CommitUnseen PROVE TypeInv'
    <3> DEFINE new == IF pc = "complete" THEN Completed(mem) ELSE Advance(mem)
    <3>1. new \in JobRecord
      BY <2>44, CompletedType, EdgesKeepType DEF CommitUnseen
    <3>2. Replace(cur, new)
      BY <2>44 DEF CommitUnseen
    <3> HIDE DEF new
    <3>3. /\ row' \in [Jobs -> JobRecord \cup {NoRow}]
          /\ older' \in [Jobs -> SUBSET Jobs]
          /\ Existing' = Existing \cup {cur}
      BY <2>44, <3>1, <3>2, ReplaceType DEF CommitUnseen
    <3> QED
      BY <2>44, <3>3 DEF CommitUnseen
  <2>45. ASSUME CleanWarningFails PROVE TypeInv'
    BY <2>45 DEF CleanWarningFails, LeaveCleanup
  <2>46. ASSUME NEW j \in Jobs, CleanExistingFails(j) PROVE TypeInv'
    BY <2>46 DEF CleanExistingFails, NextItem
  <2>47. ASSUME NEW j \in Jobs, ClaimRejects(j) PROVE TypeInv'
    <3>1. staged' \in [Jobs -> BOOLEAN] /\ rejected' \in [Jobs -> BOOLEAN]
      <4>1. PICK left \in {FALSE, staged[j]} : staged' = [staged EXCEPT ![j] = left]
        BY <2>47 DEF ClaimRejects
      <4>2. left \in BOOLEAN
        BY <4>1
      <4>3. staged' \in [Jobs -> BOOLEAN]
        BY <4>1, <4>2
      <4>4. rejected' \in [Jobs -> BOOLEAN]
        BY <2>47 DEF ClaimRejects
      <4> QED
        BY <4>3, <4>4
    <3>2. CASE pc' = "claimReceipt" /\ cur' = j /\ ready' = ready
      BY <2>47, <3>1, <3>2 DEF ClaimRejects
    <3>3. CASE NextItem(j)
      BY <2>47, <3>1, <3>3 DEF ClaimRejects, NextItem
    <3> QED
      BY <2>47, <3>2, <3>3 DEF ClaimRejects, ClaimEnds
  <2>48. ASSUME NEW j \in Jobs, ClaimFails(j) PROVE TypeInv'
    BY <2>48 DEF ClaimFails, ClaimEnds, NextItem
  <2>49. ASSUME NEW j \in Jobs, BeginJobFails(j) PROVE TypeInv'
    <3>1. batch[j] \in JobRecord
      BY <2>49 DEF BeginJobFails, Turn
    <3>2. /\ row' \in [Jobs -> JobRecord \cup {NoRow}]
          /\ older' \in [Jobs -> SUBSET Jobs]
          /\ Existing \subseteq Existing'
      <4>1. CASE UNCHANGED <<row, older>>
        BY <4>1
      <4>2. CASE Replace(j, PrepareRecovery(batch[j]))
        <5>1. PrepareRecovery(batch[j]) \in JobRecord
          BY <3>1, EdgesKeepType
        <5> QED
          BY <4>2, <5>1, ReplaceType
      <4> QED
        BY <2>49, <4>1, <4>2 DEF BeginJobFails
    <3>3. /\ mem' = batch[j]
          /\ batch' = [batch EXCEPT ![j] = NoRow]
          /\ cur' = j
          /\ pc' = "fail"
          /\ failure' \in Failure
          /\ disturbances' \in Nat
          /\ UNCHANGED <<artifact, inbox, receipt, rejected, staged, archive, note>>
          /\ UNCHANGED <<op, ret, processed, path, stuck, pending, ready>>
      BY <2>49 DEF BeginJobFails
    <3> QED
      BY <3>1, <3>2, <3>3
  <2>50. ASSUME Crash PROVE TypeInv'
    BY <2>50 DEF Crash, Failure
  <2>51. ASSUME NEW j \in Jobs, Deliver(j) PROVE TypeInv'
    BY <2>51 DEF Deliver
  <2>52. ASSUME NEW j \in Jobs, Redeliver(j) PROVE TypeInv'
    BY <2>52 DEF Redeliver
  <2>53. ASSUME NEW j \in Jobs, EnqueueLocal(j) PROVE TypeInv'
    BY <2>53 DEF EnqueueLocal
  <2>54. ASSUME NEW j \in Jobs, RetryJob(j) PROVE TypeInv'
    <3>1. row[j] \in JobRecord /\ Resolve(row[j]) \in JobRecord
      BY <2>54, EdgesKeepType DEF RetryJob, Has
    <3>2. /\ row' \in [Jobs -> JobRecord \cup {NoRow}]
          /\ older' \in [Jobs -> SUBSET Jobs]
          /\ Existing' = Existing \cup {j}
          /\ \A k \in Existing : row'[k] # NoRow
      <4>1. CASE CanResolve(row[j])
        <5>1. Replace(j, Resolve(row[j]))
          BY <2>54, <4>1 DEF RetryJob
        <5>2. /\ row' \in [Jobs -> JobRecord \cup {NoRow}]
              /\ older' \in [Jobs -> SUBSET Jobs]
              /\ Existing' = Existing \cup {j}
          BY <3>1, <5>1, ReplaceType
        <5> QED
          BY <5>2
      <4>2. CASE ~CanResolve(row[j])
        BY <2>54, <4>2 DEF RetryJob, Has
      <4> QED
        BY <4>1, <4>2
    <3> QED
      BY <2>54, <3>2 DEF RetryJob, Begin, First, CleanupDebts
  <2>55. ASSUME NEW j \in Jobs, EditNote(j) PROVE TypeInv'
    <3>1. PICK p \in NotePaths, content \in {"absent", "other"} :
            note' = [note EXCEPT ![j][p] = content]
      BY <2>55 DEF EditNote
    <3>2. note' \in [Jobs -> [NotePaths -> {"absent", "other"} \cup Results]]
      BY <3>1
    <3> QED
      BY <2>55, <3>2 DEF EditNote
  <2>56. ASSUME NEW j \in Jobs, EditArchive(j) PROVE TypeInv'
    BY <2>56 DEF EditArchive
  <2>57. CASE UNCHANGED vars
    BY <2>57
  <2> QED
    BY <2>1, <2>2, <2>3, <2>4, <2>5, <2>6, <2>7, <2>8, <2>9, <2>10, <2>11, <2>12, <2>13,
       <2>14, <2>15, <2>16, <2>17, <2>18, <2>19, <2>20, <2>21, <2>22, <2>23, <2>24, <2>25,
       <2>26, <2>27, <2>28, <2>29, <2>30, <2>31, <2>32, <2>33, <2>34, <2>35, <2>36, <2>37,
       <2>38, <2>39, <2>40, <2>41, <2>42, <2>43, <2>44, <2>45, <2>46, <2>47, <2>48, <2>49,
       <2>50, <2>51, <2>52, <2>53, <2>54, <2>55, <2>56, <2>57
    DEF Next, RunnerStep, FaultStep, OutsideStep
<1> QED
  BY <1>1, <1>2, PTL DEF Spec

\* No fault, crash or user's step leaves a variable outside its type.
THEOREM TypesHold == Spec => []TypeOK
<1>1. TypeInv => TypeOK
  BY DEF TypeInv
<1> QED
  BY <1>1, TypeCorrect, PTL

-----------------------------------------------------------------------------
(* Rows and the runner's copies of them.                                    *)

\* The steps of a poll before it has taken its list of rows.
BeforeBatch == {"boot", "idle", "cleanup", "intake"} \cup IntakeSteps

\* A row that may be in the table.
Sound(job) == JobSchema(job) /\ job.retry <= MaxAutomaticRetries

\* What the runner knows of the rows: those it has in memory are those in the
\* table, and nobody else writes the one it is at.
RowInv ==
  /\ \A j \in Existing : Sound(row[j])
  /\ CopiesFresh
  /\ \A j \in Jobs : batch[j] # NoRow => batch[j].status \notin {"completed", "needs_attention"}
  /\ pc \in {"run", "receipt"} => mem.status \in ActiveStatus
  /\ pc \in RunSteps \/ (pc \in CleanupSteps /\ ret = "finalized") => batch[cur] = NoRow
  /\ pc \in BeforeBatch \/ (pc \in CleanupSteps /\ ret # "finalized") =>
       \A j \in Jobs : batch[j] = NoRow
  /\ pc \in CleanupSteps \cup {"finalized"} => Has(cur, "completed")
  /\ \A j \in pending : Has(j, "completed")
  /\ pc # "cleanup" /\ ~(pc \in CleanupSteps /\ ret = "cleanup") => pending = {}
  /\ pc \in IntakeSteps => row[cur] = NoRow
  /\ pc = "failReceipt" => mem.status \in FailureStatus

\* The row Complete writes is one the schema accepts.
LEMMA CompletedSound ==
  ASSUME NEW job \in JobRecord, Sound(job), job.status = "writing"
  PROVE  /\ Completed(job) \in JobRecord
         /\ Sound(Completed(job))
         /\ Completed(job).status = "completed"
<1>1. /\ Advance(job) \in JobRecord /\ JobSchema(Advance(job)) /\ Advance(job).status = "completed"
      /\ Advance(job).retry = job.retry
  BY AdvanceKeepsSchema DEF Sound, CanAdvance, ActiveStatus
<1>2. /\ Completed(job) \in JobRecord
      /\ Completed(job).status = Advance(job).status /\ Completed(job).last = Advance(job).last
      /\ Completed(job).error = Advance(job).error /\ Completed(job).resolved = Advance(job).resolved
      /\ Completed(job).retry = Advance(job).retry
  BY <1>1 DEF Completed, JobRecord, CleanupWarning
<1> QED
  BY <1>1, <1>2 DEF Sound, JobSchema

\* ... and so is the one the cleanup warning makes of it.
LEMMA WarningSound ==
  ASSUME NEW job \in JobRecord, Sound(job), NEW parts \in SUBSET {"staging", "queue"}
  PROVE  LET new == [job EXCEPT !.warning = WarningOf(parts)]
         IN  new \in JobRecord /\ Sound(new) /\ new.status = job.status
<1>1. WarningOf(parts) \in CleanupWarning
  BY DEF WarningOf, CleanupWarning
<1> QED
  BY <1>1 DEF JobRecord, Sound, JobSchema

\* The rows invariant is inductive relative to the types.
LEMMA RowsKept == Spec => []RowInv
<1>1. Init => RowInv
  BY DEF Init, RowInv, CopiesFresh, Existing, RunSteps, FallibleSteps, CleanupSteps, IntakeSteps, Sound
<1>2. TypeInv /\ RowInv /\ [Next]_vars => RowInv'
  <2> SUFFICES ASSUME TypeInv, RowInv, [Next]_vars PROVE RowInv'
    OBVIOUS
  <2> USE DEF TypeInv, TypeOK, RowInv, durable, volatile, vars, Steps, RunSteps, FallibleSteps, CleanupSteps,
              IntakeSteps, ListSteps, WritingSteps, BeforeBatch, Existing, CopiesFresh, Has
  <2>1. ASSUME Boot PROVE RowInv'
    BY <2>1 DEF Boot, Begin, First, CleanupDebts
  <2>2. ASSUME Poll PROVE RowInv'
    BY <2>2 DEF Poll, Begin, First, CleanupDebts
  <2>3. ASSUME RetryCleanup PROVE RowInv'
    BY <2>3 DEF RetryCleanup, EnterCleanup, First
  <2>4. ASSUME ScanReady PROVE RowInv'
    BY <2>4 DEF ScanReady
  <2>5. ASSUME ListRecoverable PROVE RowInv'
    BY <2>5 DEF ListRecoverable, Recoverable, Stalest
  <2>6. ASSUME BatchDone PROVE RowInv'
    BY <2>6 DEF BatchDone
  <2>7. ASSUME NEW j \in Jobs, SkipExisting(j) PROVE RowInv'
    BY <2>7 DEF SkipExisting, NextItem
  <2>8. ASSUME NEW j \in Jobs, CleanExisting(j) PROVE RowInv'
    BY <2>8 DEF CleanExisting, EnterCleanup
  <2>9. ASSUME NEW j \in Jobs, Claim(j) PROVE RowInv'
    BY <2>9 DEF Claim
  <2>10. ASSUME NEW j \in Jobs, BeginJob(j) PROVE RowInv'
    <3>1. /\ batch[j] \in JobRecord /\ row[j] = batch[j] /\ Sound(batch[j])
          /\ batch[j].status \notin {"completed", "needs_attention"}
      BY <2>10, DistinctConstants DEF BeginJob, Turn, RowIs
    <3>2. /\ PrepareRecovery(batch[j]) \in JobRecord
          /\ Sound(PrepareRecovery(batch[j]))
          /\ PrepareRecovery(batch[j]).status \in ActiveStatus
      BY <3>1, RecoveryKeepsSchema DEF Sound
    <3>3. /\ row'[j] = PrepareRecovery(batch[j])
          /\ \A k \in Jobs : k # j => row'[k] = row[k]
      BY <2>10, <3>1, <3>2, ReplaceType DEF BeginJob
    <3>4. \A k \in Existing' : Sound(row'[k])
      BY <3>2, <3>3
    <3>5. pending' = {} /\ pc = "batch"
      BY <2>10 DEF BeginJob, Turn
    <3>6. /\ batch' = [batch EXCEPT ![j] = NoRow]
          /\ cur' = j /\ pc' = "run" /\ mem' = PrepareRecovery(batch[j])
      BY <2>10 DEF BeginJob
    <3>7. batch'[j] = NoRow /\ \A k \in Jobs : k # j => batch'[k] = batch[k]
      BY <3>6
    <3> QED
      BY <3>1, <3>2, <3>3, <3>4, <3>5, <3>6, <3>7
  <2>11. ASSUME ClaimReceipt PROVE RowInv'
    BY <2>11 DEF ClaimReceipt, NextItem
  <2>12. ASSUME Provision PROVE RowInv'
    BY <2>12 DEF Provision
  <2>13. ASSUME RefuseClaim PROVE RowInv'
    BY <2>13 DEF RefuseClaim
  <2>14. ASSUME InsertClaimed PROVE RowInv'
    <3>1. /\ row'[cur] = NewJob("source_ready")
          /\ \A k \in Jobs : k # cur => row'[k] = row[k]
      BY <2>14, NewJobType, InsertType DEF InsertClaimed
    <3>2. Sound(row'[cur])
      BY <3>1, NewJobType, MaxAutomaticRetriesAssumption DEF Sound, NewJob
    <3>3. \A k \in Existing' : Sound(row'[k])
      BY <2>14, <3>1, <3>2 DEF InsertClaimed
    <3>4. pending = {} /\ \A k \in Jobs : batch[k] = NoRow
      BY <2>14 DEF InsertClaimed
    <3> QED
      BY <2>14, <3>3, <3>4 DEF InsertClaimed, NextItem
  <2>15. ASSUME RejectStatus PROVE RowInv'
    BY <2>15 DEF RejectStatus
  <2>16. ASSUME RejectDurable PROVE RowInv'
    BY <2>16 DEF RejectDurable, NextItem
  <2>17. ASSUME InsertLocal PROVE RowInv'
    <3>1. /\ row'[cur] = NewJob("queued")
          /\ \A k \in Jobs : k # cur => row'[k] = row[k]
      BY <2>17, NewJobType, InsertType DEF InsertLocal
    <3>2. Sound(row'[cur])
      BY <3>1, NewJobType, MaxAutomaticRetriesAssumption DEF Sound, NewJob
    <3>3. \A k \in Existing' : Sound(row'[k])
      BY <2>17, <3>1, <3>2 DEF InsertLocal
    <3>4. row[cur] = NoRow /\ \A k \in Jobs : batch[k] = NoRow
      BY <2>17 DEF InsertLocal
    <3>5. \A k \in pending' : k \in Jobs /\ Has(k, "completed")
      BY <2>17 DEF InsertLocal, Begin, First, CleanupDebts
    <3>6. \A k \in pending' : row'[k] # NoRow /\ row'[k].status = "completed"
      BY <3>1, <3>4, <3>5
    <3> QED
      BY <2>17, <3>3, <3>4, <3>6 DEF InsertLocal, Begin
  <2>18. ASSUME RunStage PROVE RowInv'
    <3>1. Sound(row[cur]) /\ row[cur] = mem /\ mem \in JobRecord /\ CanAdvance(mem) /\ mem.status # "writing"
      BY <2>18, DistinctConstants DEF RunStage, Transition, RowIs, CanAdvance, ActiveStatus
    <3>2. Advance(mem) \in JobRecord /\ Sound(Advance(mem)) /\ Advance(mem).status \in ActiveStatus
      BY <3>1, AdvanceKeepsSchema DEF Sound, SuccessfulStatus
    <3>3. /\ row'[cur] = Advance(mem)
          /\ \A k \in Jobs : k # cur => row'[k] = row[k]
      BY <2>18, <3>2, ReplaceType DEF RunStage, Transition
    <3>4. \A k \in Existing' : Sound(row'[k])
      BY <3>2, <3>3
    <3> QED
      BY <2>18, <3>1, <3>2, <3>3, <3>4 DEF RunStage, Transition, ActiveStatus
  <2>19. ASSUME Receipt PROVE RowInv'
    BY <2>19 DEF Receipt
  <2>20. ASSUME RunProcessor PROVE RowInv'
    <3>1. Sound(row[cur]) /\ row[cur] = mem /\ mem \in JobRecord /\ CanAdvance(mem) /\ mem.status # "writing"
      BY <2>20, DistinctConstants DEF RunProcessor, Transition, RowIs, CanAdvance, ActiveStatus
    <3>2. Advance(mem) \in JobRecord /\ Sound(Advance(mem)) /\ Advance(mem).status \in ActiveStatus
      BY <3>1, AdvanceKeepsSchema DEF Sound, SuccessfulStatus
    <3>3. /\ row'[cur] = Advance(mem)
          /\ \A k \in Jobs : k # cur => row'[k] = row[k]
      BY <2>20, <3>2, ReplaceType DEF RunProcessor, Transition
    <3>4. \A k \in Existing' : Sound(row'[k])
      BY <3>2, <3>3
    <3> QED
      BY <2>20, <3>1, <3>2, <3>3, <3>4 DEF RunProcessor, Transition, ActiveStatus
  <2>21. ASSUME RunWriting PROVE RowInv'
    BY <2>21 DEF RunWriting
  <2>22. ASSUME ArchiveSource PROVE RowInv'
    BY <2>22 DEF ArchiveSource
  <2>23. ASSUME RecordArchive PROVE RowInv'
    BY <2>23 DEF RecordArchive
  <2>24. ASSUME KeepArchive PROVE RowInv'
    BY <2>24 DEF KeepArchive
  <2>25. ASSUME WriteNote PROVE RowInv'
    BY <2>25 DEF WriteNote
  <2>26. ASSUME RecordNote PROVE RowInv'
    BY <2>26 DEF RecordNote
  <2>27. ASSUME KeepNote PROVE RowInv'
    BY <2>27 DEF KeepNote
  <2>28. ASSUME StopOnConflict PROVE RowInv'
    <3>1. pc \in {"archive", "archiveRow", "note"}
      BY <2>28 DEF StopOnConflict, VaultConflict
    <3> QED
      BY <2>28, <3>1 DEF StopOnConflict
  <2>29. ASSUME CompletedReceipt PROVE RowInv'
    BY <2>29 DEF CompletedReceipt
  <2>30. ASSUME Complete PROVE RowInv'
    <3>1. Sound(row[cur]) /\ row[cur] = mem /\ mem \in JobRecord /\ mem.status = "writing"
      BY <2>30, DistinctConstants DEF Complete, RowIs
    <3>2. /\ Completed(mem) \in JobRecord
          /\ Sound(Completed(mem))
          /\ Completed(mem).status = "completed"
      BY <3>1, CompletedSound
    <3>3. /\ row'[cur] = Completed(mem)
          /\ \A k \in Jobs : k # cur => row'[k] = row[k]
      BY <2>30, <3>2, ReplaceType DEF Complete
    <3>4. row'[cur] # NoRow
      BY <3>2, <3>3, DistinctConstants
    <3>5. \A k \in Existing' : Sound(row'[k])
      BY <3>2, <3>3
    <3> QED
      BY <2>30, <3>2, <3>3, <3>4, <3>5 DEF Complete, EnterCleanup
  <2>31. ASSUME Finalized PROVE RowInv'
    BY <2>31 DEF Finalized, EndRun
  <2>32. ASSUME FailJob PROVE RowInv'
    <3>1. Sound(row[cur]) /\ row[cur] = mem /\ mem \in JobRecord /\ CanFail(mem)
      BY <2>32, DistinctConstants DEF FailJob, RowIs
    <3>2. /\ Fail(mem, failure) \in JobRecord
          /\ Sound(Fail(mem, failure))
          /\ Fail(mem, failure).status \in FailureStatus
      BY <3>1, FailKeepsSchema DEF Sound
    <3>3. /\ row'[cur] = Fail(mem, failure)
          /\ \A k \in Jobs : k # cur => row'[k] = row[k]
      BY <2>32, <3>2, ReplaceType DEF FailJob
    <3>4. \A k \in Existing' : Sound(row'[k])
      BY <3>2, <3>3
    <3>5. \A k \in pending : k # cur
      BY <3>1 DEF CanFail, ActiveStatus
    <3> QED
      BY <2>32, <3>1, <3>2, <3>3, <3>4, <3>5 DEF FailJob
  <2>33. ASSUME FailUnrecorded PROVE RowInv'
    BY <2>33 DEF FailUnrecorded, EndRun
  <2>34. ASSUME FailReceipt PROVE RowInv'
    BY <2>34 DEF FailReceipt, EndRun
  <2>35. ASSUME CleanStaging PROVE RowInv'
    BY <2>35 DEF CleanStaging
  <2>36. ASSUME CleanQueue PROVE RowInv'
    BY <2>36 DEF CleanQueue
  <2>37. ASSUME CleanWarning PROVE RowInv'
    <3>1. Has(cur, "completed") /\ Sound(row[cur]) /\ batch[cur] = NoRow
      BY <2>37 DEF CleanWarning
    <3> DEFINE new == [row[cur] EXCEPT !.warning = WarningOf(stuck)]
    <3>2. new \in JobRecord /\ Sound(new) /\ new.status = "completed"
      <4>1. row[cur] \in JobRecord /\ row[cur].status = "completed"
        BY <2>37, <3>1 DEF CleanWarning
      <4>2. stuck \in SUBSET {"staging", "queue"}
        OBVIOUS
      <4> QED
        BY ONLY <3>1, <4>1, <4>2, WarningSound
    <3>3. /\ row'[cur] \in {row[cur], new}
          /\ \A k \in Jobs : k # cur => row'[k] = row[k]
      <4>1. CASE Replace(cur, new)
        BY <2>37, <4>1, <3>2, ReplaceType DEF CleanWarning
      <4>2. CASE row' = row
        BY <4>2
      <4> QED
        BY <2>37, <4>1, <4>2 DEF CleanWarning
    <3> HIDE DEF new
    <3>4. row'[cur] # NoRow /\ Sound(row'[cur]) /\ row'[cur].status = "completed"
      BY <3>1, <3>2, <3>3, DistinctConstants
    <3>5. \A k \in Existing' : Sound(row'[k])
      BY <3>3, <3>4
    <3> QED
      BY <2>37, <3>1, <3>3, <3>4, <3>5 DEF CleanWarning, LeaveCleanup
  <2>38. ASSUME ScanFails PROVE RowInv'
    BY <2>38 DEF ScanFails
  <2>39. ASSUME ReceiptFails PROVE RowInv'
    BY <2>39 DEF ReceiptFails, NextItem
  <2>40. ASSUME ProvisionFails PROVE RowInv'
    BY <2>40 DEF ProvisionFails
  <2>41. ASSUME AdmitFails PROVE RowInv'
    BY <2>41 DEF AdmitFails, NextItem
  <2>42. ASSUME InsertLocalFails PROVE RowInv'
    BY <2>42 DEF InsertLocalFails
  <2>43. ASSUME StepFails PROVE RowInv'
    BY <2>43 DEF StepFails
  <2>44. ASSUME CommitUnseen PROVE RowInv'
    <3> DEFINE new == IF pc = "complete" THEN Completed(mem) ELSE Advance(mem)
    <3>1. Sound(row[cur]) /\ row[cur] = mem /\ mem \in JobRecord /\ mem.status \in ActiveStatus
      BY <2>44, DistinctConstants DEF CommitUnseen, RowIs, ActiveStatus
    <3>2. new \in JobRecord /\ Sound(new)
      BY <2>44, <3>1, CompletedSound, AdvanceKeepsSchema DEF CommitUnseen, Sound, CanAdvance
    <3>3. Replace(cur, new)
      BY <2>44 DEF CommitUnseen
    <3> HIDE DEF new
    <3>4. /\ row'[cur] = new
          /\ \A k \in Jobs : k # cur => row'[k] = row[k]
      BY <2>44, <3>2, <3>3, ReplaceType DEF CommitUnseen
    <3>5. \A k \in Existing' : Sound(row'[k])
      BY <3>2, <3>4
    <3>6. \A k \in pending : k # cur
      BY <3>1 DEF ActiveStatus
    <3> QED
      BY <2>44, <3>4, <3>5, <3>6 DEF CommitUnseen
  <2>45. ASSUME CleanWarningFails PROVE RowInv'
    BY <2>45 DEF CleanWarningFails, LeaveCleanup
  <2>46. ASSUME NEW j \in Jobs, CleanExistingFails(j) PROVE RowInv'
    BY <2>46 DEF CleanExistingFails, NextItem
  <2>47. ASSUME NEW j \in Jobs, ClaimRejects(j) PROVE RowInv'
    BY <2>47 DEF ClaimRejects, ClaimEnds, NextItem
  <2>48. ASSUME NEW j \in Jobs, ClaimFails(j) PROVE RowInv'
    BY <2>48 DEF ClaimFails, ClaimEnds, NextItem
  <2>49. ASSUME NEW j \in Jobs, BeginJobFails(j) PROVE RowInv'
    <3>1. /\ batch[j] \in JobRecord /\ row[j] = batch[j] /\ Sound(batch[j])
          /\ batch[j].status \notin {"completed", "needs_attention"}
      BY <2>49, DistinctConstants DEF BeginJobFails, Turn
    <3>2. PrepareRecovery(batch[j]) \in JobRecord /\ Sound(PrepareRecovery(batch[j]))
      BY <3>1, RecoveryKeepsSchema DEF Sound
    <3>3. /\ row'[j] \in {row[j], PrepareRecovery(batch[j])}
          /\ \A k \in Jobs : k # j => row'[k] = row[k]
      <4>1. CASE UNCHANGED <<row, older>>
        BY <4>1
      <4>2. CASE Replace(j, PrepareRecovery(batch[j]))
        BY <4>2, <3>2, ReplaceType
      <4> QED
        BY <2>49, <4>1, <4>2 DEF BeginJobFails
    <3>4. \A k \in Existing' : Sound(row'[k])
      BY <3>1, <3>2, <3>3
    <3>5. pending' = {} /\ pc = "batch"
      BY <2>49 DEF BeginJobFails, Turn
    <3>6. /\ batch' = [batch EXCEPT ![j] = NoRow]
          /\ cur' = j /\ pc' = "fail"
      BY <2>49 DEF BeginJobFails
    <3>7. batch'[j] = NoRow /\ \A k \in Jobs : k # j => batch'[k] = batch[k]
      BY <3>6
    <3> QED
      BY <3>3, <3>4, <3>5, <3>6, <3>7
  <2>50. ASSUME Crash PROVE RowInv'
    BY <2>50 DEF Crash
  <2>51. ASSUME NEW j \in Jobs, Deliver(j) PROVE RowInv'
    BY <2>51 DEF Deliver
  <2>52. ASSUME NEW j \in Jobs, Redeliver(j) PROVE RowInv'
    BY <2>52 DEF Redeliver
  <2>53. ASSUME NEW j \in Jobs, EnqueueLocal(j) PROVE RowInv'
    BY <2>53 DEF EnqueueLocal
  <2>54. ASSUME NEW j \in Jobs, RetryJob(j) PROVE RowInv'
    <3>1. row[j] \in JobRecord /\ \A k \in Jobs : batch[k] = NoRow
      BY <2>54 DEF RetryJob
    <3>2. Resolve(row[j]) \in JobRecord /\ Sound(Resolve(row[j])) 
      BY <3>1, ResolveKeepsSchema, MaxAutomaticRetriesAssumption DEF Sound
    <3>3. /\ row'[j] \in {row[j], Resolve(row[j])}
          /\ \A k \in Jobs : k # j => row'[k] = row[k]
      <4>1. CASE UNCHANGED <<row, older>>
        BY <4>1
      <4>2. CASE Replace(j, Resolve(row[j]))
        BY <4>2, <3>2, ReplaceType
      <4> QED
        BY <2>54, <4>1, <4>2 DEF RetryJob
    <3>4. \A k \in Existing' : Sound(row'[k])
      BY <3>1, <3>2, <3>3
    <3>5. \A k \in pending' : k \in Jobs /\ Has(k, "completed") /\ k # j
      BY <2>54 DEF RetryJob, Begin, First, CleanupDebts
    <3>6. \A k \in pending' : row'[k] # NoRow /\ row'[k].status = "completed"
      BY <3>3, <3>5
    <3> QED
      BY <2>54, <3>1, <3>4, <3>6 DEF RetryJob, Begin
  <2>55. ASSUME NEW j \in Jobs, EditNote(j) PROVE RowInv'
    BY <2>55 DEF EditNote
  <2>56. ASSUME NEW j \in Jobs, EditArchive(j) PROVE RowInv'
    BY <2>56 DEF EditArchive
  <2>57. CASE UNCHANGED vars
    BY <2>57
  <2> QED
    BY <2>1, <2>2, <2>3, <2>4, <2>5, <2>6, <2>7, <2>8, <2>9, <2>10, <2>11, <2>12, <2>13,
       <2>14, <2>15, <2>16, <2>17, <2>18, <2>19, <2>20, <2>21, <2>22, <2>23, <2>24, <2>25, <2>26,
       <2>27, <2>28, <2>29, <2>30, <2>31, <2>32, <2>33, <2>34, <2>35, <2>36, <2>37, <2>38, <2>39,
       <2>40, <2>41, <2>42, <2>43, <2>44, <2>45, <2>46, <2>47, <2>48, <2>49, <2>50, <2>51, <2>52,
       <2>53, <2>54, <2>55, <2>56, <2>57
    DEF Next, RunnerStep, FaultStep, OutsideStep
<1> QED
  BY <1>1, <1>2, TypeCorrect, PTL DEF Spec

\* The steps that write a row which is there already.
RowUpdate ==
  \/ RunStage \/ RunProcessor \/ Complete \/ FailJob \/ CommitUnseen \/ CleanWarning
  \/ \E j \in Jobs : BeginJob(j) \/ BeginJobFails(j) \/ RetryJob(j)

\* No update makes or unmakes a job; only Complete, seen or not, completes one,
\* and a completed row is only touched by its cleanup.
LEMMA UpdatesKeepJobs ==
  ASSUME TypeInv, RowInv, RowUpdate
  PROVE  /\ Existing' = Existing
         /\ \E j \in Existing : \A k \in Jobs : k # j => row'[k] = row[k]
         /\ \A k \in Existing :
              \/ row'[k] = row[k]
              \/ row[k].status # "completed" /\ row'[k].status # "completed"
              \/ /\ pc = "complete" /\ k = cur /\ row[k].status = "writing"
                 /\ row'[k].status = "completed" /\ row'[k].warning = "CLEANUP_PENDING"
              \/ /\ pc = "cleanWarning" /\ k = cur
                 /\ row[k].status = "completed" /\ row'[k].status = "completed"
                 /\ row'[k] = [row[k] EXCEPT !.warning = WarningOf(stuck)]
<1> USE DEF TypeInv, TypeOK, RowInv, CopiesFresh, FallibleSteps, RunSteps, CleanupSteps
<1> DEFINE One == \E j \in Existing : \A k \in Jobs : k # j => row'[k] = row[k]
<1> DEFINE Goal(k) ==
             \/ row'[k] = row[k]
             \/ row[k].status # "completed" /\ row'[k].status # "completed"
             \/ /\ pc = "complete" /\ k = cur /\ row[k].status = "writing"
                /\ row'[k].status = "completed" /\ row'[k].warning = "CLEANUP_PENDING"
             \/ /\ pc = "cleanWarning" /\ k = cur
                /\ row[k].status = "completed" /\ row'[k].status = "completed"
                /\ row'[k] = [row[k] EXCEPT !.warning = WarningOf(stuck)]
<1>1. ASSUME NEW j \in Existing, NEW new \in JobRecord, Replace(j, new),
             row'[j] = new => Goal(j)
      PROVE  Existing' = Existing /\ One /\ \A k \in Existing : Goal(k)
  <2>1. /\ row'[j] = new /\ Existing' = Existing \cup {j}
        /\ \A k \in Jobs : k # j => row'[k] = row[k]
    BY <1>1, ReplaceType DEF Existing
  <2>2. \A k \in Existing : k # j => Goal(k)
    BY <2>1 DEF Existing
  <2>3. j \in Existing => Goal(j)
    BY <1>1, <2>1
  <2> HIDE DEF Goal
  <2> QED
    BY <1>1, <2>1, <2>2, <2>3
<1>2. ASSUME UNCHANGED row, Existing # {} PROVE Existing' = Existing /\ One /\ \A k \in Existing : Goal(k)
  BY <1>2 DEF Existing
<1>3. ASSUME RunStage \/ RunProcessor PROVE Existing' = Existing /\ One /\ \A k \in Existing : Goal(k)
  <2>1. /\ cur \in Existing /\ row[cur] = mem /\ JobSchema(mem) /\ mem \in JobRecord
        /\ CanAdvance(mem) /\ mem.status # "writing"
    BY <1>3, DistinctConstants
    DEF RunStage, RunProcessor, Transition, RowIs, CanAdvance, ActiveStatus, Existing, Sound
  <2>2. Advance(mem) \in JobRecord /\ Advance(mem).status # "completed" /\ mem.status # "completed"
    BY <2>1, AdvanceKeepsSchema DEF CanAdvance, ActiveStatus
  <2>3. Replace(cur, Advance(mem))
    BY <1>3 DEF RunStage, RunProcessor, Transition
  <2> QED
    BY <2>1, <2>2, <2>3, <1>1
<1>4. ASSUME Complete \/ CommitUnseen PROVE Existing' = Existing /\ One /\ \A k \in Existing : Goal(k)
  <2> DEFINE new == IF pc = "complete" THEN Completed(mem) ELSE Advance(mem)
  <2>1. /\ cur \in Existing /\ row[cur] = mem /\ Sound(mem) /\ mem \in JobRecord
        /\ mem.status \in ActiveStatus
        /\ pc = "complete" <=> mem.status = "writing"
    BY <1>4, DistinctConstants
    DEF Complete, CommitUnseen, RowIs, ActiveStatus, Existing, WritingSteps
  <2>2. Replace(cur, new)
    BY <1>4 DEF Complete, CommitUnseen
  <2>3. CASE pc = "complete"
    <3>1. new \in JobRecord /\ new.status = "completed" /\ new.warning = "CLEANUP_PENDING"
      BY <2>1, <2>3, CompletedSound, AdvanceKeepsSchema
      DEF Completed, JobRecord, Sound, CanAdvance
    <3> HIDE DEF new
    <3> QED
      BY <2>1, <2>2, <2>3, <3>1, <1>1
  <2>4. CASE pc # "complete"
    <3>1. new \in JobRecord /\ new.status # "completed" /\ mem.status # "completed"
      BY <2>1, <2>4, AdvanceKeepsSchema DEF Sound, CanAdvance, ActiveStatus
    <3> HIDE DEF new
    <3> QED
      BY <2>1, <2>2, <2>4, <3>1, <1>1
  <2> QED
    BY <2>3, <2>4
<1>5. ASSUME FailJob PROVE Existing' = Existing /\ One /\ \A k \in Existing : Goal(k)
  <2>1. /\ cur \in Existing /\ row[cur] = mem /\ Sound(mem) /\ mem \in JobRecord /\ CanFail(mem)
    BY <1>5, DistinctConstants DEF FailJob, RowIs, Existing
  <2>2. /\ Fail(mem, failure) \in JobRecord
        /\ Fail(mem, failure).status # "completed" /\ mem.status # "completed"
    BY <2>1, FailKeepsSchema DEF Sound, CanFail, ActiveStatus, FailureStatus
  <2>3. Replace(cur, Fail(mem, failure))
    BY <1>5 DEF FailJob
  <2> QED
    BY <2>1, <2>2, <2>3, <1>1
<1>6. ASSUME CleanWarning PROVE Existing' = Existing /\ One /\ \A k \in Existing : Goal(k)
  <2> DEFINE new == [row[cur] EXCEPT !.warning = WarningOf(stuck)]
  <2>1. /\ cur \in Existing /\ Has(cur, "completed") /\ pc = "cleanWarning"
        /\ new \in JobRecord /\ new.status = row[cur].status
    BY <1>6, WarningSound DEF CleanWarning, Has, Existing
  <2>2. CASE Replace(cur, new)
    BY <2>1, <2>2, <1>1 DEF Has
  <2> QED
    BY <2>1, <2>2, <1>2, <1>6 DEF CleanWarning
<1>7. ASSUME NEW j \in Jobs, BeginJob(j) \/ BeginJobFails(j)
      PROVE  Existing' = Existing /\ One /\ \A k \in Existing : Goal(k)
  <2>1. /\ j \in Existing /\ row[j] = batch[j] /\ Sound(batch[j]) /\ batch[j] \in JobRecord
        /\ batch[j].status \notin {"completed", "needs_attention"}
    BY <1>7, DistinctConstants DEF BeginJob, BeginJobFails, Turn, Existing
  <2>2. PrepareRecovery(batch[j]) \in JobRecord /\ PrepareRecovery(batch[j]).status # "completed"
    BY <2>1, RecoveryKeepsSchema DEF Sound, ActiveStatus
  <2>3. UNCHANGED row \/ Replace(j, PrepareRecovery(batch[j]))
    BY <1>7 DEF BeginJob, BeginJobFails
  <2> QED
    BY <2>1, <2>2, <2>3, <1>1, <1>2
<1>8. ASSUME NEW j \in Jobs, RetryJob(j) PROVE Existing' = Existing /\ One /\ \A k \in Existing : Goal(k)
  <2>1. j \in Existing /\ row[j] \in JobRecord /\ row[j].status # "completed"
    BY <1>8 DEF RetryJob, Has, Existing
  <2>2. Resolve(row[j]) \in JobRecord /\ Resolve(row[j]).status # "completed"
    BY <2>1, ResolveKeepsSchema
  <2>3. UNCHANGED row \/ Replace(j, Resolve(row[j]))
    BY <1>8 DEF RetryJob
  <2> QED
    BY <2>1, <2>2, <2>3, <1>1, <1>2
<1> QED
  BY <1>3, <1>4, <1>5, <1>6, <1>7, <1>8 DEF RowUpdate

-----------------------------------------------------------------------------
(* Intake: sources, rejections, duplicates.                                 *)

\* What holds of a submission until it is a job: only bundles that were there
\* when the list was made are claimed, a rejected one only ends its claim, and
\* nothing else is in the table with the sources of the one being admitted.
IntakeInv ==
  /\ SourceKept
  /\ RejectedHasNoJob
  /\ OneJobPerSource
  /\ \A j \in LocalJobs : inbox[j] = "unsent" /\ ~rejected[j]
  /\ \A j \in ready : j \notin LocalJobs /\ inbox[j] # "unsent"
  /\ \A j \in Existing \ LocalJobs : inbox[j] # "unsent"
  /\ \A j \in ready : rejected[j] => pc = "claimReceipt" /\ cur = j
  /\ pc \in IntakeSteps \ {"localInsert"} => cur \in ready
  /\ pc \in {"claimed", "admit", "localInsert"} => staged[cur]
  /\ pc = "localInsert" => cur \in LocalJobs /\ ~Duplicate(cur)

\* The intake invariant is inductive relative to types and rows.
LEMMA IntakeKept == Spec => []IntakeInv
<1>1. Init => IntakeInv
  BY JobsAssumption DEF Init, IntakeInv, SourceKept, RejectedHasNoJob, OneJobPerSource, Existing, IntakeSteps
<1>2. TypeInv /\ RowInv /\ IntakeInv /\ [Next]_vars => IntakeInv'
  <2> SUFFICES ASSUME TypeInv, RowInv, IntakeInv, [Next]_vars PROVE IntakeInv'
    OBVIOUS
  <2> USE JobsAssumption
      DEF TypeInv, TypeOK, RowInv, IntakeInv, durable, volatile, vars, Steps, RunSteps, FallibleSteps,
          CleanupSteps, IntakeSteps, ListSteps, Existing, Has, SourceKept,
          RejectedHasNoJob, OneJobPerSource, Duplicate
  <2>1. ASSUME RowUpdate PROVE IntakeInv'
    <3>1. /\ Existing' = Existing
          /\ \A k \in Existing : row[k].status = "completed" => row'[k].status = "completed"
      BY <2>1, UpdatesKeepJobs
    <3>2. UNCHANGED <<inbox, rejected, staged, archive, ready>> /\ pc \notin IntakeSteps
      BY <2>1 DEF RowUpdate, RunStage, RunProcessor, Complete, FailJob, CommitUnseen, CleanWarning,
                 BeginJob, BeginJobFails, RetryJob, Turn
    <3>3. pc' \notin IntakeSteps
      BY <2>1 DEF RowUpdate, RunStage, RunProcessor, Complete, FailJob, CommitUnseen, CleanWarning,
                 BeginJob, BeginJobFails, RetryJob, Begin, EnterCleanup, LeaveCleanup
    <3> QED
      BY <3>1, <3>2, <3>3
  <2>2. ASSUME Boot PROVE IntakeInv'
    BY <2>2 DEF Boot, Begin, First, CleanupDebts
  <2>3. ASSUME Poll PROVE IntakeInv'
    BY <2>3 DEF Poll, Begin, First, CleanupDebts
  <2>4. ASSUME RetryCleanup PROVE IntakeInv'
    BY <2>4 DEF RetryCleanup, EnterCleanup, First
  <2>5. ASSUME ScanReady PROVE IntakeInv'
    <3>1. PICK some \in SUBSET ReadyBundles : ready' = ReadyFirst(some)
      BY <2>5 DEF ScanReady
    <3> HIDE DEF Existing, Has, SourceKept, RejectedHasNoJob, OneJobPerSource, Duplicate
    <3>4. ready' \subseteq ReadyBundles
      BY <3>1 DEF ReadyFirst
    <3> USE DEF Existing, Has, SourceKept, RejectedHasNoJob, OneJobPerSource, Duplicate
    <3>2. \A j \in ReadyBundles : j \in Jobs /\ j \notin LocalJobs /\ inbox[j] # "unsent" /\ ~rejected[j]
      BY DEF ReadyBundles
    <3>3. pc' = "intake" /\ UNCHANGED durable
      BY <2>5 DEF ScanReady
    <3> QED
      BY <3>2, <3>3, <3>4
  <2>6. ASSUME ListRecoverable PROVE IntakeInv'
    BY <2>6 DEF ListRecoverable
  <2>7. ASSUME BatchDone PROVE IntakeInv'
    BY <2>7 DEF BatchDone
  <2>8. ASSUME NEW j \in Jobs, SkipExisting(j) PROVE IntakeInv'
    BY <2>8 DEF SkipExisting, NextItem
  <2>9. ASSUME NEW j \in Jobs, CleanExisting(j) PROVE IntakeInv'
    BY <2>9 DEF CleanExisting, EnterCleanup
  <2>10. ASSUME NEW j \in Jobs, Claim(j) PROVE IntakeInv'
    BY <2>10 DEF Claim
  <2>11. ASSUME ClaimReceipt PROVE IntakeInv'
    BY <2>11 DEF ClaimReceipt, NextItem
  <2>12. ASSUME Provision PROVE IntakeInv'
    BY <2>12 DEF Provision
  <2>13. ASSUME RefuseClaim PROVE IntakeInv'
    BY <2>13 DEF RefuseClaim
  <2>14. ASSUME InsertClaimed PROVE IntakeInv'
    <3>1. /\ row'[cur] = NewJob("source_ready")
          /\ Existing' = Existing \cup {cur}
          /\ \A k \in Jobs : k # cur => row'[k] = row[k]
      BY <2>14, NewJobType, InsertType DEF InsertClaimed
    <3>2. NewJob("source_ready").status # "completed"
      BY DEF NewJob
    <3>3. /\ row[cur] = NoRow /\ ~Duplicate(cur) /\ staged[cur] /\ ~rejected[cur]
          /\ cur \notin LocalJobs => inbox[cur] # "unsent"
      BY <2>14 DEF InsertClaimed
    <3>4. SourceKept' /\ RejectedHasNoJob' /\ OneJobPerSource'
      BY <2>14, <3>1, <3>2, <3>3 DEF InsertClaimed
    <3> QED
      BY <2>14, <3>1, <3>3, <3>4 DEF InsertClaimed, NextItem
  <2>15. ASSUME RejectStatus PROVE IntakeInv'
    BY <2>15 DEF RejectStatus
  <2>16. ASSUME RejectDurable PROVE IntakeInv'
    BY <2>16 DEF RejectDurable, NextItem
  <2>17. ASSUME InsertLocal PROVE IntakeInv'
    <3>1. /\ row'[cur] = NewJob("queued")
          /\ Existing' = Existing \cup {cur}
          /\ \A k \in Jobs : k # cur => row'[k] = row[k]
      BY <2>17, NewJobType, InsertType DEF InsertLocal
    <3>2. NewJob("queued").status # "completed"
      BY DEF NewJob
    <3>3. /\ row[cur] = NoRow /\ ~Duplicate(cur) /\ staged[cur] /\ ~rejected[cur]
          /\ cur \notin LocalJobs => inbox[cur] # "unsent"
      BY <2>17 DEF InsertLocal
    <3>4. SourceKept' /\ RejectedHasNoJob' /\ OneJobPerSource'
      BY <2>17, <3>1, <3>2, <3>3 DEF InsertLocal
    <3> QED
      BY <2>17, <3>1, <3>3, <3>4 DEF InsertLocal, Begin
  <2>18. ASSUME Receipt PROVE IntakeInv'
    BY <2>18 DEF Receipt
  <2>19. ASSUME RunWriting PROVE IntakeInv'
    BY <2>19 DEF RunWriting
  <2>20. ASSUME ArchiveSource PROVE IntakeInv'
    <3>1. \A p, q \in ArchivePaths :
            archive'[cur][p] = "source" /\ archive'[cur][q] = "source" => p = q
      BY <2>20 DEF ArchiveSource, ArchiveChoice, ArchivePaths
    <3>2. SourceKept'
      BY <2>20, <3>1 DEF ArchiveSource
    <3> QED
      BY <2>20, <3>2 DEF ArchiveSource
  <2>21. ASSUME RecordArchive PROVE IntakeInv'
    BY <2>21 DEF RecordArchive
  <2>22. ASSUME KeepArchive PROVE IntakeInv'
    BY <2>22 DEF KeepArchive
  <2>23. ASSUME WriteNote PROVE IntakeInv'
    BY <2>23 DEF WriteNote
  <2>24. ASSUME RecordNote PROVE IntakeInv'
    BY <2>24 DEF RecordNote
  <2>25. ASSUME KeepNote PROVE IntakeInv'
    BY <2>25 DEF KeepNote
  <2>26. ASSUME StopOnConflict PROVE IntakeInv'
    <3>1. pc \in {"archive", "archiveRow", "note"}
      BY <2>26 DEF StopOnConflict, VaultConflict
    <3> QED
      BY <2>26, <3>1 DEF StopOnConflict
  <2>27. ASSUME CompletedReceipt PROVE IntakeInv'
    BY <2>27 DEF CompletedReceipt
  <2>28. ASSUME Finalized PROVE IntakeInv'
    BY <2>28 DEF Finalized, EndRun
  <2>29. ASSUME FailUnrecorded PROVE IntakeInv'
    BY <2>29 DEF FailUnrecorded, EndRun
  <2>30. ASSUME FailReceipt PROVE IntakeInv'
    BY <2>30 DEF FailReceipt, EndRun
  <2>31. ASSUME CleanStaging PROVE IntakeInv'
    BY <2>31 DEF CleanStaging
  <2>32. ASSUME CleanQueue PROVE IntakeInv'
    BY <2>32 DEF CleanQueue
  <2>33. ASSUME ScanFails PROVE IntakeInv'
    BY <2>33 DEF ScanFails
  <2>34. ASSUME ReceiptFails PROVE IntakeInv'
    BY <2>34 DEF ReceiptFails, NextItem
  <2>35. ASSUME ProvisionFails PROVE IntakeInv'
    BY <2>35 DEF ProvisionFails
  <2>36. ASSUME AdmitFails PROVE IntakeInv'
    BY <2>36 DEF AdmitFails, NextItem
  <2>37. ASSUME InsertLocalFails PROVE IntakeInv'
    BY <2>37 DEF InsertLocalFails
  <2>38. ASSUME StepFails PROVE IntakeInv'
    BY <2>38 DEF StepFails
  <2>39. ASSUME CleanWarningFails PROVE IntakeInv'
    BY <2>39 DEF CleanWarningFails, LeaveCleanup
  <2>40. ASSUME NEW j \in Jobs, CleanExistingFails(j) PROVE IntakeInv'
    BY <2>40 DEF CleanExistingFails, NextItem
  <2>41. ASSUME NEW j \in Jobs, ClaimRejects(j) PROVE IntakeInv'
    <3>1. PICK left \in {FALSE, staged[j]} : staged' = [staged EXCEPT ![j] = left]
      BY <2>41 DEF ClaimRejects
    <3>2. SourceKept'
      BY <2>41, <3>1 DEF ClaimRejects
    <3>3. CASE pc' = "claimReceipt" /\ cur' = j /\ ready' = ready
      BY <2>41, <3>2, <3>3 DEF ClaimRejects
    <3>4. CASE NextItem(j)
      BY <2>41, <3>2, <3>4 DEF ClaimRejects, NextItem
    <3> QED
      BY <2>41, <3>3, <3>4 DEF ClaimRejects, ClaimEnds
  <2>42. ASSUME NEW j \in Jobs, ClaimFails(j) PROVE IntakeInv'
    <3>1. PICK left \in BOOLEAN : staged' = [staged EXCEPT ![j] = left]
      BY <2>42 DEF ClaimFails
    <3>2. SourceKept'
      BY <2>42, <3>1 DEF ClaimFails
    <3>3. CASE pc' = "claimReceipt" /\ cur' = j /\ ready' = ready
      BY <2>42, <3>2, <3>3 DEF ClaimFails
    <3>4. CASE NextItem(j)
      BY <2>42, <3>2, <3>4 DEF ClaimFails, NextItem
    <3> QED
      BY <2>42, <3>3, <3>4 DEF ClaimFails, ClaimEnds
  <2>43. ASSUME Crash PROVE IntakeInv'
    BY <2>43 DEF Crash
  <2>44. ASSUME NEW j \in Jobs, Deliver(j) PROVE IntakeInv'
    BY <2>44 DEF Deliver
  <2>45. ASSUME NEW j \in Jobs, Redeliver(j) PROVE IntakeInv'
    BY <2>45 DEF Redeliver
  <2>46. ASSUME NEW j \in Jobs, EnqueueLocal(j) PROVE IntakeInv'
    BY <2>46 DEF EnqueueLocal
  <2>47. ASSUME NEW j \in Jobs, EditNote(j) PROVE IntakeInv'
    BY <2>47 DEF EditNote
  <2>48. ASSUME NEW j \in Jobs, EditArchive(j) PROVE IntakeInv'
    <3>1. \A k \in Jobs : \A p, q \in ArchivePaths :
            archive'[k][p] = "source" /\ archive'[k][q] = "source" => p = q
      BY <2>48 DEF EditArchive, ArchivePaths
    <3> QED
      BY <2>48, <3>1 DEF EditArchive
  <2>49. CASE UNCHANGED vars
    BY <2>49
  <2> QED
    BY <2>1, <2>2, <2>3, <2>4, <2>5, <2>6, <2>7, <2>8, <2>9, <2>10, <2>11, <2>12, <2>13,
       <2>14, <2>15, <2>16, <2>17, <2>18, <2>19, <2>20, <2>21, <2>22, <2>23, <2>24, <2>25, <2>26,
       <2>27, <2>28, <2>29, <2>30, <2>31, <2>32, <2>33, <2>34, <2>35, <2>36, <2>37, <2>38, <2>39,
       <2>40, <2>41, <2>42, <2>43, <2>44, <2>45, <2>46, <2>47, <2>48, <2>49
    DEF Next, RunnerStep, FaultStep, OutsideStep, RowUpdate
<1> QED
  BY <1>1, <1>2, TypeCorrect, RowsKept, PTL DEF Spec

-----------------------------------------------------------------------------
(* Outputs, receipts and what the cleanup leaves.                           *)

\* What the steps after the writing stage have put on record, in their order.
OutputInv ==
  /\ CompletedIsBacked
  /\ ReceiptIsTrue
  /\ pc \in {"note", "noteRow", "completedReceipt", "complete"} =>
       artifact[cur].source_archive # NoArtifact
  /\ pc \in {"completedReceipt", "complete"} => artifact[cur].recording_note # NoArtifact
  /\ pc = "archiveRow" => artifact[cur].source_archive = NoArtifact
  /\ pc = "noteRow" => artifact[cur].recording_note = NoArtifact
  /\ pc = "complete" /\ cur \notin LocalJobs => receipt[cur] = "completed"

\* Artifacts, receipts and completion keep their order.
LEMMA OutputKept == Spec => []OutputInv
<1>1. Init => OutputInv
  BY DEF Init, OutputInv, CompletedIsBacked, ReceiptIsTrue, Has
<1>2. TypeInv /\ RowInv /\ OutputInv /\ [Next]_vars => OutputInv'
  <2> SUFFICES ASSUME TypeInv, RowInv, OutputInv, [Next]_vars PROVE OutputInv'
    OBVIOUS
  <2> USE DEF TypeInv, TypeOK, RowInv, OutputInv, durable, volatile, vars, Steps, RunSteps, FallibleSteps,
              CleanupSteps, IntakeSteps, ListSteps, CompletedIsBacked, ReceiptIsTrue, Has, ArtifactKind
  <2>1. ASSUME RowUpdate PROVE OutputInv'
    <3>1. /\ Existing' = Existing
          /\ \A k \in Existing : row'[k].status = "completed" =>
               row[k].status = "completed" \/ (pc = "complete" /\ k = cur)
      BY <2>1, UpdatesKeepJobs
    <3>2. UNCHANGED <<artifact, receipt>>
      BY <2>1 DEF RowUpdate, RunStage, RunProcessor, Complete, FailJob, CommitUnseen, CleanWarning,
                 BeginJob, BeginJobFails, RetryJob
    <3>3. pc' \notin {"archiveRow", "note", "noteRow", "completedReceipt", "complete"}
      BY <2>1 DEF RowUpdate, RunStage, RunProcessor, Complete, FailJob, CommitUnseen, CleanWarning,
                 BeginJob, BeginJobFails, RetryJob, Begin, EnterCleanup, LeaveCleanup
    <3> QED
      BY <3>1, <3>2, <3>3 DEF Existing
  <2>2. ASSUME Boot PROVE OutputInv'
    BY <2>2 DEF Boot, Begin, First, CleanupDebts
  <2>3. ASSUME Poll PROVE OutputInv'
    BY <2>3 DEF Poll, Begin, First, CleanupDebts
  <2>4. ASSUME RetryCleanup PROVE OutputInv'
    BY <2>4 DEF RetryCleanup, EnterCleanup, First
  <2>5. ASSUME ScanReady PROVE OutputInv'
    BY <2>5 DEF ScanReady
  <2>6. ASSUME ListRecoverable PROVE OutputInv'
    BY <2>6 DEF ListRecoverable
  <2>7. ASSUME BatchDone PROVE OutputInv'
    BY <2>7 DEF BatchDone
  <2>8. ASSUME NEW j \in Jobs, SkipExisting(j) PROVE OutputInv'
    BY <2>8 DEF SkipExisting, NextItem
  <2>9. ASSUME NEW j \in Jobs, CleanExisting(j) PROVE OutputInv'
    BY <2>9 DEF CleanExisting, EnterCleanup
  <2>10. ASSUME NEW j \in Jobs, Claim(j) PROVE OutputInv'
    BY <2>10 DEF Claim
  <2>11. ASSUME ClaimReceipt PROVE OutputInv'
    BY <2>11 DEF ClaimReceipt, NextItem
  <2>12. ASSUME Provision PROVE OutputInv'
    BY <2>12 DEF Provision
  <2>13. ASSUME RefuseClaim PROVE OutputInv'
    BY <2>13 DEF RefuseClaim
  <2>14. ASSUME InsertClaimed PROVE OutputInv'
    <3>1. /\ row'[cur] = NewJob("source_ready")
          /\ \A k \in Jobs : k # cur => row'[k] = row[k]
      BY <2>14, NewJobType, InsertType DEF InsertClaimed
    <3>2. NewJob("source_ready").status # "completed"
      BY DEF NewJob
    <3>3. CompletedIsBacked'
      BY <2>14, <3>1, <3>2 DEF InsertClaimed
    <3> QED
      BY <2>14, <3>3 DEF InsertClaimed, NextItem
  <2>15. ASSUME RejectStatus PROVE OutputInv'
    BY <2>15 DEF RejectStatus
  <2>16. ASSUME RejectDurable PROVE OutputInv'
    BY <2>16 DEF RejectDurable, NextItem
  <2>17. ASSUME InsertLocal PROVE OutputInv'
    <3>1. /\ row'[cur] = NewJob("queued")
          /\ \A k \in Jobs : k # cur => row'[k] = row[k]
      BY <2>17, NewJobType, InsertType DEF InsertLocal
    <3>2. NewJob("queued").status # "completed"
      BY DEF NewJob
    <3>3. CompletedIsBacked'
      BY <2>17, <3>1, <3>2 DEF InsertLocal
    <3> QED
      BY <2>17, <3>3 DEF InsertLocal, Begin
  <2>18. ASSUME Receipt PROVE OutputInv'
    <3>1. row[cur].status # "completed"
      BY <2>18 DEF Receipt, CopiesFresh, ActiveStatus
    <3> QED
      BY <2>18, <3>1 DEF Receipt
  <2>19. ASSUME RunWriting PROVE OutputInv'
    BY <2>19 DEF RunWriting
  <2>20. ASSUME ArchiveSource PROVE OutputInv'
    BY <2>20 DEF ArchiveSource
  <2>21. ASSUME RecordArchive PROVE OutputInv'
    <3>1. [path |-> path, sha256 |-> "source"] # NoArtifact
      BY <2>21, DistinctConstants DEF RecordArchive, Artifact
    <3>2. /\ artifact'[cur].source_archive # NoArtifact
          /\ \A k \in Jobs, kind \in ArtifactKind :
               artifact[k][kind] # NoArtifact => artifact'[k][kind] # NoArtifact
      BY <2>21, <3>1 DEF RecordArchive
    <3>3. UNCHANGED <<row, receipt, cur>> /\ pc' = "note"
      BY <2>21 DEF RecordArchive
    <3> QED
      BY <3>2, <3>3
  <2>22. ASSUME KeepArchive PROVE OutputInv'
    BY <2>22 DEF KeepArchive
  <2>23. ASSUME WriteNote PROVE OutputInv'
    BY <2>23 DEF WriteNote
  <2>24. ASSUME RecordNote PROVE OutputInv'
    <3>1. [path |-> path, sha256 |-> processed] # NoArtifact
      BY <2>24, DistinctConstants DEF RecordNote, Artifact, WritingSteps
    <3>2. /\ artifact'[cur].recording_note # NoArtifact
          /\ \A k \in Jobs, kind \in ArtifactKind :
               artifact[k][kind] # NoArtifact => artifact'[k][kind] # NoArtifact
      BY <2>24, <3>1 DEF RecordNote
    <3>3. UNCHANGED <<row, receipt, cur>> /\ pc = "noteRow" /\ pc' = "completedReceipt"
      BY <2>24 DEF RecordNote
    <3> QED
      BY <3>2, <3>3
  <2>25. ASSUME KeepNote PROVE OutputInv'
    BY <2>25 DEF KeepNote
  <2>26. ASSUME StopOnConflict PROVE OutputInv'
    <3>1. pc \in {"archive", "archiveRow", "note"}
      BY <2>26 DEF StopOnConflict, VaultConflict
    <3> QED
      BY <2>26, <3>1 DEF StopOnConflict
  <2>27. ASSUME CompletedReceipt PROVE OutputInv'
    BY <2>27 DEF CompletedReceipt
  <2>28. ASSUME Finalized PROVE OutputInv'
    BY <2>28 DEF Finalized, EndRun
  <2>29. ASSUME FailUnrecorded PROVE OutputInv'
    BY <2>29 DEF FailUnrecorded, EndRun
  <2>30. ASSUME FailReceipt PROVE OutputInv'
    <3>1. row[cur].status # "completed"
      BY <2>30 DEF FailReceipt, CopiesFresh, FailureStatus
    <3>2. receipt' \in {receipt, [receipt EXCEPT ![cur] = "failed"]} /\ UNCHANGED <<row, artifact>>
      BY <2>30 DEF FailReceipt
    <3>3. pc' = "batch"
      BY <2>30 DEF FailReceipt, EndRun
    <3> QED
      BY <3>1, <3>2, <3>3
  <2>31. ASSUME CleanStaging PROVE OutputInv'
    BY <2>31 DEF CleanStaging
  <2>32. ASSUME CleanQueue PROVE OutputInv'
    BY <2>32 DEF CleanQueue
  <2>33. ASSUME ScanFails PROVE OutputInv'
    BY <2>33 DEF ScanFails
  <2>34. ASSUME ReceiptFails PROVE OutputInv'
    BY <2>34 DEF ReceiptFails, NextItem
  <2>35. ASSUME ProvisionFails PROVE OutputInv'
    BY <2>35 DEF ProvisionFails
  <2>36. ASSUME AdmitFails PROVE OutputInv'
    BY <2>36 DEF AdmitFails, NextItem
  <2>37. ASSUME InsertLocalFails PROVE OutputInv'
    BY <2>37 DEF InsertLocalFails
  <2>38. ASSUME StepFails PROVE OutputInv'
    BY <2>38 DEF StepFails
  <2>39. ASSUME CleanWarningFails PROVE OutputInv'
    BY <2>39 DEF CleanWarningFails, LeaveCleanup
  <2>40. ASSUME NEW j \in Jobs, CleanExistingFails(j) PROVE OutputInv'
    BY <2>40 DEF CleanExistingFails, NextItem
  <2>41. ASSUME NEW j \in Jobs, ClaimRejects(j) PROVE OutputInv'
    BY <2>41 DEF ClaimRejects, ClaimEnds, NextItem
  <2>42. ASSUME NEW j \in Jobs, ClaimFails(j) PROVE OutputInv'
    BY <2>42 DEF ClaimFails, ClaimEnds, NextItem
  <2>43. ASSUME Crash PROVE OutputInv'
    BY <2>43 DEF Crash
  <2>44. ASSUME NEW j \in Jobs, Deliver(j) PROVE OutputInv'
    BY <2>44 DEF Deliver
  <2>45. ASSUME NEW j \in Jobs, Redeliver(j) PROVE OutputInv'
    BY <2>45 DEF Redeliver
  <2>46. ASSUME NEW j \in Jobs, EnqueueLocal(j) PROVE OutputInv'
    BY <2>46 DEF EnqueueLocal
  <2>47. ASSUME NEW j \in Jobs, EditNote(j) PROVE OutputInv'
    BY <2>47 DEF EditNote
  <2>48. ASSUME NEW j \in Jobs, EditArchive(j) PROVE OutputInv'
    BY <2>48 DEF EditArchive
  <2>49. CASE UNCHANGED vars
    BY <2>49
  <2> QED
    BY <2>1, <2>2, <2>3, <2>4, <2>5, <2>6, <2>7, <2>8, <2>9, <2>10, <2>11, <2>12, <2>13,
       <2>14, <2>15, <2>16, <2>17, <2>18, <2>19, <2>20, <2>21, <2>22, <2>23, <2>24, <2>25, <2>26,
       <2>27, <2>28, <2>29, <2>30, <2>31, <2>32, <2>33, <2>34, <2>35, <2>36, <2>37, <2>38, <2>39,
       <2>40, <2>41, <2>42, <2>43, <2>44, <2>45, <2>46, <2>47, <2>48, <2>49
    DEF Next, RunnerStep, FaultStep, OutsideStep, RowUpdate
<1> QED
  BY <1>1, <1>2, TypeCorrect, RowsKept, PTL DEF Spec


\* What the cleanup has left so far is what it is going to write down.
DebtInv ==
  /\ NothingLeftSilently
  /\ pc \in {"cleanQueue", "cleanWarning"} /\ cur \in SingletonJobs /\ "staging" \notin stuck => ~staged[cur]
  /\ pc = "cleanWarning" /\ "queue" \notin stuck => inbox[cur] # "present"

\* A cleanup never claims more than it did.
LEMMA DebtKept == Spec => []DebtInv
<1>1. Init => DebtInv
  BY DEF Init, DebtInv, NothingLeftSilently, Has
<1>2. TypeInv /\ RowInv /\ IntakeInv /\ DebtInv /\ [Next]_vars => DebtInv'
  <2> SUFFICES ASSUME TypeInv, RowInv, IntakeInv, DebtInv, [Next]_vars PROVE DebtInv'
    OBVIOUS
  <2> USE DEF TypeInv, TypeOK, RowInv, IntakeInv, DebtInv, durable, volatile, vars, Steps, RunSteps,
              FallibleSteps, CleanupSteps, IntakeSteps, ListSteps, NothingLeftSilently, Has, Existing
  <2>1. ASSUME RowUpdate PROVE DebtInv'
    <3>1. /\ Existing' = Existing
          /\ \A k \in Existing :
               row'[k] # row[k] /\ row'[k].status = "completed" =>
                 \/ row'[k].warning = "CLEANUP_PENDING"
                 \/ /\ pc = "cleanWarning" /\ k = cur
                    /\ row'[k] = [row[k] EXCEPT !.warning = WarningOf(stuck)]
      BY <2>1, UpdatesKeepJobs
    <3>2. UNCHANGED <<inbox, staged>> /\ pc' \notin {"cleanQueue", "cleanWarning"}
      BY <2>1 DEF RowUpdate, RunStage, RunProcessor, Complete, FailJob, CommitUnseen, CleanWarning,
                 BeginJob, BeginJobFails, RetryJob, Begin, EnterCleanup, LeaveCleanup
    <3>3. ASSUME NEW k \in Existing, row'[k].status = "completed", row'[k].warning = "null"
          PROVE  inbox[k] # "present" /\ (k \in SingletonJobs => ~staged[k])
      <4>1. CASE row'[k] = row[k]
        BY <3>3, <4>1
      <4>2. CASE row'[k] # row[k]
        <5>1. /\ pc = "cleanWarning" /\ k = cur
              /\ row'[k] = [row[k] EXCEPT !.warning = WarningOf(stuck)]
          BY <3>1, <3>3, <4>2
        <5>2. row[k] \in JobRecord
          BY <5>1
        <5>3. WarningOf(stuck) = "null"
          BY <5>1, <5>2, <3>3 DEF JobRecord
        <5>4. stuck = {}
          BY <5>3 DEF WarningOf
        <5> QED
          BY <5>1, <5>4
      <4> QED
        BY <4>1, <4>2
    <3> QED
      BY <3>1, <3>2, <3>3
  <2>2. ASSUME Boot PROVE DebtInv'
    BY <2>2 DEF Boot, Begin, First, CleanupDebts
  <2>3. ASSUME Poll PROVE DebtInv'
    BY <2>3 DEF Poll, Begin, First, CleanupDebts
  <2>4. ASSUME RetryCleanup PROVE DebtInv'
    BY <2>4 DEF RetryCleanup, EnterCleanup, First
  <2>5. ASSUME ScanReady PROVE DebtInv'
    BY <2>5 DEF ScanReady
  <2>6. ASSUME ListRecoverable PROVE DebtInv'
    BY <2>6 DEF ListRecoverable
  <2>7. ASSUME BatchDone PROVE DebtInv'
    BY <2>7 DEF BatchDone
  <2>8. ASSUME NEW j \in Jobs, SkipExisting(j) PROVE DebtInv'
    BY <2>8 DEF SkipExisting, NextItem
  <2>9. ASSUME NEW j \in Jobs, CleanExisting(j) PROVE DebtInv'
    BY <2>9 DEF CleanExisting, EnterCleanup
  <2>10. ASSUME NEW j \in Jobs, Claim(j) PROVE DebtInv'
    BY <2>10 DEF Claim
  <2>11. ASSUME ClaimReceipt PROVE DebtInv'
    BY <2>11 DEF ClaimReceipt, NextItem
  <2>12. ASSUME Provision PROVE DebtInv'
    BY <2>12 DEF Provision
  <2>13. ASSUME RefuseClaim PROVE DebtInv'
    BY <2>13 DEF RefuseClaim
  <2>14. ASSUME InsertClaimed PROVE DebtInv'
    <3>1. /\ row'[cur] = NewJob("source_ready")
          /\ \A k \in Jobs : k # cur => row'[k] = row[k]
      BY <2>14, NewJobType, InsertType DEF InsertClaimed
    <3>2. NewJob("source_ready").status # "completed"
      BY DEF NewJob
    <3>3. NothingLeftSilently'
      BY <2>14, <3>1, <3>2 DEF InsertClaimed
    <3> QED
      BY <2>14, <3>3 DEF InsertClaimed, NextItem
  <2>15. ASSUME RejectStatus PROVE DebtInv'
    BY <2>15 DEF RejectStatus
  <2>16. ASSUME RejectDurable PROVE DebtInv'
    BY <2>16 DEF RejectDurable, NextItem
  <2>17. ASSUME InsertLocal PROVE DebtInv'
    <3>1. /\ row'[cur] = NewJob("queued")
          /\ \A k \in Jobs : k # cur => row'[k] = row[k]
      BY <2>17, NewJobType, InsertType DEF InsertLocal
    <3>2. NewJob("queued").status # "completed"
      BY DEF NewJob
    <3>3. NothingLeftSilently'
      BY <2>17, <3>1, <3>2 DEF InsertLocal
    <3> QED
      BY <2>17, <3>3 DEF InsertLocal, Begin
  <2>18. ASSUME Receipt PROVE DebtInv'
    BY <2>18 DEF Receipt
  <2>19. ASSUME RunWriting PROVE DebtInv'
    BY <2>19 DEF RunWriting
  <2>20. ASSUME ArchiveSource PROVE DebtInv'
    BY <2>20 DEF ArchiveSource
  <2>21. ASSUME RecordArchive PROVE DebtInv'
    BY <2>21 DEF RecordArchive
  <2>22. ASSUME KeepArchive PROVE DebtInv'
    BY <2>22 DEF KeepArchive
  <2>23. ASSUME WriteNote PROVE DebtInv'
    BY <2>23 DEF WriteNote
  <2>24. ASSUME RecordNote PROVE DebtInv'
    BY <2>24 DEF RecordNote
  <2>25. ASSUME KeepNote PROVE DebtInv'
    BY <2>25 DEF KeepNote
  <2>26. ASSUME StopOnConflict PROVE DebtInv'
    <3>1. pc \in {"archive", "archiveRow", "note"}
      BY <2>26 DEF StopOnConflict, VaultConflict
    <3> QED
      BY <2>26, <3>1 DEF StopOnConflict
  <2>27. ASSUME CompletedReceipt PROVE DebtInv'
    BY <2>27 DEF CompletedReceipt
  <2>28. ASSUME Finalized PROVE DebtInv'
    BY <2>28 DEF Finalized, EndRun
  <2>29. ASSUME FailUnrecorded PROVE DebtInv'
    BY <2>29 DEF FailUnrecorded, EndRun
  <2>30. ASSUME FailReceipt PROVE DebtInv'
    BY <2>30 DEF FailReceipt, EndRun
  <2>31. ASSUME CleanStaging PROVE DebtInv'
    <3>1. /\ \A k \in Jobs : ~staged[k] => ~staged'[k]
          /\ UNCHANGED <<row, inbox, cur>> /\ pc' = "cleanQueue"
      BY <2>31 DEF CleanStaging
    <3>2. cur \in SingletonJobs /\ "staging" \notin stuck' => ~staged'[cur]
      BY <2>31 DEF CleanStaging
    <3> QED
      BY <3>1, <3>2
  <2>32. ASSUME CleanQueue PROVE DebtInv'
    BY <2>32 DEF CleanQueue
  <2>33. ASSUME ScanFails PROVE DebtInv'
    BY <2>33 DEF ScanFails
  <2>34. ASSUME ReceiptFails PROVE DebtInv'
    BY <2>34 DEF ReceiptFails, NextItem
  <2>35. ASSUME ProvisionFails PROVE DebtInv'
    <3>1. /\ \A k \in Jobs : ~staged[k] => ~staged'[k]
          /\ UNCHANGED <<row, inbox>> /\ pc' \notin CleanupSteps
      BY <2>35 DEF ProvisionFails
    <3> QED
      BY <3>1
  <2>36. ASSUME AdmitFails PROVE DebtInv'
    BY <2>36 DEF AdmitFails, NextItem
  <2>37. ASSUME InsertLocalFails PROVE DebtInv'
    BY <2>37 DEF InsertLocalFails
  <2>38. ASSUME StepFails PROVE DebtInv'
    BY <2>38 DEF StepFails
  <2>39. ASSUME CleanWarningFails PROVE DebtInv'
    BY <2>39 DEF CleanWarningFails, LeaveCleanup
  <2>40. ASSUME NEW j \in Jobs, CleanExistingFails(j) PROVE DebtInv'
    BY <2>40 DEF CleanExistingFails, NextItem
  <2>41. ASSUME NEW j \in Jobs, ClaimRejects(j) PROVE DebtInv'
    <3>1. PICK left \in {FALSE, TRUE, staged[j]} : staged' = [staged EXCEPT ![j] = left]
      BY <2>41 DEF ClaimRejects
    <3>2. NothingLeftSilently'
      BY <2>41, <3>1 DEF ClaimRejects
    <3>3. pc' \notin CleanupSteps
      BY <2>41 DEF ClaimRejects, ClaimEnds, NextItem
    <3> QED
      BY <2>41, <3>2, <3>3
  <2>42. ASSUME NEW j \in Jobs, ClaimFails(j) PROVE DebtInv'
    <3>1. PICK left \in {FALSE, TRUE, staged[j]} : staged' = [staged EXCEPT ![j] = left]
      BY <2>42 DEF ClaimFails
    <3>2. NothingLeftSilently'
      BY <2>42, <3>1 DEF ClaimFails
    <3>3. pc' \notin CleanupSteps
      BY <2>42 DEF ClaimFails, ClaimEnds, NextItem
    <3> QED
      BY <2>42, <3>2, <3>3
  <2>43. ASSUME Crash PROVE DebtInv'
    BY <2>43 DEF Crash
  <2>44. ASSUME NEW j \in Jobs, Deliver(j) PROVE DebtInv'
    BY <2>44 DEF Deliver
  <2>45. ASSUME NEW j \in Jobs, Redeliver(j) PROVE DebtInv'
    BY <2>45 DEF Redeliver
  <2>46. ASSUME NEW j \in Jobs, EnqueueLocal(j) PROVE DebtInv'
    BY <2>46 DEF EnqueueLocal
  <2>47. ASSUME NEW j \in Jobs, EditNote(j) PROVE DebtInv'
    BY <2>47 DEF EditNote
  <2>48. ASSUME NEW j \in Jobs, EditArchive(j) PROVE DebtInv'
    BY <2>48 DEF EditArchive
  <2>49. CASE UNCHANGED vars
    BY <2>49
  <2> QED
    BY <2>1, <2>2, <2>3, <2>4, <2>5, <2>6, <2>7, <2>8, <2>9, <2>10, <2>11, <2>12, <2>13,
       <2>14, <2>15, <2>16, <2>17, <2>18, <2>19, <2>20, <2>21, <2>22, <2>23, <2>24, <2>25, <2>26,
       <2>27, <2>28, <2>29, <2>30, <2>31, <2>32, <2>33, <2>34, <2>35, <2>36, <2>37, <2>38, <2>39,
       <2>40, <2>41, <2>42, <2>43, <2>44, <2>45, <2>46, <2>47, <2>48, <2>49
    DEF Next, RunnerStep, FaultStep, OutsideStep, RowUpdate
<1> QED
  BY <1>1, <1>2, TypeCorrect, RowsKept, IntakeKept, PTL DEF Spec

-----------------------------------------------------------------------------
\* Every row can be read back, whatever fails and however often.
THEOREM RowsStayReadable == Spec => []RowsReadable
<1>1. RowInv => RowsReadable
  BY DEF RowInv, RowsReadable, Sound
<1> QED
  BY <1>1, RowsKept, PTL

\* No alternation of failures, crashes and resolutions exceeds the retry limit.
THEOREM RetriesStayBounded == Spec => []RetriesBounded
<1>1. RowInv => RetriesBounded
  BY DEF RowInv, RetriesBounded, Sound
<1> QED
  BY <1>1, RowsKept, PTL

\* The runner never works from a copy of a row that has been overtaken.
THEOREM CopiesStayFresh == Spec => []CopiesFresh
<1>1. RowInv => CopiesFresh
  BY DEF RowInv
<1> QED
  BY <1>1, RowsKept, PTL

\* A source is only given up after its job is completed, and the vault never holds a
\* second copy of it (sourceArchiver.ts:61-95).
THEOREM SourcesAreKept == Spec => []SourceKept
<1>1. IntakeInv => SourceKept
  BY DEF IntakeInv
<1> QED
  BY <1>1, IntakeKept, PTL

\* The same sources never make two jobs, whatever lane they come from.
THEOREM SourcesMakeOneJob == Spec => []OneJobPerSource
<1>1. IntakeInv => OneJobPerSource
  BY DEF IntakeInv
<1> QED
  BY <1>1, IntakeKept, PTL

\* A rejection is final.
THEOREM RejectionsAreFinal == Spec => []RejectedHasNoJob
<1>1. IntakeInv => RejectedHasNoJob
  BY DEF IntakeInv
<1> QED
  BY <1>1, IntakeKept, PTL

\* Completion is never claimed of a job without its outputs, nor taken back.
THEOREM CompletionsAreBacked == Spec => []CompletedIsBacked
<1>1. OutputInv => CompletedIsBacked
  BY DEF OutputInv
<1> QED
  BY <1>1, OutputKept, PTL

\* The phone never reads "completed" of a job without its outputs.
THEOREM ReceiptsAreTrue == Spec => []ReceiptIsTrue
<1>1. OutputInv => ReceiptIsTrue
  BY DEF OutputInv
<1> QED
  BY <1>1, OutputKept, PTL

\* What a cleanup could not remove is on record.
THEOREM DebtsAreRecorded == Spec => []NothingLeftSilently
<1>1. DebtInv => NothingLeftSilently
  BY DEF DebtInv
<1> QED
  BY <1>1, DebtKept, PTL

-----------------------------------------------------------------------------
(* The runner implements JobPromise.                                       *)

\* The outcome of a submission in the terms of JobPromise.
PhaseOf ==
  [j \in Jobs |->
     IF rejected[j] THEN "refused"
     ELSE IF row[j] = NoRow THEN "submitted"
     ELSE IF row[j].status = "completed" THEN "completed"
     ELSE IF row[j].status = "needs_attention" THEN "attention"
     ELSE "pending"]

RecordedOf == [j \in Jobs |-> {kind \in ArtifactKind : artifact[j][kind] # NoArtifact}]

\* The steps after which every submission has the outcome it had.
QuietStep ==
  \/ Boot \/ Poll \/ RetryCleanup \/ ScanReady \/ ListRecoverable \/ BatchDone
  \/ ClaimReceipt \/ Provision \/ RefuseClaim \/ RejectStatus \/ Receipt \/ RunWriting
  \/ ArchiveSource \/ KeepArchive \/ WriteNote \/ KeepNote \/ StopOnConflict \/ CompletedReceipt
  \/ Finalized \/ FailUnrecorded \/ FailReceipt \/ CleanStaging \/ CleanQueue \/ ScanFails
  \/ ReceiptFails \/ ProvisionFails \/ AdmitFails \/ InsertLocalFails \/ StepFails \/ CleanWarningFails
  \/ Crash
  \/ \E j \in Jobs : \/ SkipExisting(j) \/ CleanExisting(j) \/ CleanExistingFails(j)
                     \/ Claim(j) \/ ClaimFails(j) \/ EnqueueLocal(j)
                     \/ Deliver(j) \/ Redeliver(j) \/ EditNote(j) \/ EditArchive(j)
  \/ UNCHANGED vars

LEMMA QuietKeeps ==
  ASSUME QuietStep
  PROVE  UNCHANGED <<row, rejected, artifact>>
BY DEF QuietStep, vars, durable, Boot, Poll, RetryCleanup, ScanReady, ListRecoverable, BatchDone, SkipExisting, CleanExisting, Claim,
       ClaimReceipt, Provision, RefuseClaim, RejectStatus, Receipt, RunWriting, ArchiveSource, KeepArchive,
       WriteNote, KeepNote, StopOnConflict, CompletedReceipt, Finalized, FailUnrecorded, FailReceipt,
       CleanStaging, CleanQueue, ScanFails, ReceiptFails, ProvisionFails, AdmitFails, InsertLocalFails,
       StepFails, CleanWarningFails, CleanExistingFails, ClaimFails, Crash, Deliver, Redeliver,
       EnqueueLocal, EditNote, EditArchive

LEMMA QuietOrNot ==
  ASSUME Next
  PROVE  \/ QuietStep \/ RowUpdate
         \/ InsertClaimed \/ InsertLocal \/ RecordArchive \/ RecordNote \/ RejectDurable
         \/ \E j \in Jobs : ClaimRejects(j)
BY DEF Next, RunnerStep, FaultStep, OutsideStep, QuietStep, RowUpdate

\* One submission's outcome moves along an edge of the promise.
LEMMA OneMoves ==
  ASSUME NEW j \in Jobs,
         \A k \in Jobs : k # j => row'[k] = row[k] /\ rejected'[k] = rejected[k],
         UNCHANGED artifact,
         \/ PhaseOf'[j] = PhaseOf[j]
         \/ PhaseOf[j] = "submitted" /\ PhaseOf'[j] \in {"refused", "pending"}
         \/ PhaseOf[j] \in {"pending", "attention"} /\ PhaseOf'[j] \in {"pending", "attention"}
         \/ PhaseOf[j] = "pending" /\ PhaseOf'[j] = "completed" /\ RecordedOf[j] = ArtifactKind
  PROVE  [Promise!Next]_(Promise!vars)
<1>1. RecordedOf' = RecordedOf
  BY DEF RecordedOf
<1>2. PhaseOf' = [PhaseOf EXCEPT ![j] = PhaseOf'[j]]
  BY DEF PhaseOf
<1>3. PhaseOf \in [Jobs -> {"refused", "submitted", "completed", "attention", "pending"}]
  BY DEF PhaseOf
<1> DEFINE to == PhaseOf'[j]
<1>4. CASE to = PhaseOf[j]
  <2>1. PhaseOf' = PhaseOf
    BY <1>2, <1>3, <1>4
  <2> QED
    BY <1>1, <2>1 DEF Promise!vars, PhaseOf, RecordedOf
<1>5. ASSUME NEW p \in {"refused", "pending", "attention", "completed"}, to = p
      PROVE  PhaseOf' = [PhaseOf EXCEPT ![j] = p]
  BY <1>2, <1>5
<1>6. CASE PhaseOf[j] = "submitted" /\ to = "refused"
  <2>1. PhaseOf' = [PhaseOf EXCEPT ![j] = "refused"]
    BY <1>5, <1>6
  <2>2. Promise!Refuse(j)
    BY <1>1, <1>6, <2>1 DEF Promise!Refuse, PhaseOf, RecordedOf
  <2> QED
    BY <2>2 DEF Promise!Next
<1>7. CASE PhaseOf[j] = "submitted" /\ to = "pending"
  <2>1. PhaseOf' = [PhaseOf EXCEPT ![j] = "pending"]
    BY <1>5, <1>7
  <2>2. Promise!Accept(j)
    BY <1>1, <1>7, <2>1 DEF Promise!Accept, PhaseOf, RecordedOf
  <2> QED
    BY <2>2 DEF Promise!Next
<1>8. CASE PhaseOf[j] = "pending" /\ to = "attention"
  <2>1. PhaseOf' = [PhaseOf EXCEPT ![j] = "attention"]
    BY <1>5, <1>8
  <2>2. Promise!NeedAttention(j)
    BY <1>1, <1>8, <2>1 DEF Promise!NeedAttention, PhaseOf, RecordedOf
  <2> QED
    BY <2>2 DEF Promise!Next
<1>9. CASE PhaseOf[j] = "attention" /\ to = "pending"
  <2>1. PhaseOf' = [PhaseOf EXCEPT ![j] = "pending"]
    BY <1>5, <1>9
  <2>2. Promise!Resolve(j)
    BY <1>1, <1>9, <2>1 DEF Promise!Resolve, PhaseOf, RecordedOf
  <2> QED
    BY <2>2 DEF Promise!Next
<1>10. CASE PhaseOf[j] = "pending" /\ to = "completed" /\ RecordedOf[j] = ArtifactKind
  <2>1. PhaseOf' = [PhaseOf EXCEPT ![j] = "completed"]
    BY <1>5, <1>10
  <2>2. Promise!Complete(j)
    BY <1>1, <1>10, <2>1 DEF Promise!Complete, PhaseOf, RecordedOf
  <2> QED
    BY <2>2 DEF Promise!Next
<1> QED
  BY <1>4, <1>6, <1>7, <1>8, <1>9, <1>10

\* One output of a pending job is put on record.
LEMMA OneRecorded ==
  ASSUME NEW kind \in ArtifactKind, NEW new \in Artifact, NEW j \in Jobs,
         artifact \in [Jobs -> [ArtifactKind -> Artifact \cup {NoArtifact}]],
         UNCHANGED <<row, rejected>>,
         artifact' = [artifact EXCEPT ![j][kind] = new],
         artifact[j][kind] = NoArtifact,
         PhaseOf[j] = "pending"
  PROVE  [Promise!Next]_(Promise!vars)
<1>1. PhaseOf' = PhaseOf
  BY DEF PhaseOf
<1>2. new # NoArtifact
  BY DistinctConstants
<1>3. \A k \in Jobs, kd \in ArtifactKind :
        artifact'[k][kd] = IF k = j /\ kd = kind THEN new ELSE artifact[k][kd]
  OBVIOUS
<1>4. kind \notin RecordedOf[j]
  BY DEF RecordedOf
<1>5. \A k \in Jobs : RecordedOf'[k] = IF k = j THEN RecordedOf[k] \cup {kind} ELSE RecordedOf[k]
  BY <1>2, <1>3 DEF RecordedOf
<1>6. RecordedOf' = [RecordedOf EXCEPT ![j] = @ \cup {kind}]
  BY <1>5 DEF RecordedOf
<1>7. Promise!Record(j, kind)
  BY <1>1, <1>4, <1>6 DEF Promise!Record, PhaseOf, RecordedOf
<1> QED
  BY <1>7 DEF Promise!Next

\* Every step of the runner is a step of the promise or changes no outcome.
THEOREM RunnerKeepsPromise == Spec => KeepsPromise
<1>1. Init => Promise!Init
  BY DEF Init, Promise!Init
<1>2. TypeInv /\ RowInv /\ IntakeInv /\ OutputInv /\ [Next]_vars => [Promise!Next]_(Promise!vars)
  <2> SUFFICES ASSUME TypeInv, RowInv, IntakeInv, OutputInv, [Next]_vars
               PROVE  [Promise!Next]_(Promise!vars)
    OBVIOUS
  <2> USE DEF TypeInv, TypeOK, RowInv, IntakeInv, OutputInv, Existing, RunSteps, FallibleSteps, IntakeSteps,
              RejectedHasNoJob
  <2>1. CASE QuietStep
    BY <2>1, QuietKeeps DEF Promise!vars
  <2>2. CASE RowUpdate
    <3>1. PICK j \in Existing : \A k \in Jobs : k # j => row'[k] = row[k]
      BY <2>2, UpdatesKeepJobs
    <3>2. UNCHANGED <<rejected, artifact>>
      BY <2>2 DEF RowUpdate, RunStage, RunProcessor, Complete, FailJob, CommitUnseen, CleanWarning,
                  BeginJob, BeginJobFails, RetryJob
    <3>3. row'[j] # NoRow /\ row[j] # NoRow /\ ~rejected[j]
      BY <2>2, UpdatesKeepJobs
    <3>4. \/ row'[j] = row[j]
          \/ row[j].status # "completed" /\ row'[j].status # "completed"
          \/ row[j].status = "completed" /\ row'[j].status = "completed"
          \/ /\ pc = "complete" /\ j = cur /\ row[j].status = "writing"
             /\ row'[j].status = "completed"
      BY <2>2, UpdatesKeepJobs
    <3>5. pc = "complete" => RecordedOf[cur] = ArtifactKind
      BY DEF RecordedOf, ArtifactKind
    <3>6. \/ PhaseOf'[j] = PhaseOf[j]
          \/ PhaseOf[j] \in {"pending", "attention"} /\ PhaseOf'[j] \in {"pending", "attention"}
          \/ PhaseOf[j] = "pending" /\ PhaseOf'[j] = "completed" /\ RecordedOf[j] = ArtifactKind
      BY <3>2, <3>3, <3>4, <3>5 DEF PhaseOf
    <3> QED
      BY <3>1, <3>2, <3>6, OneMoves
  <2>3. CASE InsertClaimed
    <3>1. /\ row'[cur] = NewJob("source_ready")
          /\ \A k \in Jobs : k # cur => row'[k] = row[k]
      BY <2>3, NewJobType, InsertType DEF InsertClaimed
    <3>2. cur \in Jobs /\ row[cur] = NoRow /\ ~rejected[cur] /\ UNCHANGED <<rejected, artifact>>
      BY <2>3 DEF InsertClaimed
    <3>3. PhaseOf[cur] = "submitted" /\ PhaseOf'[cur] = "pending"
      BY <3>1, <3>2, NewJobType, DistinctConstants DEF PhaseOf, NewJob
    <3> QED
      BY <3>1, <3>2, <3>3, OneMoves
  <2>4. CASE InsertLocal
    <3>1. /\ row'[cur] = NewJob("queued")
          /\ \A k \in Jobs : k # cur => row'[k] = row[k]
      BY <2>4, NewJobType, InsertType DEF InsertLocal
    <3>2. cur \in Jobs /\ row[cur] = NoRow /\ ~rejected[cur] /\ UNCHANGED <<rejected, artifact>>
      BY <2>4 DEF InsertLocal
    <3>3. PhaseOf[cur] = "submitted" /\ PhaseOf'[cur] = "pending"
      BY <3>1, <3>2, NewJobType, DistinctConstants DEF PhaseOf, NewJob
    <3> QED
      BY <3>1, <3>2, <3>3, OneMoves
  <2>5. CASE RecordArchive
    <3>1. [path |-> path, sha256 |-> "source"] \in Artifact
      BY <2>5 DEF RecordArchive, Artifact
    <3>2. /\ cur \in Jobs /\ UNCHANGED <<row, rejected>>
          /\ artifact[cur]["source_archive"] = NoArtifact
          /\ artifact' = [artifact EXCEPT ![cur]["source_archive"] = [path |-> path, sha256 |-> "source"]]
      BY <2>5 DEF RecordArchive
    <3>3. PhaseOf[cur] = "pending"
      BY <2>5, DistinctConstants DEF RecordArchive, PhaseOf, CopiesFresh, WritingSteps
    <3> QED
      BY <3>1, <3>2, <3>3, OneRecorded DEF ArtifactKind
  <2>6. CASE RecordNote
    <3>1. [path |-> path, sha256 |-> processed] \in Artifact
      BY <2>6 DEF RecordNote, Artifact, WritingSteps
    <3>2. /\ cur \in Jobs /\ UNCHANGED <<row, rejected>>
          /\ artifact[cur]["recording_note"] = NoArtifact
          /\ artifact' = [artifact EXCEPT ![cur]["recording_note"] = [path |-> path, sha256 |-> processed]]
      BY <2>6 DEF RecordNote
    <3>3. PhaseOf[cur] = "pending"
      BY <2>6, DistinctConstants DEF RecordNote, PhaseOf, CopiesFresh, WritingSteps
    <3> QED
      BY <3>1, <3>2, <3>3, OneRecorded DEF ArtifactKind
  <2>7. CASE RejectDurable
    <3>1. /\ cur \in Jobs /\ row[cur] = NoRow /\ ~rejected[cur] /\ UNCHANGED <<row, artifact>>
          /\ rejected' = [rejected EXCEPT ![cur] = TRUE]
      BY <2>7 DEF RejectDurable
    <3>2. PhaseOf[cur] = "submitted" /\ PhaseOf'[cur] = "refused"
      BY <3>1 DEF PhaseOf
    <3> QED
      BY <3>1, <3>2, OneMoves
  <2>8. ASSUME NEW j \in Jobs, ClaimRejects(j) PROVE [Promise!Next]_(Promise!vars)
    <3>1. /\ row[j] = NoRow /\ ~rejected[j] /\ UNCHANGED <<row, artifact>>
          /\ rejected' = [rejected EXCEPT ![j] = TRUE]
      BY <2>8 DEF ClaimRejects
    <3>2. PhaseOf[j] = "submitted" /\ PhaseOf'[j] = "refused"
      BY <3>1 DEF PhaseOf
    <3> QED
      BY <3>1, <3>2, OneMoves
  <2> QED
    BY <2>1, <2>2, <2>3, <2>4, <2>5, <2>6, <2>7, <2>8, QuietOrNot DEF QuietStep
<1> QED
  BY <1>1, <1>2, TypeCorrect, RowsKept, IntakeKept, OutputKept, PTL DEF Spec, KeepsPromise, Promise!Spec

-----------------------------------------------------------------------------
(* What a step may never do.                                               *)

\* What an update may make of a row.
Edge(job, new) ==
  \/ CanAdvance(job) /\ job.status # "writing" /\ new = Advance(job)
  \/ job.status = "writing" /\ new = Completed(job)
  \/ CanFail(job) /\ \E why \in Failure : new = Fail(job, why)
  \/ job.status \notin {"completed", "needs_attention"} /\ new = PrepareRecovery(job)
  \/ job.status = "needs_attention" /\ new = Resolve(job)
  \/ job.status = "completed" /\ \E w \in CleanupWarning : new = [job EXCEPT !.warning = w]

\* Every update is an edge from the row that is in the table: nothing is written
\* from a copy that has been overtaken.
LEMMA UpdatesAreEdges ==
  ASSUME TypeInv, RowInv, RowUpdate
  PROVE  \/ UNCHANGED row
         \/ \E j \in Existing : /\ Edge(row[j], row'[j])
                                /\ \A k \in Jobs : k # j => row'[k] = row[k]
<1> USE DEF TypeInv, TypeOK, RowInv, CopiesFresh, FallibleSteps, RunSteps, CleanupSteps
<1>1. ASSUME NEW j \in Existing, NEW new \in JobRecord, Replace(j, new), Edge(row[j], new)
      PROVE  \E i \in Existing : /\ Edge(row[i], row'[i])
                                 /\ \A k \in Jobs : k # i => row'[k] = row[k]
  <2>1. j \in Jobs
    BY DEF Existing
  <2>2. row'[j] = new /\ \A k \in Jobs : k # j => row'[k] = row[k]
    BY <1>1, <2>1, ReplaceType
  <2> QED
    BY <1>1, <2>2
<1>2. CASE RunStage \/ RunProcessor
  <2>1. /\ cur \in Existing /\ row[cur] = mem /\ mem \in JobRecord
        /\ CanAdvance(mem) /\ mem.status # "writing"
    BY <1>2, DistinctConstants
    DEF RunStage, RunProcessor, Transition, RowIs, CanAdvance, ActiveStatus, Existing
  <2>2. Advance(mem) \in JobRecord
    BY <2>1, EdgesKeepType DEF CanAdvance
  <2>3. Replace(cur, Advance(mem))
    BY <1>2 DEF RunStage, RunProcessor, Transition
  <2> QED
    BY <1>1, <2>1, <2>2, <2>3 DEF Edge
<1>3. CASE Complete \/ CommitUnseen
  <2>1. /\ cur \in Existing /\ row[cur] = mem /\ mem \in JobRecord /\ CanAdvance(mem)
        /\ pc = "complete" <=> mem.status = "writing"
    BY <1>3, DistinctConstants
    DEF Complete, CommitUnseen, RowIs, ActiveStatus, Existing, WritingSteps, CanAdvance
  <2>2. CASE pc = "complete"
    BY <1>1, <1>3, <2>1, <2>2, CompletedType DEF Complete, CommitUnseen, Edge
  <2>3. CASE pc # "complete"
    BY <1>1, <1>3, <2>1, <2>3, EdgesKeepType DEF Complete, CommitUnseen, Edge, CanAdvance
  <2> QED
    BY <2>2, <2>3
<1>4. CASE FailJob
  <2>1. /\ cur \in Existing /\ row[cur] = mem /\ mem \in JobRecord /\ CanFail(mem)
        /\ Replace(cur, Fail(mem, failure))
    BY <1>4, DistinctConstants DEF FailJob, RowIs, Existing
  <2>2. Fail(mem, failure) \in JobRecord
    BY <2>1, EdgesKeepType
  <2> QED
    BY <1>1, <2>1, <2>2 DEF Edge
<1>5. CASE CleanWarning
  <2>1. cur \in Existing /\ row[cur].status = "completed" /\ row[cur] \in JobRecord
    BY <1>5 DEF CleanWarning, Has, Existing
  <2>2. WarningOf(stuck) \in CleanupWarning
    BY DEF WarningOf, CleanupWarning
  <2>3. CASE Replace(cur, [row[cur] EXCEPT !.warning = WarningOf(stuck)])
    BY <1>1, <2>1, <2>2, <2>3, EdgesKeepType DEF Edge
  <2> QED
    BY <1>5, <2>3 DEF CleanWarning
<1>6. ASSUME NEW j \in Jobs, BeginJob(j) \/ BeginJobFails(j)
      PROVE  \/ UNCHANGED row
             \/ \E i \in Existing : /\ Edge(row[i], row'[i])
                                    /\ \A k \in Jobs : k # i => row'[k] = row[k]
  <2>1. /\ j \in Existing /\ row[j] = batch[j] /\ batch[j] \in JobRecord
        /\ batch[j].status \notin {"completed", "needs_attention"}
    BY <1>6, DistinctConstants DEF BeginJob, BeginJobFails, Turn, Existing
  <2>2. PrepareRecovery(batch[j]) \in JobRecord
    BY <2>1, EdgesKeepType
  <2>3. UNCHANGED row \/ Replace(j, PrepareRecovery(batch[j]))
    BY <1>6 DEF BeginJob, BeginJobFails
  <2> QED
    BY <1>1, <2>1, <2>2, <2>3 DEF Edge
<1>7. ASSUME NEW j \in Jobs, RetryJob(j)
      PROVE  \/ UNCHANGED row
             \/ \E i \in Existing : /\ Edge(row[i], row'[i])
                                    /\ \A k \in Jobs : k # i => row'[k] = row[k]
  <2>1. j \in Existing /\ row[j] \in JobRecord
    BY <1>7 DEF RetryJob, Has, Existing
  <2>2. UNCHANGED row \/ (row[j].status = "needs_attention" /\ Replace(j, Resolve(row[j])))
    BY <1>7 DEF RetryJob, CanResolve
  <2> QED
    BY <1>1, <2>1, <2>2, EdgesKeepType DEF Edge
<1> QED
  BY <1>2, <1>3, <1>4, <1>5, <1>6, <1>7 DEF RowUpdate

\* The stage a failure would leave a job at is past the staging of its sources
\* as soon as its status is.
StageInv ==
  \A j \in Existing :
    row[j].status \in ActiveStatus /\ StatusIndex[row[j].status] >= 2 => StatusIndex[row[j].last] >= 2

LEMMA EdgesKeepStage ==
  ASSUME NEW job \in JobRecord, NEW new \in JobRecord, JobSchema(job), Edge(job, new),
         job.status \in ActiveStatus /\ StatusIndex[job.status] >= 2 => StatusIndex[job.last] >= 2
  PROVE  /\ new.status \in ActiveStatus /\ StatusIndex[new.status] >= 2 => StatusIndex[new.last] >= 2
         /\ job.status # "needs_attention" /\ StatusIndex[Checkpoint(job)] >= 2
              => StatusIndex[Checkpoint(new)] >= 2
<1>1. CASE CanAdvance(job) /\ (new = Advance(job) \/ new = Completed(job))
  <2> DEFINE next == NormalSuccessor[job.status]
  <2>1. /\ next \in SuccessfulStatus
        /\ StatusIndex[next] = StatusIndex[job.status] + 1 /\ StatusIndex[job.status] \in 0 .. 7
        /\ next \in ActiveStatus /\ StatusIndex[next] >= 2 => StatusIndex[ResumeStatus[next]] >= 2
    BY <1>1, StageTables DEF CanAdvance
  <2>2. new.status = next /\ new.last = ResumeStatus[next]
    BY <1>1 DEF Advance, Completed, JobRecord
  <2>3. Checkpoint(job) = job.status /\ Checkpoint(new) = next
    BY <1>1, <2>1, <2>2 DEF Checkpoint, CanAdvance, ActiveStatus, FailureStatus, SuccessfulStatus
  <2> HIDE DEF next
  <2> QED
    BY <2>1, <2>2, <2>3
<1>2. ASSUME CanFail(job), NEW why \in Failure, new = Fail(job, why)
      PROVE  /\ new.status \notin ActiveStatus
             /\ StatusIndex[Checkpoint(job)] >= 2 => StatusIndex[Checkpoint(new)] >= 2
  <2>1. new.status \in FailureStatus /\ new.last = job.last
    BY <1>2 DEF Fail, ClassifyFailure, JobRecord, FailureStatus
  <2> QED
    BY <1>2, <2>1 DEF Checkpoint, CanFail, ActiveStatus, FailureStatus
<1>3. CASE job.status \notin {"completed", "needs_attention"} /\ new = PrepareRecovery(job)
  <2>1. CASE job.status = "retryable_failed"
    <3>1. new.status = job.last /\ new.last = job.last /\ job.last \in ActiveStatus
      BY <1>3, <2>1 DEF PrepareRecovery, Retry, JobRecord, JobSchema, FailureStatus, SuccessfulStatus
    <3> QED
      BY <2>1, <3>1 DEF Checkpoint, ActiveStatus, FailureStatus
  <2>2. CASE job.status \in ActiveStatus
    <3>1. \/ new = job
          \/ new.status = ResumeStatus[job.status] /\ new.last = ResumeStatus[job.status]
      BY <1>3, <2>2 DEF PrepareRecovery, Rewind, JobRecord, ActiveStatus
    <3>2. /\ StatusIndex[job.status] >= 2 => StatusIndex[ResumeStatus[job.status]] >= 2
          /\ ResumeStatus[job.status] \in ActiveStatus
      BY <2>2, StageTables
    <3> QED
      BY <2>2, <3>1, <3>2 DEF Checkpoint, ActiveStatus, FailureStatus
  <2> QED
    BY <1>3, <2>1, <2>2 DEF JobRecord, JobStatus, SuccessfulStatus, FailureStatus
<1>4. CASE job.status = "needs_attention" /\ new = Resolve(job)
  BY <1>4 DEF Resolve, JobRecord, StatusIndex
<1>5. CASE job.status = "completed" /\ \E w \in CleanupWarning : new = [job EXCEPT !.warning = w]
  BY <1>5 DEF JobRecord, Checkpoint, ActiveStatus, FailureStatus
<1> QED
  BY <1>1, <1>2, <1>3, <1>4, <1>5 DEF Edge, CanAdvance, CanFail, ActiveStatus

LEMMA StagesStep ==
  ASSUME TypeInv, TypeInv', RowInv, StageInv, [Next]_vars
  PROVE  /\ StageInv'
         /\ \A j \in Existing : row[j].status # "needs_attention" /\ StatusIndex[Checkpoint(row[j])] >= 2
              => StatusIndex[Checkpoint(row'[j])] >= 2
<1> USE DEF TypeInv, TypeOK, RowInv, StageInv, Existing
<1>1. CASE UNCHANGED row
  BY <1>1
<1>2. CASE RowUpdate /\ row' # row
  <2>1. PICK j \in Existing : /\ Edge(row[j], row'[j])
                              /\ \A k \in Jobs : k # j => row'[k] = row[k]
    BY <1>2, UpdatesAreEdges
  <2>2. row[j] \in JobRecord /\ JobSchema(row[j])
    BY DEF Sound
  <2>3. Existing' = Existing
    BY <1>2, UpdatesKeepJobs
  <2>4. row'[j] \in JobRecord
    BY <2>3
  <2> QED
    BY <2>1, <2>2, <2>3, <2>4, EdgesKeepStage
<1>3. CASE InsertClaimed \/ InsertLocal
  <2>1. /\ row'[cur] \in {NewJob("source_ready"), NewJob("queued")}
        /\ \A k \in Jobs : k # cur => row'[k] = row[k]
        /\ row[cur] = NoRow
    BY <1>3, NewJobType, InsertType DEF InsertClaimed, InsertLocal, IntakeSteps
  <2>2. StatusIndex[row'[cur].last] = StatusIndex[row'[cur].status]
    BY <2>1 DEF NewJob
  <2> QED
    BY <2>1, <2>2
<1>4. CASE QuietStep
  BY <1>1, <1>4, QuietKeeps
<1>5. CASE RecordArchive \/ RecordNote \/ RejectDurable \/ \E j \in Jobs : ClaimRejects(j)
  <2>1. UNCHANGED row
    BY <1>5 DEF RecordArchive, RecordNote, RejectDurable, ClaimRejects
  <2> QED
    BY <1>1, <2>1
<1> QED
  BY <1>1, <1>2, <1>3, <1>4, <1>5, QuietOrNot DEF vars, durable

LEMMA StagesKept == Spec => []StageInv
<1>1. Init => StageInv
  BY DEF Init, StageInv, Existing
<1>2. TypeInv /\ TypeInv' /\ RowInv /\ StageInv /\ [Next]_vars => StageInv'
  BY StagesStep
<1> QED
  BY <1>1, <1>2, TypeCorrect, RowsKept, PTL DEF Spec

\* Neither a failure nor a recovery throws a job back behind the staging of its
\* sources, for any number of either.
THEOREM StagedWorkKept == Spec => StagedWorkIsKept
<1>1. TypeInv /\ TypeInv' /\ RowInv /\ StageInv /\ [Next]_vars =>
        [\A j \in Existing :
           /\ row[j].status # "needs_attention"
           /\ StatusIndex[Checkpoint(row[j])] >= StatusIndex["source_ready"]
           => StatusIndex[Checkpoint(row'[j])] >= StatusIndex["source_ready"]]_vars
  <2>1. StatusIndex["source_ready"] = 2
    BY DEF StatusIndex
  <2> QED
    BY <2>1, StagesStep
<1> QED
  BY <1>1, TypeCorrect, RowsKept, StagesKept, PTL DEF Spec, StagedWorkIsKept

\* Only WriteNote and the user's edits change notes.
LEMMA NotesWritten ==
  ASSUME Next
  PROVE  UNCHANGED note \/ WriteNote \/ \E j \in Jobs : EditNote(j)
<1>1. CASE RowUpdate
  BY <1>1 DEF RowUpdate, RunStage, RunProcessor, Complete, FailJob, CommitUnseen, CleanWarning, BeginJob,
              BeginJobFails, RetryJob
<1>2. CASE \/ InsertClaimed \/ InsertLocal \/ RecordArchive \/ RecordNote \/ RejectDurable
           \/ \E j \in Jobs : ClaimRejects(j)
  BY <1>2 DEF InsertClaimed, InsertLocal, RecordArchive, RecordNote, RejectDurable, ClaimRejects
<1>3. CASE QuietStep
  BY <1>3 DEF QuietStep, vars, durable, Boot, Poll, RetryCleanup, ScanReady, ListRecoverable, BatchDone, SkipExisting, CleanExisting, Claim,
       ClaimReceipt, Provision, RefuseClaim, RejectStatus, Receipt, RunWriting, ArchiveSource, KeepArchive,
       KeepNote, StopOnConflict, CompletedReceipt, Finalized, FailUnrecorded, FailReceipt,
       CleanStaging, CleanQueue, ScanFails, ReceiptFails, ProvisionFails, AdmitFails, InsertLocalFails,
       StepFails, CleanWarningFails, CleanExistingFails, ClaimFails, Crash, Deliver, Redeliver,
       EnqueueLocal, EditArchive
<1> QED
  BY <1>1, <1>2, <1>3, QuietOrNot

\* Whatever the runner does, a note that is the user's stays as it is.
THEOREM NotesKept == Spec => UserNotesKept
<1>1. TypeInv /\ [Next]_vars =>
        [pc' # pc => \A j \in Jobs, p \in NotePaths : note[j][p] = "other" => note'[j][p] = "other"]_vars
  <2> SUFFICES ASSUME TypeInv, Next
               PROVE  pc' # pc => \A j \in Jobs, p \in NotePaths :
                                     note[j][p] = "other" => note'[j][p] = "other"
    OBVIOUS
  <2>1. CASE UNCHANGED note
    BY <2>1
  <2>2. CASE WriteNote
    <3>1. /\ note[cur][NoteChoice(cur, processed)] # "other"
          /\ note' = [note EXCEPT ![cur][NoteChoice(cur, processed)] = processed]
      BY <2>2, DistinctConstants DEF WriteNote, NoteChoice, TypeInv, TypeOK, WritingSteps
    <3> QED
      BY <3>1 DEF TypeInv, TypeOK
  <2>3. ASSUME NEW j \in Jobs, EditNote(j) PROVE pc' = pc
    BY <2>3 DEF EditNote, volatile
  <2> QED
    BY <2>1, <2>2, <2>3, NotesWritten
<1> QED
  BY <1>1, TypeCorrect, PTL DEF Spec, UserNotesKept
=============================================================================
