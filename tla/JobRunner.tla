------------------------------ MODULE JobRunner ------------------------------
(***************************************************************************)
(* src/application/jobs/jobRunner.ts together with what it drives: the job   *)
(* table, the iCloud inbox and its receipts, the staging directory and the   *)
(* two files a job leaves in the vault.  Every awaited effect and every      *)
(* database write is a step of its own, and the program may stop between any *)
(* two of them; the rows and the files survive, the rest does not.           *)
(*                                                                         *)
(* A job stands for one submission: an iCloud bundle or a local selection.   *)
(* Jobs are numbers so that "ORDER BY created_at" is the order of numbers.   *)
(***************************************************************************)
EXTENDS JobStateMachine, FiniteSets

CONSTANTS
  Jobs,                 \* submissions
  LocalJobs,            \* those enqueued on the PC (sourceKind = 'local')
  SingletonJobs,        \* those staged as <job>/source.<ext> (usesLegacyStagingLayout)
  Fingerprint,          \* [Jobs -> anything]: course and source hashes of a job
  Place,                \* [Jobs -> Nat]: where the bundle comes in the directory listing
  Results,              \* contents of the recording note a processor run may yield
  MaxReadyJobsPerPoll,         \* MAX_READY_JOBS_PER_POLL, 5
  MaxRecoverableJobsPerRun,    \* MAX_RECOVERABLE_JOBS_PER_RUN, 5
  MaxCleanupRetriesPerPoll,    \* MAX_CLEANUP_RETRIES_PER_POLL, 20
  MaxDisturbances       \* bound of the model: faults, crashes, edits, retries

ASSUME JobsAssumption ==
  /\ Jobs \subseteq Nat
  /\ LocalJobs \subseteq Jobs
  /\ SingletonJobs \subseteq Jobs \ LocalJobs
  /\ Place \in [Jobs -> Nat]

CONSTANTS NoRow, NoJob, NoResult, NoArtifact    \* "no value" markers

VARIABLES
  row,          \* jobs table: row[j] is NoRow or a JobRecord
  older,        \* older[j]: the rows whose updated_at is before that of j
  artifact,     \* job_artifacts table: per job and kind, the path recorded
  inbox,        \* the bundle directory: unsent, present, removed or redelivered
  receipt,      \* Status/<job>.json
  rejected,     \* Rejected/<job>.json exists
  staged,       \* staging/<job> exists
  archive,      \* the vault's copies of the source, at the two paths of a job
  note,         \* the vault's recording notes of a job, by path
  pc, op, cur, ret,   \* where the serial runner is, and with which job
  mem,          \* `current` of #runJob: the runner's copy of the row
  processed,    \* `processed` of #runJob: the result held in memory
  failure,      \* the error being handled
  path,         \* the artifact path written but not yet recorded
  stuck,        \* the parts #cleanupCompleted could not remove
  pending, ready, batch,  \* what is left of the three lists of a poll
  disturbances

durable == <<row, older, artifact, inbox, receipt, rejected, staged, archive, note>>
volatile == <<pc, op, cur, ret, mem, processed, failure, path, stuck, pending, ready, batch>>
vars == <<durable, volatile, disturbances>>

ArtifactKind == {"source_archive", "recording_note"}
ArchivePaths == {"desired", "generated"}
NotePaths == {"desired"} \cup Results     \* generated paths carry the content's hash
NoPath == "absent"

\* A row of job_artifacts: where the file is and the hash it had, "source" for
\* the hash of the job's source.
Artifact == [path : ArchivePaths \cup NotePaths, sha256 : Results \cup {"source"}]

ASSUME DistinctConstants ==
  /\ NoRow \notin JobRecord
  /\ NoJob \notin Jobs
  /\ NoResult \notin Results
  /\ NoArtifact \notin Artifact
  /\ {"desired", "generated", "absent", "other", "source"} \cap (Results \cup {NoResult}) = {}

\* The awaited steps of #runJob: any of them may throw.
FallibleSteps ==
  {"run", "receipt", "archive", "archiveRow", "note", "noteRow", "completedReceipt",
   "complete"}

CleanupSteps == {"cleanStaging", "cleanQueue", "cleanWarning"}

IntakeSteps ==
  {"claimed", "admit", "claimReceipt", "rejectStatus", "rejectDurable", "localInsert"}

ListSteps == {"boot", "idle", "cleanup", "intake", "batch"}

RunSteps == FallibleSteps \cup {"finalized", "fail", "failReceipt"}

Steps == RunSteps \cup CleanupSteps \cup IntakeSteps \cup ListSteps

TypeOK ==
  /\ row \in [Jobs -> JobRecord \cup {NoRow}]
  /\ older \in [Jobs -> SUBSET Jobs]
  /\ artifact \in [Jobs -> [ArtifactKind -> Artifact \cup {NoArtifact}]]
  /\ inbox \in [Jobs -> {"unsent", "present", "removed", "redelivered"}]
  /\ receipt \in [Jobs -> {"none", "processing", "completed", "failed"}]
  /\ rejected \in [Jobs -> BOOLEAN]
  /\ staged \in [Jobs -> BOOLEAN]
  /\ archive \in [Jobs -> [ArchivePaths -> {"absent", "other", "source"}]]
  /\ note \in [Jobs -> [NotePaths -> {"absent", "other"} \cup Results]]
  /\ pc \in Steps
  /\ op \in {"poll", "resume"}
  /\ cur \in Jobs \cup {NoJob}
  /\ ret \in {"cleanup", "intake", "finalized"}
  /\ mem \in JobRecord \cup {NoRow}
  /\ processed \in Results \cup {NoResult}
  /\ failure \in Failure
  /\ path \in ArchivePaths \cup NotePaths \cup {NoPath}
  /\ stuck \in SUBSET {"staging", "queue"}
  /\ pending \in SUBSET Jobs
  /\ ready \in SUBSET Jobs
  /\ batch \in [Jobs -> JobRecord \cup {NoRow}]
  /\ disturbances \in Nat

Existing == {j \in Jobs : row[j] # NoRow}

Has(j, status) == row[j] # NoRow /\ row[j].status = status

\* The smallest n members of S, and the n members of S updated the longest ago.
First(S, n) == {j \in S : Cardinality({k \in S : k < j}) < n}
Stalest(S, n) == {j \in S : Cardinality(older[j] \cap S) < n}

Init ==
  /\ row = [j \in Jobs |-> NoRow]
  /\ older = [j \in Jobs |-> {}]
  /\ artifact = [j \in Jobs |-> [k \in ArtifactKind |-> NoArtifact]]
  /\ inbox = [j \in Jobs |-> "unsent"]
  /\ receipt = [j \in Jobs |-> "none"]
  /\ rejected = [j \in Jobs |-> FALSE]
  /\ staged = [j \in Jobs |-> FALSE]
  /\ archive = [j \in Jobs |-> [p \in ArchivePaths |-> "absent"]]
  /\ note = [j \in Jobs |-> [p \in NotePaths |-> "absent"]]
  /\ pc = "boot"
  /\ op = "resume"
  /\ cur = NoJob
  /\ ret = "cleanup"
  /\ mem = NoRow
  /\ processed = NoResult
  /\ failure = "permanent"
  /\ path = NoPath
  /\ stuck = {}
  /\ pending = {}
  /\ ready = {}
  /\ batch = [j \in Jobs |-> NoRow]
  /\ disturbances = 0

-----------------------------------------------------------------------------
(* Database writes.                                                        *)

Disturb ==
  /\ disturbances < MaxDisturbances
  /\ disturbances' = disturbances + 1

\* Slip: the revision is not compared.
AnyRow(j, expected) == TRUE

\* jobs.update(new, expected.revision): the row is replaced only if it still is
\* the one the writer read; updated_at makes it the most recent row.
RowIs(j, expected) == row[j] = expected

Replace(j, new) ==
  /\ row' = [row EXCEPT ![j] = new]
  /\ older' = [k \in Jobs |-> IF k = j THEN Existing \ {j} ELSE older[k] \ {j}]

\* insertJobWithBundle.  updated_at is the time the submission was created, so
\* the row may come anywhere in the order of the existing ones.
Insert(j, new) ==
  \E before \in SUBSET (Existing \ {j}) :
    /\ \A k \in before : older[k] \subseteq before
    /\ row' = [row EXCEPT ![j] = new]
    /\ older' = [k \in Jobs |-> IF k = j THEN before
                                ELSE IF k \in Existing \ before THEN older[k] \cup {j}
                                ELSE older[k]]

NewJob(status) ==
  [status |-> status, last |-> status, retry |-> 0, error |-> "null",
   resolved |-> FALSE, warning |-> "null"]

Duplicate(j) == \E k \in Existing : k # j /\ Fingerprint[k] = Fingerprint[j]

-----------------------------------------------------------------------------
(* The serial queue of FoundationApplication and the lists a poll works off. *)

\* Slip: the debt of an interrupted cleanup is taken for one still going on.
FailedCleanups == {j \in Existing : row[j].warning \notin {"null", "CLEANUP_PENDING"}}

CleanupDebts == {j \in Existing : Has(j, "completed") /\ row[j].warning # "null"}

\* resumeInterrupted or pollOnce begins: #retryCleanupWarnings takes its list.
Begin(operation) ==
  /\ pc' = "cleanup"
  /\ op' = operation
  /\ pending' = First(CleanupDebts, MaxCleanupRetriesPerPoll)
  /\ cur' = NoJob

\* initialize() resumes interrupted work before the first poll.
Boot ==
  /\ pc = "boot"
  /\ Begin("resume")
  /\ UNCHANGED <<durable, ret, mem, processed, failure, path, stuck, ready, batch, disturbances>>

Poll ==
  /\ pc = "idle"
  /\ Begin("poll")
  /\ UNCHANGED <<durable, ret, mem, processed, failure, path, stuck, ready, batch, disturbances>>

\* The retry button.  Only a job that needs attention is resolved; a retryable
\* one is simply taken up at once.
RetryJob(j) ==
  /\ pc = "idle"
  /\ Has(j, "needs_attention") \/ Has(j, "retryable_failed")
  /\ Disturb
  /\ IF CanResolve(row[j])
     THEN Replace(j, Resolve(row[j]))
     ELSE UNCHANGED <<row, older>>
  /\ Begin("resume")
  /\ UNCHANGED <<artifact, inbox, receipt, rejected, staged, archive, note>>
  /\ UNCHANGED <<ret, mem, processed, failure, path, stuck, ready, batch>>

\* #cleanupCompleted(job) is entered; it comes back to `to`.
EnterCleanup(j, to) ==
  /\ pc' = "cleanStaging"
  /\ cur' = j
  /\ ret' = to
  /\ stuck' = {}

RetryCleanup ==
  /\ pc = "cleanup"
  /\ \E j \in First(pending, 1) :
       /\ pending' = pending \ {j}
       /\ EnterCleanup(j, "cleanup")
  /\ UNCHANGED <<durable, op, mem, processed, failure, path, ready, batch, disturbances>>

ReadyBundles == {j \in Jobs : inbox[j] \in {"present", "redelivered"} /\ ~rejected[j]}

\* queue.scanReady().slice(0, 5): the first stable bundles of the listing.  A
\* bundle counts as delivered once two scans have seen it unchanged.
ReadyFirst(bundles) ==
  {j \in bundles : Cardinality({k \in bundles : Place[k] < Place[j]}) < MaxReadyJobsPerPoll}

ScanReady ==
  /\ pc = "cleanup"
  /\ op = "poll"
  /\ pending = {}
  /\ \/ ready' = ReadyFirst(ReadyBundles) /\ UNCHANGED disturbances
     \/ /\ Disturb                         \* some are unstable or unreadable just now
        /\ \E some \in SUBSET ReadyBundles : ready' = ReadyFirst(some)
  /\ pc' = "intake"
  /\ UNCHANGED <<durable, op, cur, ret, mem, processed, failure, path, stuck, pending, batch>>

\* A scan that throws ends the poll before any job is run.
ScanFails ==
  /\ pc = "cleanup"
  /\ op = "poll"
  /\ pending = {}
  /\ Disturb
  /\ pc' = "idle"
  /\ UNCHANGED <<durable, op, cur, ret, mem, processed, failure, path, stuck, pending, ready, batch>>

\* Slip: only the rows a crash left active.
Interrupted == {j \in Existing : row[j].status \in ActiveStatus}

Recoverable == {j \in Existing : row[j].status \notin {"completed", "needs_attention"}}

\* jobs.listRecoverable().slice(0, 5): the rows as they are now.
ListRecoverable ==
  /\ \/ pc = "cleanup" /\ op = "resume" /\ pending = {}
     \/ pc = "intake" /\ ready = {}
  /\ LET taken == Stalest(Recoverable, MaxRecoverableJobsPerRun)
     IN  batch' = [j \in Jobs |-> IF j \in taken THEN row[j] ELSE NoRow]
  /\ pc' = "batch"
  /\ UNCHANGED <<durable, op, cur, ret, mem, processed, failure, path, stuck, pending, ready, disturbances>>

BatchDone ==
  /\ pc = "batch"
  /\ \A j \in Jobs : batch[j] = NoRow
  /\ pc' = "idle"
  /\ UNCHANGED <<durable, op, cur, ret, mem, processed, failure, path, stuck, pending, ready, batch, disturbances>>

-----------------------------------------------------------------------------
(* Intake of queue bundles: the loop of #pollOnce.                          *)

\* The loop goes on with the next ready item.
NextItem(j) ==
  /\ pc' = "intake"
  /\ ready' = ready \ {j}
  /\ cur' = NoJob

\* Slip: staging that is there already is taken for a job.
SkipStaged(j) ==
  /\ pc = "intake" /\ j \in ready
  /\ (row[j] # NoRow \/ staged[j]) /\ ~Has(j, "completed")
  /\ NextItem(j)
  /\ UNCHANGED <<durable, op, ret, mem, processed, failure, path, stuck, pending, batch, disturbances>>

\* The bundle's job is already there.
SkipExisting(j) ==
  /\ pc = "intake" /\ j \in ready
  /\ row[j] # NoRow /\ ~Has(j, "completed")
  /\ NextItem(j)
  /\ UNCHANGED <<durable, op, ret, mem, processed, failure, path, stuck, pending, batch, disturbances>>

\* ... and completed: the receipt is written again and the cleanup tried again.
CleanExisting(j) ==
  /\ pc = "intake" /\ j \in ready
  /\ Has(j, "completed")
  /\ receipt' = [receipt EXCEPT ![j] = "completed"]
  /\ ready' = ready \ {j}
  /\ EnterCleanup(j, "intake")
  /\ UNCHANGED <<row, older, artifact, inbox, rejected, staged, archive, note>>
  /\ UNCHANGED <<op, mem, processed, failure, path, pending, batch, disturbances>>

CleanExistingFails(j) ==
  /\ pc = "intake" /\ j \in ready
  /\ Has(j, "completed")
  /\ Disturb
  /\ NextItem(j)
  /\ UNCHANGED <<durable, op, ret, mem, processed, failure, path, stuck, pending, batch>>

\* queue.claim(item): the sources are copied to staging under a reservation.
Claim(j) ==
  /\ pc = "intake" /\ j \in ready
  /\ row[j] = NoRow
  /\ staged' = [staged EXCEPT ![j] = TRUE]
  /\ pc' = "claimed"
  /\ cur' = j
  /\ UNCHANGED <<row, older, artifact, inbox, receipt, rejected, archive, note>>
  /\ UNCHANGED <<op, ret, mem, processed, failure, path, stuck, pending, ready, batch, disturbances>>

\* A claim without a job: a failed receipt, unless the manifest was not read.
ClaimEnds(j) ==
  \/ pc' = "claimReceipt" /\ cur' = j /\ ready' = ready
  \/ NextItem(j)

\* The bundle is refused for good (invalid, too large, hash mismatch): the
\* rejection is written before the receipt.  Staging of this claim is removed,
\* one left by an earlier claim may stay.
ClaimRejects(j) ==
  /\ pc = "intake" /\ j \in ready
  /\ row[j] = NoRow
  /\ Disturb
  /\ \E left \in {FALSE, staged[j]} : staged' = [staged EXCEPT ![j] = left]
  /\ rejected' = [rejected EXCEPT ![j] = TRUE]
  /\ ClaimEnds(j)
  /\ UNCHANGED <<row, older, artifact, inbox, receipt, archive, note>>
  /\ UNCHANGED <<op, ret, mem, processed, failure, path, stuck, pending, batch>>

\* A claim that may succeed later; an unstable bundle gets no receipt at all.
ClaimFails(j) ==
  /\ pc = "intake" /\ j \in ready
  /\ row[j] = NoRow
  /\ Disturb
  /\ \E left \in BOOLEAN : staged' = [staged EXCEPT ![j] = left]
  /\ ClaimEnds(j)
  /\ UNCHANGED <<row, older, artifact, inbox, receipt, rejected, archive, note>>
  /\ UNCHANGED <<op, ret, mem, processed, failure, path, stuck, pending, batch>>

\* The failed receipt of a claim that did not become a job.
ClaimReceipt ==
  /\ pc = "claimReceipt"
  /\ receipt' = [receipt EXCEPT ![cur] = "failed"]
  /\ NextItem(cur)
  /\ UNCHANGED <<row, older, artifact, inbox, rejected, staged, archive, note>>
  /\ UNCHANGED <<op, ret, mem, processed, failure, path, stuck, pending, batch, disturbances>>

\* #provisionClaimedCourse: nothing to provision, or the course is there now.
Provision ==
  /\ pc = "claimed"
  /\ pc' = "admit"
  /\ UNCHANGED <<durable, op, cur, ret, mem, processed, failure, path, stuck, pending, ready, batch, disturbances>>

\* Staging is cleaned first; only then may the claim be rejected for good.
ProvisionFails ==
  /\ pc = "claimed"
  /\ Disturb
  /\ \/ staged' = [staged EXCEPT ![cur] = FALSE] /\ pc' \in {"rejectStatus", "claimReceipt"}
     \/ staged' = staged /\ pc' = "claimReceipt"
  /\ UNCHANGED <<row, older, artifact, inbox, receipt, rejected, archive, note>>
  /\ UNCHANGED <<op, cur, ret, mem, processed, failure, path, stuck, pending, ready, batch>>

\* A course that is missing or archived refuses the claim, and so does another
\* job with the same fingerprint.
RefuseClaim ==
  /\ pc = "admit"
  /\ \/ Duplicate(cur) /\ UNCHANGED disturbances
     \/ Disturb
  /\ staged' = [staged EXCEPT ![cur] = FALSE]
  /\ pc' = "rejectStatus"
  /\ UNCHANGED <<row, older, artifact, inbox, receipt, rejected, archive, note>>
  /\ UNCHANGED <<op, cur, ret, mem, processed, failure, path, stuck, pending, ready, batch>>

\* insertJobWithBundle: one transaction.
InsertClaimed ==
  /\ pc = "admit"
  /\ ~Duplicate(cur)
  /\ Insert(cur, NewJob("source_ready"))
  /\ NextItem(cur)
  /\ UNCHANGED <<artifact, inbox, receipt, rejected, staged, archive, note>>
  /\ UNCHANGED <<op, ret, mem, processed, failure, path, stuck, pending, batch, disturbances>>

\* Slip: an insert that committed is treated as one that failed.
AdmitFailsAfterCommit ==
  /\ pc = "admit"
  /\ ~Duplicate(cur)
  /\ Disturb
  /\ Insert(cur, NewJob("source_ready"))
  /\ staged' = [staged EXCEPT ![cur] = FALSE]
  /\ NextItem(cur)
  /\ UNCHANGED <<artifact, inbox, receipt, rejected, archive, note>>
  /\ UNCHANGED <<op, ret, mem, processed, failure, path, stuck, pending, batch>>

\* The claim is dropped without a trace but for staging that could not be removed.
AdmitFails ==
  /\ pc = "admit"
  /\ Disturb
  /\ \E left \in BOOLEAN : staged' = [staged EXCEPT ![cur] = left]
  /\ NextItem(cur)
  /\ UNCHANGED <<row, older, artifact, inbox, receipt, rejected, archive, note>>
  /\ UNCHANGED <<op, ret, mem, processed, failure, path, stuck, pending, batch>>

\* #rejectClaim: the status receipt, then the rejection.
RejectStatus ==
  /\ pc = "rejectStatus"
  /\ receipt' = [receipt EXCEPT ![cur] = "failed"]
  /\ pc' = "rejectDurable"
  /\ UNCHANGED <<row, older, artifact, inbox, rejected, staged, archive, note>>
  /\ UNCHANGED <<op, cur, ret, mem, processed, failure, path, stuck, pending, ready, batch, disturbances>>

RejectDurable ==
  /\ pc = "rejectDurable"
  /\ rejected' = [rejected EXCEPT ![cur] = TRUE]
  /\ NextItem(cur)
  /\ UNCHANGED <<row, older, artifact, inbox, receipt, staged, archive, note>>
  /\ UNCHANGED <<op, ret, mem, processed, failure, path, stuck, pending, batch, disturbances>>

ReceiptFails ==
  /\ pc \in {"claimReceipt", "rejectStatus", "rejectDurable"}
  /\ Disturb
  /\ NextItem(cur)
  /\ UNCHANGED <<durable, op, ret, mem, processed, failure, path, stuck, pending, batch>>

-----------------------------------------------------------------------------
(* Intake of local sources: LocalSourceIntake.enqueue, then resumeInterrupted. *)

\* mkdir staging/<job> fails when the directory is there, so staging that a stop
\* left behind refuses the sources until somebody removes it.
EnqueueLocal(j) ==
  /\ pc = "idle"
  /\ j \in LocalJobs
  /\ row[j] = NoRow /\ ~Duplicate(j)
  /\ ~staged[j]
  /\ staged' = [staged EXCEPT ![j] = TRUE]
  /\ pc' = "localInsert"
  /\ cur' = j
  /\ UNCHANGED <<row, older, artifact, inbox, receipt, rejected, archive, note>>
  /\ UNCHANGED <<op, ret, mem, processed, failure, path, stuck, pending, ready, batch, disturbances>>

InsertLocal ==
  /\ pc = "localInsert"
  /\ Insert(cur, NewJob("queued"))
  /\ Begin("resume")
  /\ UNCHANGED <<artifact, inbox, receipt, rejected, staged, archive, note>>
  /\ UNCHANGED <<ret, mem, processed, failure, path, stuck, ready, batch, disturbances>>

InsertLocalFails ==
  /\ pc = "localInsert"
  /\ Disturb
  /\ \E left \in BOOLEAN : staged' = [staged EXCEPT ![cur] = left]
  /\ pc' = "idle"
  /\ cur' = NoJob
  /\ UNCHANGED <<row, older, artifact, inbox, receipt, rejected, archive, note>>
  /\ UNCHANGED <<op, ret, mem, processed, failure, path, stuck, pending, ready, batch>>

-----------------------------------------------------------------------------
(* #runJob.                                                                 *)

EndRun ==
  /\ pc' = "batch"
  /\ cur' = NoJob
  /\ mem' = NoRow
  /\ processed' = NoResult
  /\ path' = NoPath

Turn(j) ==      \* the next row of the list, in its order
  /\ pc = "batch"
  /\ batch[j] # NoRow
  /\ \A k \in older[j] : batch[k] = NoRow

\* #prepareRecovery: a row found active was interrupted and is rewound.
BeginJob(j) ==
  /\ Turn(j)
  /\ RowIs(j, batch[j])
  /\ LET job == PrepareRecovery(batch[j])
     IN  /\ IF job = batch[j] THEN UNCHANGED <<row, older>> ELSE Replace(j, job)
         /\ mem' = job
  /\ batch' = [batch EXCEPT ![j] = NoRow]
  /\ cur' = j
  /\ pc' = "run"
  /\ UNCHANGED <<artifact, inbox, receipt, rejected, staged, archive, note>>
  /\ UNCHANGED <<op, ret, processed, failure, path, stuck, pending, ready, disturbances>>

\* The update of the rewind throws, before or after it committed.
BeginJobFails(j) ==
  /\ Turn(j)
  /\ Disturb
  /\ \/ UNCHANGED <<row, older>>
     \/ /\ RowIs(j, batch[j]) /\ PrepareRecovery(batch[j]) # batch[j]
        /\ Replace(j, PrepareRecovery(batch[j]))
  /\ mem' = batch[j]
  /\ batch' = [batch EXCEPT ![j] = NoRow]
  /\ cur' = j
  /\ pc' = "fail"
  /\ failure' \in Failure
  /\ UNCHANGED <<artifact, inbox, receipt, rejected, staged, archive, note>>
  /\ UNCHANGED <<op, ret, processed, path, stuck, pending, ready>>

\* #transition(current, NORMAL_SUCCESSORS[status]).
Transition ==
  /\ RowIs(cur, mem)
  /\ Replace(cur, Advance(mem))
  /\ mem' = Advance(mem)

StagedStages == {"receiving", "source_ready"}     \* #assertStagedSource comes first

ReceiptStages == {"queued", "source_ready"}       \* a processing receipt follows

RunStage ==
  /\ pc = "run"
  /\ mem.status \in {"queued", "receiving", "source_ready", "structuring",
                     "generating", "verifying"}
  /\ mem.status \in StagedStages => staged[cur]
  /\ Transition
  /\ pc' = IF mem.status \in ReceiptStages THEN "receipt" ELSE "run"
  /\ UNCHANGED <<artifact, inbox, receipt, rejected, staged, archive, note>>
  /\ UNCHANGED <<op, cur, ret, processed, failure, path, stuck, pending, ready, batch, disturbances>>

\* writeProcessingReceipt; a local job has no receipts.
Receipt ==
  /\ pc = "receipt"
  /\ receipt' = IF cur \in LocalJobs THEN receipt
                ELSE [receipt EXCEPT ![cur] = "processing"]
  /\ pc' = "run"
  /\ UNCHANGED <<row, older, artifact, inbox, rejected, staged, archive, note>>
  /\ UNCHANGED <<op, cur, ret, mem, processed, failure, path, stuck, pending, ready, batch, disturbances>>

\* The processor's result is kept in memory only.
RunProcessor ==
  /\ pc = "run"
  /\ mem.status = "transcribing_or_extracting"
  /\ processed' \in Results
  /\ Transition
  /\ UNCHANGED <<artifact, inbox, receipt, rejected, staged, archive, note>>
  /\ UNCHANGED <<pc, op, cur, ret, failure, path, stuck, pending, ready, batch, disturbances>>

\* processed ??= process(current): a job resumed past that stage runs it again.
RunWriting ==
  /\ pc = "run"
  /\ mem.status = "writing"
  /\ IF processed = NoResult THEN processed' \in Results ELSE processed' = processed
  /\ pc' = "archive"
  /\ UNCHANGED <<durable, op, cur, ret, mem, failure, path, stuck, pending, ready, batch, disturbances>>

\* Slip: only the desired path is looked at.
ArchiveChoiceSlip(j) ==
  IF archive[j]["desired"] \in {"source", "absent"} THEN "desired" ELSE "generated"

\* SourceArchiver.archive: a file with the source's hash is adopted at either
\* path; a foreign file sends the copy to the generated path.
ArchiveChoice(j) ==
  IF archive[j]["desired"] = "source" THEN "desired"
  ELSE IF archive[j]["desired"] = "absent" /\ archive[j]["generated"] # "source"
       THEN "desired"
       ELSE "generated"

ArchiveSource ==
  /\ pc = "archive"
  /\ artifact[cur].source_archive = NoArtifact
  /\ LET chosen == ArchiveChoice(cur)
     IN  /\ archive[cur][chosen] # "other"
         /\ archive[cur][chosen] = "absent" => staged[cur]
         /\ archive' = [archive EXCEPT ![cur][chosen] = "source"]
         /\ path' = chosen
  /\ pc' = "archiveRow"
  /\ UNCHANGED <<row, older, artifact, inbox, receipt, rejected, staged, note>>
  /\ UNCHANGED <<op, cur, ret, mem, processed, failure, stuck, pending, ready, batch, disturbances>>

RecordArchive ==
  /\ pc = "archiveRow"
  /\ archive[cur][path] = "source"
  /\ artifact' = [artifact EXCEPT ![cur].source_archive = [path |-> path, sha256 |-> "source"]]
  /\ path' = NoPath
  /\ pc' = "note"
  /\ UNCHANGED <<row, older, inbox, receipt, rejected, staged, archive, note>>
  /\ UNCHANGED <<op, cur, ret, mem, processed, failure, stuck, pending, ready, batch, disturbances>>

\* Slip: an archive on record is taken for a finished job.
KeepArchiveSkipNote ==
  /\ pc = "archive"
  /\ artifact[cur].source_archive # NoArtifact
  /\ archive[cur][artifact[cur].source_archive.path] = "source"
  /\ pc' = "completedReceipt"
  /\ UNCHANGED <<durable, op, cur, ret, mem, processed, failure, path, stuck, pending, ready, batch, disturbances>>

KeepArchive ==
  /\ pc = "archive"
  /\ artifact[cur].source_archive # NoArtifact
  /\ archive[cur][artifact[cur].source_archive.path] = "source"
  /\ pc' = "note"
  /\ UNCHANGED <<durable, op, cur, ret, mem, processed, failure, path, stuck, pending, ready, batch, disturbances>>

\* #writeRecordingNote: content already at either path is adopted; a foreign
\* file at the desired path sends the note to the path named by its content.
NoteChoice(j, content) ==
  IF note[j]["desired"] = content THEN "desired"
  ELSE IF note[j]["desired"] = "absent" /\ note[j][content] # content
       THEN "desired"
       ELSE content

WriteNote ==
  /\ pc = "note"
  /\ artifact[cur].recording_note = NoArtifact
  /\ LET chosen == NoteChoice(cur, processed)
     IN  /\ note[cur]["desired"] # processed => note[cur][processed] # "other"
         /\ note' = [note EXCEPT ![cur][chosen] = processed]
         /\ path' = chosen
  /\ pc' = "noteRow"
  /\ UNCHANGED <<row, older, artifact, inbox, receipt, rejected, staged, archive>>
  /\ UNCHANGED <<op, cur, ret, mem, processed, failure, stuck, pending, ready, batch, disturbances>>

RecordNote ==
  /\ pc = "noteRow"
  /\ artifact' = [artifact EXCEPT ![cur].recording_note = [path |-> path, sha256 |-> processed]]
  /\ path' = NoPath
  /\ pc' = "completedReceipt"
  /\ UNCHANGED <<row, older, inbox, receipt, rejected, staged, archive, note>>
  /\ UNCHANGED <<op, cur, ret, mem, processed, failure, stuck, pending, ready, batch, disturbances>>

KeepNote ==
  /\ pc = "note"
  /\ artifact[cur].recording_note # NoArtifact
  /\ LET known == artifact[cur].recording_note
     IN  note[cur][known.path] = known.sha256
  /\ pc' = "completedReceipt"
  /\ UNCHANGED <<durable, op, cur, ret, mem, processed, failure, path, stuck, pending, ready, batch, disturbances>>

\* The user's edit of a file that is already recorded, or that stands where the
\* generated file should go, stops the job.
VaultConflict ==
  \/ /\ pc = "archive"
     /\ IF artifact[cur].source_archive = NoArtifact
        THEN archive[cur][ArchiveChoice(cur)] = "other"
        ELSE archive[cur][artifact[cur].source_archive.path] # "source"
  \/ /\ pc = "archiveRow"
     /\ archive[cur][path] # "source"
  \/ /\ pc = "note"
     /\ IF artifact[cur].recording_note = NoArtifact
        THEN note[cur]["desired"] # processed /\ note[cur][processed] = "other"
        ELSE note[cur][artifact[cur].recording_note.path] # artifact[cur].recording_note.sha256

StopOnConflict ==
  /\ VaultConflict
  /\ pc' = "fail"
  /\ failure' = "permanent"
  /\ UNCHANGED <<durable, op, cur, ret, mem, processed, path, stuck, pending, ready, batch, disturbances>>

CompletedReceipt ==
  /\ pc = "completedReceipt"
  /\ receipt' = IF cur \in LocalJobs THEN receipt
                ELSE [receipt EXCEPT ![cur] = "completed"]
  /\ pc' = "complete"
  /\ UNCHANGED <<row, older, artifact, inbox, rejected, staged, archive, note>>
  /\ UNCHANGED <<op, cur, ret, mem, processed, failure, path, stuck, pending, ready, batch, disturbances>>

\* #completeWithCleanupPending: the debt of the cleanup is recorded with the
\* completion itself.  `current` of #runJob still is the job being written.
Completed(job) == [Advance(job) EXCEPT !.warning = "CLEANUP_PENDING"]

Complete ==
  /\ pc = "complete"
  /\ RowIs(cur, mem)
  /\ Replace(cur, Completed(mem))
  /\ EnterCleanup(cur, "finalized")
  /\ UNCHANGED <<artifact, inbox, receipt, rejected, staged, archive, note>>
  /\ UNCHANGED <<op, mem, processed, failure, path, pending, ready, batch, disturbances>>

Finalized ==
  /\ pc = "finalized"
  /\ EndRun
  /\ UNCHANGED <<durable, op, ret, failure, stuck, pending, ready, batch, disturbances>>

\* Any awaited step may throw, with its effect or without it.
StepFails ==
  /\ pc \in FallibleSteps \cup {"finalized"}
  /\ Disturb
  /\ pc' = "fail"
  /\ failure' \in Failure
  /\ UNCHANGED <<durable, op, cur, ret, mem, processed, path, stuck, pending, ready, batch>>

\* update() commits and then reads the row back: when that read throws, the row
\* has changed behind the runner's copy.
CommitUnseen ==
  /\ \/ pc = "run" /\ mem.status \in ActiveStatus \ {"writing"}
     \/ pc = "complete"
  /\ RowIs(cur, mem)
  /\ Disturb
  /\ Replace(cur, IF pc = "complete" THEN Completed(mem) ELSE Advance(mem))
  /\ pc' = "fail"
  /\ failure' \in Failure
  /\ UNCHANGED <<artifact, inbox, receipt, rejected, staged, archive, note>>
  /\ UNCHANGED <<op, cur, ret, mem, processed, path, stuck, pending, ready, batch>>

\* The catch clause: the failure is recorded against the row the runner knows.
FailJob ==
  /\ pc = "fail"
  /\ CanFail(mem) /\ RowIs(cur, mem)
  /\ Replace(cur, Fail(mem, failure))
  /\ pc' = "failReceipt"
  /\ mem' = Fail(mem, failure)
  /\ UNCHANGED <<artifact, inbox, receipt, rejected, staged, archive, note>>
  /\ UNCHANGED <<op, cur, ret, processed, failure, path, stuck, pending, ready, batch, disturbances>>

\* ... and only reported when that is refused: no such edge, or the row moved on.
FailUnrecorded ==
  /\ pc = "fail"
  /\ \/ ~(CanFail(mem) /\ RowIs(cur, mem)) /\ UNCHANGED disturbances
     \/ Disturb
  /\ EndRun
  /\ UNCHANGED <<durable, op, ret, failure, stuck, pending, ready, batch>>

FailReceipt ==
  /\ pc = "failReceipt"
  /\ \/ /\ receipt' = IF cur \in LocalJobs THEN receipt
                      ELSE [receipt EXCEPT ![cur] = "failed"]
        /\ UNCHANGED disturbances
     \/ /\ receipt' = receipt
        /\ Disturb
  /\ EndRun
  /\ UNCHANGED <<row, older, artifact, inbox, rejected, staged, archive, note>>
  /\ UNCHANGED <<op, ret, failure, stuck, pending, ready, batch>>

-----------------------------------------------------------------------------
(* #cleanupCompleted: each part is tried, the row keeps what is left to do.  *)

CleanStaging ==
  /\ pc = "cleanStaging"
  /\ \/ /\ staged' = IF cur \in SingletonJobs THEN [staged EXCEPT ![cur] = FALSE] ELSE staged
        /\ stuck' = {}
        /\ UNCHANGED disturbances
     \/ /\ cur \in SingletonJobs
        /\ staged' = staged
        /\ stuck' = {"staging"}
        /\ Disturb
  /\ pc' = "cleanQueue"
  /\ UNCHANGED <<row, older, artifact, inbox, receipt, rejected, archive, note>>
  /\ UNCHANGED <<op, cur, ret, mem, processed, failure, path, pending, ready, batch>>

\* queue.removeCompleted: it wants the completed receipt and the reservation of
\* the claim, which goes with the bundle: a bundle delivered again stays.
CleanQueue ==
  /\ pc = "cleanQueue"
  /\ \/ /\ cur \notin LocalJobs
        /\ receipt[cur] = "completed" /\ inbox[cur] # "redelivered"
        /\ inbox' = [inbox EXCEPT ![cur] = "removed"]
        /\ UNCHANGED <<stuck, disturbances>>
     \/ /\ cur \notin LocalJobs
        /\ receipt[cur] # "completed" \/ inbox[cur] = "redelivered"
        /\ stuck' = stuck \cup {"queue"}
        /\ UNCHANGED <<inbox, disturbances>>
     \/ /\ cur \notin LocalJobs
        /\ Disturb
        /\ stuck' = stuck \cup {"queue"}
        /\ \/ receipt[cur] = "completed" /\ inbox[cur] # "redelivered"
              /\ inbox' = [inbox EXCEPT ![cur] = "removed"]
           \/ inbox' = inbox
     \/ /\ cur \in LocalJobs
        /\ UNCHANGED <<inbox, stuck, disturbances>>
  /\ pc' = "cleanWarning"
  /\ UNCHANGED <<row, older, artifact, receipt, rejected, staged, archive, note>>
  /\ UNCHANGED <<op, cur, ret, mem, processed, failure, path, pending, ready, batch>>

WarningOf(parts) ==
  IF parts = {} THEN "null"
  ELSE IF parts = {"staging"} THEN "STAGING_CLEANUP_FAILED"
  ELSE IF parts = {"queue"} THEN "QUEUE_CLEANUP_FAILED"
  ELSE "STAGING_AND_QUEUE_CLEANUP_FAILED"

LeaveCleanup ==
  /\ pc' = ret
  /\ cur' = IF ret = "finalized" THEN cur ELSE NoJob
  /\ stuck' = {}

CleanWarning ==
  /\ pc = "cleanWarning"
  /\ IF row[cur].warning # WarningOf(stuck)
     THEN Replace(cur, [row[cur] EXCEPT !.warning = WarningOf(stuck)])
     ELSE UNCHANGED <<row, older>>
  /\ LeaveCleanup
  /\ UNCHANGED <<artifact, inbox, receipt, rejected, staged, archive, note>>
  /\ UNCHANGED <<op, ret, mem, processed, failure, path, pending, ready, batch, disturbances>>

CleanWarningFails ==
  /\ pc = "cleanWarning"
  /\ Disturb
  /\ LeaveCleanup
  /\ UNCHANGED <<durable, op, ret, mem, processed, failure, path, pending, ready, batch>>

-----------------------------------------------------------------------------
(* The rest of the world.                                                   *)

\* The phone's bundle arrives through iCloud ...
Deliver(j) ==
  /\ j \notin LocalJobs
  /\ inbox[j] = "unsent"
  /\ inbox' = [inbox EXCEPT ![j] = "present"]
  /\ UNCHANGED <<row, older, artifact, receipt, rejected, staged, archive, note, volatile, disturbances>>

\* ... and iCloud may bring back one that was removed, which no bound counts: it
\* happens once to a bundle, since one brought back is not removed again.
Redeliver(j) ==
  /\ inbox[j] = "removed"
  /\ inbox' = [inbox EXCEPT ![j] = "redelivered"]
  /\ UNCHANGED <<row, older, artifact, receipt, rejected, staged, archive, note, volatile, disturbances>>

\* The user changes, creates or deletes a file in the vault.
EditNote(j) ==
  /\ Disturb
  /\ \E p \in NotePaths, content \in {"absent", "other"} :
       note' = [note EXCEPT ![j][p] = content]
  /\ UNCHANGED <<row, older, artifact, inbox, receipt, rejected, staged, archive, volatile>>

EditArchive(j) ==
  /\ Disturb
  /\ \E p \in ArchivePaths, content \in {"absent", "other"} :
       archive' = [archive EXCEPT ![j][p] = content]
  /\ UNCHANGED <<row, older, artifact, inbox, receipt, rejected, staged, note, volatile>>

\* The program stops: a crash, or a shutdown whose 15 s drain ran out.
Crash ==
  /\ Disturb
  /\ pc' = "boot"
  /\ op' = "resume"
  /\ cur' = NoJob
  /\ ret' = "cleanup"
  /\ mem' = NoRow
  /\ processed' = NoResult
  /\ failure' = "permanent"
  /\ path' = NoPath
  /\ stuck' = {}
  /\ pending' = {}
  /\ ready' = {}
  /\ batch' = [j \in Jobs |-> NoRow]
  /\ UNCHANGED durable

-----------------------------------------------------------------------------
\* What the program does by itself.
RunnerStep ==
  \/ Boot \/ Poll \/ RetryCleanup \/ ScanReady \/ ListRecoverable \/ BatchDone
  \/ \E j \in Jobs : SkipExisting(j) \/ CleanExisting(j) \/ Claim(j) \/ BeginJob(j)
  \/ ClaimReceipt \/ Provision \/ RefuseClaim \/ InsertClaimed
  \/ RejectStatus \/ RejectDurable \/ InsertLocal
  \/ RunStage \/ Receipt \/ RunProcessor \/ RunWriting
  \/ ArchiveSource \/ RecordArchive \/ KeepArchive
  \/ WriteNote \/ RecordNote \/ KeepNote \/ StopOnConflict
  \/ CompletedReceipt \/ Complete \/ Finalized
  \/ FailJob \/ FailUnrecorded \/ FailReceipt
  \/ CleanStaging \/ CleanQueue \/ CleanWarning

\* Failures of what it calls.
FaultStep ==
  \/ ScanFails \/ ReceiptFails \/ ProvisionFails \/ AdmitFails \/ InsertLocalFails
  \/ StepFails \/ CommitUnseen \/ CleanWarningFails
  \/ \E j \in Jobs : CleanExistingFails(j) \/ ClaimRejects(j) \/ ClaimFails(j) \/ BeginJobFails(j)

OutsideStep ==
  \/ Crash
  \/ \E j \in Jobs : \/ Deliver(j) \/ Redeliver(j) \/ EnqueueLocal(j) \/ RetryJob(j)
                     \/ EditNote(j) \/ EditArchive(j)

Next == RunnerStep \/ FaultStep \/ OutsideStep

Spec == Init /\ [][Next]_vars

\* The polling timer is set again after every poll and the serial queue runs
\* every operation to its end; nothing else is promised to happen.
FairSpec == Spec /\ WF_vars(RunnerStep)

-----------------------------------------------------------------------------
(* Properties.                                                             *)

\* Every row can be read back: no write, the rewind of #prepareRecovery and the
\* cleanup warning included, leaves a row that JobSchema refuses.
RowsReadable == \A j \in Existing : JobSchema(row[j])

\* The automatic retries of a job never exceed MAX_AUTOMATIC_RETRIES, however
\* failures, crashes and the user's retries alternate.
RetriesBounded == \A j \in Existing : row[j].retry <= MaxAutomaticRetries

\* The rows a run still has to take up are the rows in the table, and so is the
\* runner's copy while it works on one: the revision check of update() is met
\* except where a commit went unseen.
CopiesFresh ==
  /\ \A j \in Jobs : batch[j] # NoRow => batch[j] = row[j]
  /\ pc \in FallibleSteps \cup {"failReceipt"} => mem = row[cur]

\* A completed job has both outputs on record, and the phone is told so: its
\* receipt is not overwritten by a failed or processing one afterwards.
CompletedIsBacked ==
  \A j \in Jobs : Has(j, "completed") =>
    /\ \A kind \in ArtifactKind : artifact[j][kind] # NoArtifact
    /\ j \notin LocalJobs => receipt[j] = "completed"

\* The phone reads "completed" only of a submission whose outputs are on record,
\* also when a crash comes between the receipt and the completion.
ReceiptIsTrue ==
  \A j \in Jobs : receipt[j] = "completed" =>
    \A kind \in ArtifactKind : artifact[j][kind] # NoArtifact

\* The source is kept: a job that is not completed has its staged source, a
\* bundle leaves the inbox only after its job is completed, and a copy in the
\* vault that a stop left off the record is adopted: there is never a second one.
SourceKept ==
  \A j \in Jobs :
    /\ j \in Existing /\ ~Has(j, "completed") => staged[j]
    /\ inbox[j] \in {"removed", "redelivered"} => Has(j, "completed")
    /\ \A p, q \in ArchivePaths : archive[j][p] = "source" /\ archive[j][q] = "source" => p = q

\* What a completed job left behind is on record: without a cleanup warning the
\* bundle it came from is gone and so is singleton staging.
NothingLeftSilently ==
  \A j \in Jobs : Has(j, "completed") /\ row[j].warning = "null" =>
    /\ inbox[j] # "present"
    /\ j \in SingletonJobs => ~staged[j]

\* A submission that was rejected for good has no job, and never gets one.
RejectedHasNoJob == \A j \in Jobs : rejected[j] => row[j] = NoRow

\* The same sources of the same course make one job, whether they come from the
\* phone or the PC and however often.
OneJobPerSource ==
  \A j, k \in Existing : j # k => Fingerprint[j] # Fingerprint[k]

\* Recovery never sends a job whose sources are staged back to receiving them;
\* only the user's resolution starts it anew.
StagedWorkIsKept ==
  [][\A j \in Existing :
       /\ row[j].status # "needs_attention"
       /\ StatusIndex[Checkpoint(row[j])] >= StatusIndex["source_ready"]
       => StatusIndex[Checkpoint(row'[j])] >= StatusIndex["source_ready"]]_vars

\* The runner never writes over a note that is the user's.
UserNotesKept ==
  [][pc' # pc => \A j \in Jobs, p \in NotePaths :
       note[j][p] = "other" => note'[j][p] = "other"]_vars

Promise == INSTANCE JobPromise WITH
  Kinds    <- ArtifactKind,
  phase    <- [j \in Jobs |->
                 IF rejected[j] THEN "refused"
                 ELSE IF row[j] = NoRow THEN "submitted"
                 ELSE IF row[j].status = "completed" THEN "completed"
                 ELSE IF row[j].status = "needs_attention" THEN "attention"
                 ELSE "pending"],
  recorded <- [j \in Jobs |-> {kind \in ArtifactKind : artifact[j][kind] # NoArtifact}]

\* The runner implements the promise.
KeepsPromise == Promise!Spec

\* What stays in the inbox whatever the runner does: the bundle of a job that
\* waits for the user, and one that iCloud brought back (removeCompleted refuses
\* it, its reservation is gone).
Lingers(j) ==
  \/ inbox[j] = "present" /\ Has(j, "needs_attention")
  \/ inbox[j] = "redelivered"

\* Such bundles, listed before j, fill the window of a poll (jobRunner.ts:246).
Crowded(j) ==
  Cardinality({k \in Jobs : Lingers(k) /\ Place[k] < Place[j]}) >= MaxReadyJobsPerPoll

\* Every bundle that arrives becomes a job or is rejected, whatever crashes and
\* failures come between, unless again and again the window of the polls is full
\* of bundles that linger: those behind it are starved, which the code allows.
\* Nothing else starves a bundle: not work in progress, nor what is left to clean.
BundlesSettle ==
  \A j \in Jobs \ LocalJobs :
    []<>Crowded(j) \/ (inbox[j] = "present" ~> row[j] # NoRow \/ rejected[j])

\* Every job is completed or waits for the user, over and over: none is left in
\* between by a crash, a failure or a commit that went unseen.
JobsSettle ==
  \A j \in Jobs :
    row[j] # NoRow ~> Has(j, "completed") \/ Has(j, "needs_attention")

\* Debts of older jobs whose bundle iCloud brought back, which no retry settles,
\* fill the list of clean-ups to try again (jobRunner.ts:688).
Outdebted(j) ==
  Cardinality({k \in Existing : k < j /\ row[k].warning # "null" /\ inbox[k] = "redelivered"})
    >= MaxCleanupRetriesPerPoll

\* What is left of a completed job is in neither list of a poll that comes to it.
Starved(j) ==
  /\ inbox[j] # "removed" => Crowded(j)
  /\ row[j].warning # "null" => Outdebted(j)

\* In the end nothing is left of a completed job, and its row says so; or iCloud
\* has brought its bundle back, and the row's warning tells of it.  Excepted are
\* the jobs that are starved again and again.
CleanupConverges ==
  \A j \in Jobs \ LocalJobs :
    \/ []<>(Has(j, "completed") /\ Starved(j))
    \/ Has(j, "completed") ~>
         IF inbox[j] = "redelivered"
         THEN row[j].warning \in {"QUEUE_CLEANUP_FAILED", "STAGING_AND_QUEUE_CLEANUP_FAILED"}
         ELSE inbox[j] = "removed" /\ row[j].warning = "null"
=============================================================================
