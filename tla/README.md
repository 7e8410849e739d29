# Lecture Study Assistant: a TLA+ verification project

The application takes lecture recordings and course material from an iPhone
(through a directory in iCloud Drive) or from the PC (file picker), and turns
every submission into a *job*: the source is copied to staging, processed,
archived into an Obsidian vault with a note, and reported back to the phone by a
receipt.  There is one PC process; all of its state that matters is in SQLite
rows and in files of three directory trees that others may write to (the queue,
the staging root, the vault).  It may stop at any time.

This directory states what that pipeline promises, models the code that keeps
the promise, checks the models with TLC and proves the central facts with TLAPS.

## 1. Inventory

| Component | State it keeps | Operations | Talks to |
|---|---|---|---|
| Job state machine (`core/jobs/stateMachine.ts`, `shared/contracts/job.ts`) | none (pure) | `transitionJob`, `classifyFailure`, `resumeStatus`, `JobSchema` | job runner, application shell |
| Job runner (`application/jobs/jobRunner.ts`) | serial promise tail; `current` and `processed` of the running job | `pollOnce`, `resumeInterrupted` | job tables, queue, vault, processor, archiver, cleaner |
| Job tables (`infrastructure/db/sqliteJobRepository.ts`, `...SourceBundleRepository.ts`, `...JobArtifactRepository.ts`) | rows with a revision | conditional `update`, `insertJobWithBundle` in one transaction, listings | SQLite |
| iCloud queue (`infrastructure/queue/*`) | observations of bundles, directory cursors; on disk: inboxes, claim reservations, receipts, rejections | `scanReady`, `claim`, `writeReceipt`, `writeRejection`, `removeCompleted` | iCloud Drive, staging |
| Source archiver, staging cleaner (`application/jobs`) | none | `archive`, `cleanup` | vault, staging |
| Local source intake (`application/jobs/localSourceIntake.ts`) | serial promise tail | `enqueue` | staging, job tables |
| Vault writer (`infrastructure/vault/vaultWriter.ts`, `infrastructure/filesystem/atomicWrite.ts`) | none | `writeMarkdown`, `copyAttachment`, `atomicReplace` | vault |
| Application shell (`main/foundationApplication.ts`) | serial promise tail, polling timer, runtime | `initialize`, `retryJob`, `enqueueSources`, `pollOnce`, course operations, `shutdown` | everything above |
| Course service, vault index rebuilder (`application/courses`, `application/jobs/vaultIndexRebuilder.ts`, `infrastructure/queue/jsonCourseCatalog.ts`) | `#synchronizationIssues`; course rows, course notes, the index in the main note, the catalog file | create, provision, update, archive, restore, synchronize, rebuild | vault, queue, application shell |
| Managed notes, workspaces, question inbox (`application/obsidian`) | note revisions, serial queues per course | publish, merge, poll questions | vault |
| Content pipeline (`application/content`, `infrastructure/filesystem/jsonPipelineArtifactStore.ts`, `main/contentPipelineRuntime.ts`) | one payload file and one row per stage; the signal of the runtime's life | prepare, look up, execute, commit a stage; hand over; shut down | provider router, prompt profiles, job runner |
| Prompt profiles (`application/prompts`) | versions of the instructions, global, per course and per feature | save, reset, restore, snapshot | content pipeline |
| Provider router and limits (`application/providers`, `core/providers`, the invocation and diagnostic tables) | leases and queue per provider, the requests in flight, rows of attempts, diagnostics with a revision | execute, abort, shutdown | adapters |
| Provider API adapters (`infrastructure/providers/api`) | per call: private copies of the sources, one exchange, a timer | execute, inspect, listModels, probe | HTTP services |
| Provider CLI adapters (`infrastructure/providers/cli`) | drive letters with reference counts and marker files; per call: request directories, a child process, for Antigravity a shared profile | execute, inspect, listModels, probe, cancel | processes, `subst`, files |
| Settings, secrets, diagnostics, migrations, source metadata | rows | CRUD with revisions | SQLite |
| iPhone script (`mobile/scriptable/StudyAssistant.js`) | none between runs; on iCloud: hidden upload directories, reservations, bundles | enqueue, status | iCloud Drive |
| Obsidian renderers, renderer, tray, windows, IPC | UI state | — | application shell |

What is hard about it: every step of a job is separated from the next by an
await, and most of them leave something behind that outlives a crash; the
database, the receipts and the vault are never written together; iCloud delivers
late, again, or half; the user edits the same vault; failures are retried from
checkpoints while the limits per poll bound how much is looked at.  The list of
hazards, each at its line, is in `PROJECT.json`.  Around the pipeline there is as much again:
requests to six providers run concurrently under limits, time-outs and aborts, three of them
in child processes that may outlive whoever waits for them; a cached result of a stage must not
outlive the settings it was made with; and the phone, the PC and the user write one directory
without ever meeting.

For each part, what makes it correct:

| Part | Correct if |
|---|---|
| Job runner, queue, vault writer | no source and no text of the user is lost, an outcome told is true, a bundle in the queue comes to an end |
| Notes, inbox, workspaces | what the user wrote stays, what was accepted stays, what the manifest lists is there |
| Courses and phone | the catalog lists the courses there are; a bundle is whole, refused only for a reason that stands, and told about truthfully |
| Content pipeline | a result is one chain made with what is saved now; nothing is paid for twice; the database is closed last |
| Provider router and adapters | leases are neither lost nor invented; a request always settles and is accepted only if nobody took it back; what a call leaves behind is told |
| Parsers of answers | exactly the agreed answers are taken, and the use of a tool is told as that |

## 2. Modules

| Module | Stands for |
|---|---|
| `JobStateMachine` | the pure operators of the status machine and of the row schema |
| `JobPromise` | what a submitter is promised, without any of the machinery |
| `JobRunner` | the runner with everything a job touches, one step per await |
| `ClaimLease` | what a reader of the queue may learn about a claim |
| `QueueClaim` | the queue on disk: reservation files, bundles, removal, one file operation per step |
| `VaultWriter` | the replacement of one file of the vault, with the user at the same files |
| `QuestionInbox` | the question inbox of a course: polls, publications and the user at one managed note |
| `CourseWorkspace` | the publication of jobs into their courses: notes, canvas, dashboard, and the manifest that commits them |
| `CallPromise` | what a caller of the router is promised |
| `ApiCall` | one call of an HTTP adapter: copies of the sources, key, exchange, body, time-out, abort |
| `ProviderRouter` | the router with its limits, retries and tables, around `ApiCall` |
| `CliCall` | calls of the Codex adapter with their processes, directories and drive letters |
| `ProviderAnswers` | the parsers of the six providers, and what a sound answer is (no state) |
| `AntigravityCall` | a call of the Antigravity adapter, and for every provider the answer a call gets |
| `ContentPipeline` | the six stages of a job's content, their files and rows, the end of the program |
| `CourseService` | courses: row, note, main note, catalog, and the rows restored from notes at start |
| `PhoneQueue`, `PhoneStatus` | the two actions of the iPhone script |
| `CourseDelivery` | the phone, the courses and the PC's polls together |
| `MC...` | values for the model checker, one per checked module |
| `JobRunner_proofs`, `QueueClaim_proofs`, `QuestionInbox_proofs`, `ProviderRouter_proofs`, `CliCall_proofs`, `AntigravityCall_proofs`, `CourseDelivery_proofs` | theorems about the module of the same name |
| `Results_proofs` | theorems about `ContentPipeline`, `CourseWorkspace` and `VaultWriter` |

`JobRunner` sees the queue's calls `claim` and `removeCompleted` as single steps
that work or fail.  `QueueClaim` takes these two calls apart, and sees the runner
as the two steps that matter to it (the insertion of the job, its completion).
Likewise the vault writes of `JobRunner` and `QuestionInbox` are single steps, and
`VaultWriter` takes one of them apart.  `QuestionInbox` takes a publication of
`ManagedNoteService` apart for one note; `CourseWorkspace` has many notes, and a
publication of one of them is a step.  `ContentPipeline` sees a request to the router as one
step; `ProviderRouter` takes it apart, and sees a call of a command line as one step, which
`CliCall` (Codex) and `AntigravityCall` take apart in turn.  `CourseDelivery` composes three
modules by extension: it has the PC's poll, of which `JobRunner` has the rest, as the two steps
that ask for a course and judge the bundle.

### JobStateMachine

A row is reduced to the six fields the machine reads or writes.  `revision` and
`updatedAt` are left out: every write changes the row, so the test of the
revision in `UPDATE ... WHERE revision = ?` decides exactly whether the row still
is the one the writer read (`RowIs` in `JobRunner`).  An error is reduced to the
retry policy of its code.

### JobRunner

| Variable | In the program |
|---|---|
| `row`, `older` | the `jobs` table and the order of `updated_at` |
| `artifact` | the `job_artifacts` table |
| `inbox`, `receipt`, `rejected` | `Inbox/<id>`, `Status/<id>.json`, `Rejected/<id>.json` |
| `staged` | `staging/<id>` |
| `archive`, `note` | the copies of the source and the recording notes in the vault, at the desired and at the generated path |
| `pc`, `op`, `cur`, `ret` | the await the serial queue stands at, in which operation, for which job |
| `mem`, `processed`, `failure`, `path` | locals of `#runJob` and `#writeRecordingNote` |
| `pending`, `ready`, `batch` | what is left of the three lists of a poll |

Each action is one await of the code with the synchronous code that follows it.
An action that writes to the disk and the action that records the write in the
database are separate, so a `Crash` or a `StepFails` fits in between.  `RunnerStep`
is what the code does when nothing goes wrong, `FaultStep` the failures of what it
calls, `OutsideStep` the phone, iCloud, the user and the crash.

The slips (operators marked `Slip:`) are the bugs the properties are tested
against: each is the body of an operation the way somebody could have got it
wrong.  No specification uses them.

### QueueClaim

| Variable | In the program |
|---|---|
| `bundle` | the directory `<inbox of the lane>/<id>`: a signature (`stamp`) and contents |
| `marker`, `anchor`, `quarantine` | the three names a reservation file may have, with the file's identity (device and inode) at each |
| `content` | what a reservation file holds: nothing, or lane and claim token |
| `cleanup`, `left` | `Rejected/.completed-<lane>-<id>` and how many entries it still has |
| `staged` | `staging/<id>` under its final name |
| `rejected`, `receipt`, `job`, `owed` | the durable rejection, the receipt's status, the lane the job came from, the cleanup warning of its row |
| `observed` | the map `#observations` |
| `pc`, `run` | the await `claim` or `removeCompleted` stands at, and their locals: token, reservation, what was created, whether the commit started, the error's code |
| `stamp`, `disturbances` | bounds |

One job id is modelled: every path of these operations holds the id, and the queue
works on one id at a time.  What a call reads of the three names is read in one
step: nobody but the queue writes them, and the queue is serial.  What it writes is
one step per link, rename or unlink, because a crash may fall between any two.
iCloud may put a bundle, change it (in place or already moved away for removal) or
withdraw it between any two steps.

`ClaimLease` knows four states of a claim (free, being written, held for a token,
committed) and no way back but a release.  `Lease` maps the three names to one of
them, so that `CommitIsAtomic` says: the moving of files during a commit, a failed
commit and its recovery does not show.

### VaultWriter

| Variable | In the program |
|---|---|
| `file` | the target and its conflict names in one directory |
| `temp`, `backup` | the two recovery files of the last operation |
| `known` | which of them the operation would name: `tempCreated`, `backupCreated`, the recovery tokens |
| `pc`, `op` | the await `atomicReplace` stands at, and its input: the new text and the expected base |
| `sel`, `tries` | `finalTargetPath` with `replaceExisting`, and `targetSelectionAttempts` |
| `outcome` | how the last operation ended |
| `late` | the windows in which the user changed the selected file |

An expected base is a text (the caller's hash of it), no file, anything
(`expectedBaseHash` not given) or, for attachments, no file or the same bytes.
`rename` replaces what is at its destination, `link` fails there: this is the
difference between the restore of the backup and the publication of the new text.
The user changes any file between any two steps (`Edit`).  Between the last look at
a file and the rename or link that relies on it nothing holds the file; an edit of
the selected file there is recorded in `late`, so that the properties can say
exactly which texts may be lost, and no more.

### QuestionInbox

| Variable | In the program |
|---|---|
| `file` | the note: its generated part (`gen`), the user's region, and whether its markers are in order |
| `base` | `generatedBase` of the head revision in `managed_note_revisions` |
| `committed` | the manifest of the course lists a publication, so the evidence of an answer exists |
| `observed`, `offset` | `#observed` and `#questionOffsets` of `QuestionInboxService` |
| `pc`, `run` | the await the one task stands at which `runWorkspaceExclusive` lets in, and its locals |
| `disturbed`, `overrun` | history: the user has touched the generated part, or a write is on disk without its revision; a pinned write has replaced something other than it had read |
| `edits`, `faults` | bounds |

A text is reduced to what the merge and the parser compare: a number for the
sections and properties of the generated part, the answers, the property
`question_count`, and for each line of the user's region its wording and whether it
has an id.  The ids themselves, the provenance of an answer and the byte limits are
left out; `MaxSections` stands for the capacity.  `threeWayMarkdownMerge` becomes
`Conflicting` (any difference of the generated part from the base, or damaged
markers) and `Merged` (the candidate with the user's region of the note).

A poll is a chain of awaits: it looks twice (`Look`), publishes the count, gives ids,
takes a batch (`Evidence`) and asks one question after the other (`Turn`, `Ask`,
`Answer`).  Its publications and those of the jobs are the same steps of
`ManagedNoteService.publish` (`Read` to `Audit`), with the writer pinned to the note
of the poll where the code has `#pinnedWriter`.  The user may edit any line, the
generated part, the markers or the file at every await (`Edit`).

### CourseWorkspace

| Variable | In the program |
|---|---|
| `file` | the managed notes of the vault: the generated part, the user's region, and whether the generated part is untouched |
| `head` | the head revision of each note in `managed_note_revisions` |
| `canvas` | the canvas of each course: the jobs whose lectures and attachments its graph shows |
| `manifest` | `workspace-manifest.json`: jobs, and the hash of every note and canvas |
| `lease` | `workspace-publication.lock` exists |
| `stage` | per job: its publication is to do, it has returned, the job is done |
| `pc`, `run` | the await the publication in `runWorkspaceExclusive` stands at, and its locals: what `#priorNotes` found, and `accepted` |
| `disturbed` | history: a generated file was touched by hand or cut off from its row, or a lease was left |
| `edits`, `faults` | bounds |

A generated part is reduced to the jobs that have sections in it, the job its
properties and its revision are of, and the number of answers.  Notes to which jobs
add (`Notes`) keep the sections of the others (`Content`); the hub of a course and
the dashboard are made afresh every time.  The order of the notes within a
projection is left open (`Due`): no property depends on it.  The canvas stands for
the base and the mind map as well, which go the same way.  The user may write into
a region, touch a generated part, a canvas or a lease at every await, answers arrive
between publications, and a failed job starts again whenever it likes.

### ProviderRouter and ApiCall

| Variable | In the program |
|---|---|
| `route`, `diag`, `rows` | `provider_routes`, `provider_diagnostics` (status, model, revision), `provider_invocations` (the status of each attempt's row) |
| `phase`, `snap`, `turn`, `answer` | per request: the await `execute` stands at, the snapshot it took, its attempts, and how its promise settled |
| `active`, `queue`, `stopped`, `drain` | `ProviderConcurrencyLimits` and the state of `shutdown` |
| `aborted` | the request's signal |
| `stage`, `verdict`, `socket`, `space` | per call: where the adapter is, what it will end with, each attempt's exchange, the directory of copied sources |
| `closes`, `disturbances` | bounds |

Requests run at the same time; an action is what runs from one await to the next.
A code of the program is a model value, a response is its status and the four kinds
of body the parsers tell apart.  The microtask between the grant of a lease and the
call is a step of its own (`Start`), so an abort or the shutdown may come there.  A
response may arrive after the timer or the abort has won (`LateResponse`).
`OutcomeOf` maps a request to what its caller sees, which is the state of
`CallPromise`.

### CliCall

| Variable | In the program |
|---|---|
| `mapped`, `marked`, `child`, `space`, `taken` | the machine, which survives the program: what a drive letter stands for, its marker file, the processes, the private directories, letters removed by others |
| `place`, `refs`, `poisoned`, `busy`, `fresh` | the alias manager: `#activeByTarget` with its references, the flag after which it refuses everything, its serial queue, and the letter between two of its writes |
| `at`, `run`, `part` | per call the two threads: the adapter, and the runner of its present process with what that process is for |
| `aborted`, `fail`, `inner`, `hold` | the signal, what the call and its runner will end with, the leases they hold |
| `limits`, `roots` | bounds, and whether the program is installed below the user's profile |

The runner goes on when the adapter's final check passes its deadline
(`CheckOverdue`), which is how a call can be over with a process alive.  A crash
leaves the machine as it is and loses the rest.  The first-come queue of the alias
manager is mutual exclusion here; two processes that ask for capabilities and the one
that looks at the credential are one.

### ProviderAnswers and AntigravityCall

An answer is the sequence of its items and the way it ended, an item one of the
kinds its parser tells apart.  Each parser is written check by check in the order of
the code (`Stop` picks the first that refuses), and beside it stands what a sound
answer is (`SoundAnswer`, `SoundList`), which knows no order of checks.

| Variable | In the program |
|---|---|
| `provider`, `op`, `limits` | whose answer, which of the four operations, bounds |
| `items`, `ending`, `verdict` | the answer of the process under way, and what the parser said |
| `at`, `part`, `fail` | the await the adapter stands at, which of the processes of a round, what the call will end with |
| `aborted`, `attached`, `told` | the operation registry: the signal, whether the child's runner is known to it and has been told |
| `lease`, `sound`, `profile`, `dirs`, `process` | the drive letter's lease, the shared profile that denies the tools, the request's directories, the child |

A call of another provider than Antigravity is only its answer here; what is around
it is in `CliCall` and `ApiCall`.  One call at a time is modelled.

### ContentPipeline

| Variable | In the program |
|---|---|
| `routes`, `profiles`, `topics` | the saved routes, instructions and topics, as versions |
| `payloads`, `damaged`, `rows` | the files written so far (a hash is a position), those that cannot be read, and the row of each stage |
| `attempt` | `process` of one job: its await, its stage, the chain of payloads so far, what it has snapshot |
| `pass`, `polling`, `aborted` | the application's exclusive operation, the timer, the signal of the runtime's life |
| `quit`, `drained` | how far the end of the program has come |
| `finished`, `budget` | the job has its content; bounds |

A version is 0 or 1, so a change and its reversal look like no change at all: this
is the case that reading a saved value twice does not see.

### CourseService, PhoneQueue, PhoneStatus and CourseDelivery

| Variable | In the program |
|---|---|
| `rows`, `note`, `index`, `catalog` | the table of courses, the course notes, the block in the main note, `Catalog/courses.json` |
| `issues` | `#synchronizationIssues` |
| `op`, `pc`, `answer` | the operation in `#runExclusive`, the await it stands at, what it came to |
| `edited`, `loose` | history: files the user changed meanwhile; rows that changed with nobody left to tell the catalog |
| `stage`, `pick`, `lane`, `lease`, `tries`, `seen`, `step`, `cut`, `told` | per run of the script: where it is, the course, the lane, the job id, the snapshot of the sources, what it showed |
| `box`, `reserved`, `files`, `offered`, `refused` | the queue and the sources as the phone sees them; the catalog as iCloud last brought it |
| `receipt`, `asked`, `owed`, `listed`, `tally`, `unread` | `Status/<id>.json`, and the status run with what it has listed and counted |
| `ready`, `claim`, `verdict` | what is left of the list a poll works off, the bundle it is at, and what it made of each |

`Scan` takes the first ready bundles, `CourseInbox` before `Inbox` and in the order of their
directories (`Place`), as many as a poll has room for; `Skip` passes over one whose job exists, which
stays in the lane as long as its job does and so goes on taking room.  A claimed bundle is judged in the order of
the code: what its course came to, whether the course is active, whether another bundle of the same course
and the same sources has a job (`Twins`, `findByFingerprint`).

Two runs of the script may overlap, the user edits sources between any two of its
steps, and iCloud brings the catalog whenever it likes.

`ChooseVault` is `FoundationApplication.chooseVault`: the same vault again or a fresh one,
with a service made anew (so the issues shown are forgotten), whose `synchronize` writes
every note there.  `pc = "off"` is a program without a runtime, because it does not run or
because `#reconfigureRuntime` threw; either way the next thing is a start (`Start`), which
connects the vault, and thereby writes a missing main note, before it restores rows.

## 3. Runs

| Run | Instance | Shows |
|---|---|---|
| `one` | one bundle, singleton staging, two possible processor results, one automatic retry, 4 disturbances | receipts are true, sources are kept, and the runner implements `JobPromise` |
| `live` | a bundle, a PC selection and a bundle of the same sources; each limit of a poll 1, so that one stuck entry fills it; 1 disturbance | everything settles, bundles, jobs and cleanups, except what waits behind as many stuck ones as a poll has room for |
| `lanes` | one id in both lanes, sound and unsound contents, 2 deliveries or changes, 2 entries, 3 file identities, 3 disturbances of any kind | a claim is backed, only the claimed is deleted, a commit is atomic (`ClaimLease`), every bundle is taken or refused, an owed cleanup is carried out where nothing interferes |
| `replace` | 3 texts, the target and one conflict name, all 8 attempts, any number of failures, crashes and edits | nothing is lost but what was agreed to, operations end |
| `answers` | 3 questions of which 2 can never be answered, a batch of 2 and room for 1 answer, 2 texts of the generated part, 3 edits, 1 failure or crash | answers fit and stay, a conflict has a cause, and the third question is answered |
| `commit` | three jobs, two of them of one course, a note with answers and one without, 1 edit or answer, 1 failure or crash | what a failed publication has left is kept by the next one of another job; every job is committed in the end |
| `republish` | one job, 1 edit, 1 failure | the violation described below |
| `router` | two requests at an HTTP provider, one with a picture; one request with two failing writes, changed routes or checks; three that take turns at a command line; aborts and a shutdown at any moment | leases, rows, leftovers and diagnostics agree, and the router implements `CallPromise` |
| `cli` | four workloads of one or two calls with two letters: abort, tampering and two failures; a failure among two calls; a crash among two; a crash, two failures and the cleaning of stale letters | a process that may be alive has its letters and directories, leftovers are told (but for one refused clean-up, below), calls end |
| `streams` | the answers of all providers up to 6 items for Codex and the Gemini command line and 4 for the others, with up to 2 items behind the one that spoils them; lists up to 3; the calls of Antigravity with up to 2 failures, tampering and a cancellation | only agreed answers are taken, tools are told as tools, a cancelled request is never done, residue is told |
| `pipeline` | one job of 2 sources with three budgets: two changes; a change, a failure and a crash; a failure, a crash, a lost file and two quits | a result is one current chain, a commit is current, nothing is paid for twice, the database is closed last |
| `delivery` | five workloads: two overlapping runs of the script; one run with an edit and a fault, with a command and a fault, with a fault and the status action; and the PC alone with two commands, two faults and an edit; 3 courses, one of them known only from a note; one bundle to a poll | the catalog tells the rows, the phone is told the truth, a bundle is a cut through its sources, refusals are earned, deliveries settle that are not kept behind bundles that stay |

`MaxDisturbances` bounds faults, crashes, edits, redeliveries and retries of the
user together.  Four are enough for every pattern the properties of the runner
speak of: a failure, the failure of its handling, a crash and a user's step.  A
second automatic retry repeats the first, so `MaxAutomaticRetries` is 1; the
theorems hold for any value.  Jobs interact only through the fingerprint, the order
of the lists and the limits, hence one job by itself under many disturbances, and
three together under one.  In the queue three disturbances
are a failed commit, its failed recovery and the crash after it.  Two deliveries
are a bundle in each lane, or a bundle and its change.  Three file identities are
one in use, one left under an older name and a fresh one.  Two entries are the
fewest between which a removal can stop.  The vault writer needs no bound on
faults or edits: a new operation forgets the recovery files of the one before it,
and its states are finite.  Three texts are the old one, the new one and the one of
the user; with one conflict name both cases occur, that a name is free and that
none is.  In the inbox a batch must be smaller than the number of questions and the
hopeless questions must fill it, hence 3, 2 and 2.  Three edits are one that makes a
question, one that changes the note under a task and one that changes it back; the
fault meets any await.  With room for one answer the run also covers the full inbox.
Publications interact through the notes of one course and through the dashboard and
the manifest of all, hence two jobs of one course and one of another.  One failure cuts one publication
at any await, and the two other jobs meet what it left.

An HTTP provider has two slots and the command line one, so two requests meet at the
first and three form a queue at the second, where the second of the queue can time
out or be aborted while the first is handed the lease.  Requests meet only in their
limit and in the diagnostic; what goes wrong within one call does not depend on the
others, so failing writes and changed settings have one request by themselves (the
theorems have all of it at once).  Four statuses are one for success, one that may
not be read as an error, one that is classified by its body and one that is retried.
`CliCall` has two calls because a letter is shared by two or by none, and two letters
because a program below the profile needs both roots.  Six items
are two more than the shortest answer Codex may give, which makes room for two thoughts or
pieces.  A spoilt answer needs no more than two items behind the
spoiling one, since the parsers look for the signs of a tool anywhere and for the
rest in order.  In `ContentPipeline` two changes are one and its reversal; a second
source makes a stage of several requests.  In `CourseDelivery` two names of two
folders and three courses let two ids meet in a folder; two runs lease two ids, and a
fault and an edit fall between any two steps.

*Fairness.*  `JobRunner` has `WF_vars(RunnerStep)`: the polling timer is set again
in a `finally` after every poll, and the promise tail runs every queued operation
to its end, so the program never stops with something to do.  Nothing is assumed of
the phone or the user, and faults are finite because disturbances are.
`QueueClaim` has the same weak fairness for `ScanStep`, `ClaimStep` and
`RemoveStep` together, and strong fairness for `ScanSees`: the directory cursors
of the scan come round to every entry, so polls that do not reach the bundle cannot
go on for ever.  `VaultWriter` has `WF_vars(WriterStep)`, and nothing is assumed of
the user, who may change the file at every look: it is the limit of 8 attempts that
makes `OperationsEnd` true.  `QuestionInbox` has `WF_vars(TaskStep)`, because the task in
`runWorkspaceExclusive` always runs to its end, and `SF_vars(Poll)`: polls and
publications wait in one queue that is first come, first served
(`workspaceSerialQueue.ts`), and the polling timer asks again after every poll, so a
poll cannot be overtaken for ever although every single publication disables it.
`CourseWorkspace` has `WF_vars(PublicationStep)` for the same reason, `SF_vars(Publish(j))`
because a job whose publication has failed starts again (by itself, or by the user's
retry) while other publications keep it waiting, and `SF_vars(Complete(j))` for the
runner behind it.

`ProviderRouter` has weak fairness for `RequestStep` (continuations of settled promises)
and `LocalStep` (files, keys, child processes and timers of this machine) of each request, and none
for what a server does: it is the request's timer that makes an unanswered call end.
`CliCall` has it for each runner and each adapter, since every command and file
operation has a time-out, and none for a child's exit, the user or the deadline of the
last check.  `ContentPipeline` has it for the steps of the event loop, the polling timer
and the user's opening the program again.  `CourseDelivery` has it for the service, for
`Judge`, for the opening of the program, for `Scan` (the timer is set again after every poll)
and for the work on its list (`Skip` and `Take` of whichever bundle is next).  There is none for the
single bundle: whether a list comes to it is up to `scanReady` and the limit.  The phone
and its user owe nothing.  `AntigravityCall` states no fairness, as nothing there is
about what must happen.

*A limit of the liveness in `lanes`.*  `BundleSettles` exempts behaviours in which a
claim is orphaned.  A bundle that is withdrawn in the middle of a commit, with a crash there, leaves staged sources and
a reservation in its lane; the same id published in the other lane afterwards finds
staged sources it does not own and is put off with `COPY_FAILED` at every poll.
Nothing in the repository speaks of an id that changes its lane.

*The finding.*  `republish` / `JobsComplete`: a job that fails behind the commit of its
publication finds itself in the manifest when it starts again, and compares every note
with the hash of the commit.  The hash covers the user's region, so a word written
there in the meantime, in any note of any course, or an answer of the inbox, makes
every retry fail until another job publishes.  A test expects that `publish`
"converges on retry".

*Refuted, with the statement in its module but no run.*

- `QueueClaim.SoundIsNotRejected`: a bundle that iCloud touches after the commit of
  its claim keeps its old reservation, whose token no longer fits; the next claim
  refuses the bundle for good.  `src/src/tests/integration/icloudQueue.test.ts:1956` expects
  a retry in a case next to it.
- `QueueClaim.CleanupFinishes`: a removal cut between two entries leaves a
  directory that no longer validates as complete, and every retry fails there.
  `CleanupResumes` says what does hold.
- `VaultWriter.LateEditsSurvive`: a text that the user saves between the last
  comparison and the rename goes to the backup unseen, and the backup is deleted.
  `NothingIsLost` says that this window, and that of the restore, are the only ones.
- `CliCall.CancellationIsClean` (instance `MCCliCall_cancelled.cfg`): a call is aborted
  while `subst` is about to map its letter.  The rollback unmaps the letter, the unmapping
  refuses one that is not mapped (`windowsSubstMapping.ts:202-217`), and the alias manager
  is poisoned for the rest of the program's life; the call ends with residual data though
  nothing is left, and the router lowers the provider to `unsafe_version`.

*Met while modelling.*  Each of these is a behaviour of the models or a limit of them
that a reader of the code may want to know.

- A poll looks at the first `MAX_READY_JOBS_PER_POLL` ready bundles and skips those
  whose job exists; jobs that wait for the user keep their bundle in the inbox, so as
  many of them as the limit (5) hide every bundle behind them.  `README.md:3` of the
  repository promises that files in the queue are processed when the application runs
  again.  The cleanup retries (limit 20, oldest first) have the same shape.  So the code does not
  keep what `BundlesSettle`, `CleanupConverges` and `DeliveriesSettle` would say of every bundle and
  every debt: in `live` and `delivery`, with room for one, TLC refutes them when they are stated so.
  As they stand they exempt what is kept behind as many stuck entries as a poll takes
  (`Crowded`, `Starved`), and say that nothing else starves.
- A stop between the exclusive open of a reservation and its write leaves an empty
  file.  The next scan takes it for a collision of the lanes and refuses the bundle
  for good; for `BundleSettles` that is an end.
- A stop of `atomicReplace` between the rename to the backup and the link leaves no
  file at the target, and nothing looks for the backup later.
- In the catch of `atomicReplace`, `pathExists` is called without a guard.  If it
  fails, its error replaces the one with the recovery tokens (`CatchFails`;
  `LeftoversAreReported` leaves it out).
- The pinned writer of the inbox replaces the hash that `publish` has
  read by the one the poll began with.  If the note changes before that read and is
  changed back before the write, the comparison succeeds and the text read in between
  replaces the user's.  It takes three saves within one publication.  `overrun` records
  it, and `RegionKept` and `AnswersFit` exempt it.
- A stop during a publication leaves its lease, and every later publication fails
  until a hand removes the file.  A comment of the service says that this is meant.
- A failed publication leaves its canvas ahead of the manifest.  Other jobs of the
  course fail there until the first is tried again, for good if it never is.
- When the preparation of a request's files fails, `prepareRequestAtomic` cleans up without a guard
  (`nodeCodexManagedArtifacts.ts:157-158`).  If the clean-up is refused before it removes anything
  (a name that was not expected, a deadline), the call fails with the code of that refusal,
  `PROVIDER_UNSAFE_VERSION` or `PROVIDER_CANCELLED`, and the directory stays: residual data that is
  not told as such.  In `CliCall` the directory is then "kept", and `LeftoversAreTold` lets a failed
  call, and only such a one, leave it.
- `cleanupStale` has no caller: a crash during a call leaves its letters mapped and
  marked, up to two of the six each time, and its request directories.  Rows of attempts
  stay `running` after a crash, since `recoverInterrupted` is not called either.
- A 400 of Anthropic or Gemini with `invalid_request` counts as an incompatible model and
  lowers the provider for every request.
- Antigravity's `#runReserved` asks for a cancellation before it throws the failure it
  keeps (lines 640-646), so residual data of a cancelled call is told as a cancellation;
  Codex keeps the code (`codexCliAdapter.ts:328-334`, with a test of it).  `ResidueIsTold`
  leaves cancelled calls out.  The adapter is not wired into the program.
- A stage whose file is damaged while its row has the right identity fails at every
  attempt and is never written again.
- Courses of older notes that the second `rebuild` of a start inserts, behind
  `synchronize`, are told to no catalog and show no issue until the next change; `loose`
  records it.
- A broken course note or main note stops every publication of the catalog and,
  with it, every bundle that asks for a course; `DeliveriesSettle` exempts exactly that.
- A run of the script that is killed leaves its hidden directory and its reservation for
  ever.  A move that threw after it took effect, and whose bundle the PC has taken already,
  is shown as a failure.

## 4. Proofs

All theorems hold for any submissions, limits, bundles, file identities, questions, requests,
workloads and numbers of disturbances, from the assumptions on the constants alone
(`QueueAssumption`, `InboxAssumption`, `WorkspaceAssumption`, `RouterAssumption`,
`ApiAssumption`, `AntigravityAssumption`, `CliAssumption`, `CourseAssumption`, `PhoneAssumption`,
`PipelineAssumption`, `NoValues`, `NoTexts`, and those of `JobRunner`).  Every safety property that a
run checks and finds kept is stated by a theorem.  TLC evaluates these assumptions in every run.

Some properties are proved and no longer run, because the run's other properties need the
room: of `JobRunner` `RowsReadable`, `CompletedIsBacked`, `NothingLeftSilently`, `OneJobPerSource`,
`RejectedHasNoJob`, `StagedWorkIsKept`, `UserNotesKept`, `CopiesFresh` and `RetriesBounded`; of `QueueClaim`
`NamesAgree`, `RemovalIsCovered`, `OneMarker` and `RejectedStaysOut`; of `VaultWriter` `LeftoversAreReported`
and `ReplacementsAreAgreed`; of `QuestionInbox` `RegionKept` and `HandEditsKept`; of `CourseWorkspace`
`NotesAgree` and `CommittedIsPublished`; of `ProviderRouter` `NoCallAfterStop`; and the `TypeOK` of these modules.

`JobRunner_proofs` begins with the state machine: every allowed edge keeps the
type of a row and the refinements of `JobSchema`, and so does the row a recovery
builds by hand.  It then proves every safety property of the runner, and
that the runner implements `JobPromise`.  `TypeOK` alone is not inductive: the steps
of a run write `Advance(mem)` and need to know that `mem` is a row with an active
status, the cleanup that the row it rewrites exists, the vault steps that the path
is one of theirs.  The invariant grows in layers, each proved with the ones before
it in hand:

| Layer | What it adds |
|---|---|
| `TypeInv` | the types, and per program point what the locals hold |
| `RowInv` | the row of a run is the one it read, except after a commit nobody saw; `CopiesFresh`, `RetriesBounded` |
| `IntakeInv` | what is staged, listed or claimed agrees with the rows, and the vault has at most one copy of a source; `OneJobPerSource`, `RejectedHasNoJob`, `SourceKept` |
| `OutputInv` | outputs are on record before the status that needs them; `CompletedIsBacked`, `ReceiptIsTrue` |
| `DebtInv` | what a cleanup leaves behind has its warning; `NothingLeftSilently` |

`UpdatesAreEdges` shows that every write of a row is an edge of the state machine
(or the recovery of a row left active); `StagedWorkIsKept` and the refinement
`KeepsPromise` follow from it.

`QueueClaim_proofs` proves every safety property of the queue, and that it implements
`ClaimLease`.  The layers:

| Layer | What it adds |
|---|---|
| `TypeInv` | `TypeOK`, and per program point what the locals hold |
| `ControlInv`, `SoundToken` | which parts of a run may be under way together; a claim that goes on read sound contents |
| `NamesInv`, `PlaceInv` | which names a reservation has at each program point, and that a file is never a name of both lanes; `NamesAgree`, `OneMarker` |
| `BackedInv` | `OwnerInv` (who holds a lane), `HeldInv` (a reservation in hand is of this lane and token), `StagedInv` (staging belongs to the claim), `RemovalInv` (a removal that started has anchor and job); `ClaimIsBacked`, `RemovalIsCovered`, `OnlyTheClaimedIsDeleted` |

For the refinement the steps are summarised first: `Effect` is all that one step may
do to a reservation (keep, open, fill, commit or release it), whichever files it
moves, and the step of `ClaimLease` is read off it.

`Results_proofs` has three parts that share nothing but the file, in the order in which a job
meets them: pipeline, publication, writer (the names of the pipeline and of the writer carry a prefix:
`PipelineSpec`, `WriterSpec`).  The part about `VaultWriter` proves the safety properties of the writer for any texts,
conflict names and number of attempts.  Its invariant has `TypeInv` (with it, the
temporary file is complete wherever it may be linked), `KnownInv` (`known` agrees
with the files at every program point) and `AgreedInv` (at the rename the selected
file is one that was agreed to, or the user came in between and `late` says so; what
is in the backup was agreed to likewise).  The action properties follow step by step
from the invariant before the step.

`QuestionInbox_proofs` proves five action properties of the inbox
for any questions, wordings, batch and capacity.  `TypeOK` says nothing of
what a task carries from await to await, so the invariant adds `Inv`: the note a poll
is pinned to is the accepted one (`Carried`) and its region is the one that was
parsed; the question in hand was asked and has its id; what is about to be published
keeps the answers of the base (`Inputs`); and what `publish` has read is the accepted
note (`Current`).  Only `Mark` and `Write` change the file for the program
(`FileChanges`), and both go over an accepted note, from which the theorems follow.
`ConflictsAreEarned` needs the file itself followed through a publication: `EarnedInv` says
that as long as nothing has come in between the note is the accepted one, between the write and
its row the one about to be accepted (`Settled`), and that a publication confirms only
what it would not change (`Confirmed`).

The part about `CourseWorkspace` proves the safety properties of the publication for any
courses, jobs and notes.  `CommittedIsPublished` is not inductive: at the commit it
needs that the publication has accepted all notes of its job, that what it accepted
is still the head, and that the head has the sections of all earlier jobs.

| Part | What it adds |
|---|---|
| `AnswersInv` | answers are bounded by the edits, so that their type is kept |
| `HeadInv` | what the manifest lists has a head |
| `AcceptedInv`, `OwnInv` | what the publication has accepted is the head, has the sections of the job, and behind the notes is all of them |
| `FoundInv` | what it is about to write has the sections it has found in the head: the reason why a failed publication of another job loses nothing |

The steps are told apart by what they do (`QuietSteps`, `HeadSteps`): most touch neither
a head nor the manifest, and of those that revise a note each keeps its sections
(`RevisesKeeps`).  `NotesAgree` is inductive beside this invariant.

`ProviderRouter_proofs` proves every safety property of the router, for any number of
requests, and that its steps are steps of `CallPromise` (`RouterKeepsPromise`).
`SlotsHeld` needs to know of the whole queue what it says of its ends:

| Part | What it adds |
|---|---|
| `TypeInv` | the types, with a counter that may be any integer |
| `QueueInv` | the queue of a provider is a `Line` of those who wait there, each once; its counter is the number of those who hold |
| `RowInv` | which rows a request has in which phase: one for each attempt begun, of which only the last may be running |
| `CallInv` | a call is under way exactly while the router waits for one, and an open body or copies of the sources have a stage that deals with them |
| `DiagInv` | the diagnostic a request was admitted by was ready, and is not the newest any more once residual data was told |
| `StopInv` | once the router is stopped every request on its way is aborted, and none that waits for its second attempt is |

The four last parts are stated for one request, and a step of another request leaves
them alone (`Untouched`, `OtherCalls`), so each is proved action by action for the one
request the action is about.  That a hand-over keeps the count is proved with the
cardinality theorems of the library.

`AntigravityCall_proofs` is in two parts.  The parsers: `ParsersAgree` and `ListsAgree` say,
for sequences of any length, that the checks in their order let through exactly what
`SoundAnswer` and `SoundList` describe.  A loop over a stream is a choice of its first bad
place, so the first of a set of numbers is needed: `MinIs` finds it by the library's
theorem that proper inclusion of finite sets is well-founded.  The call:
`CallInv` says where a call still owes what it has made, or will tell residual data
(`Accounted`), and that a cancelled one cannot end as done (`Dropped`);
`AnswerInv` carries the agreement of the parsers to the steps in which items arrive.
`ToolsAreTold` compares an answer with one that differs in an item.  A good beginning has the words
of a sound answer (`ViableWords`, `ViableThoughts`), so that the tool is the first place
a loop refuses (`StopFirst`); an answer that is sound but for one item has the items of the sound one
everywhere else (`AllButOne`), so that every check before the sign is passed.
`ToolsToldByAll` puts the five parsers together.

`CliCall_proofs` proves `UsersAreMapped` and `LeftoversAreTold` for any calls, threads, letters
and failures.

| Part | What it adds |
|---|---|
| `Typed` | a lease covers all roots, only the runtime's, or none: a root is given its letter after the other and gives it back before it |
| `AliasInv` | a root has at least as many references as leases that hold it, and a letter exactly while it has references (`RefsInv`); no letter is of two roots (`PlacesInv`); whose turn it is and at which letter (`BusyInv`, `TurnInv`) |
| `CallInv`, for each call | the order of its steps (`Order`), what it holds where (`Leases`), where a process may be alive (`Processes`), and that a call that will not tell residual data has put away all but what it is at, and but what a refused clean-up has kept (`Tidied`) |
| `LettersInv` | while no call has residual data to tell, references, letters and markers are exactly those of the leases (`Accounted`) |
| `OrphansInv` | the letters of a process that outlives the program are given to nobody else |

`RefsInv` has an inequality because a failed release keeps its reference for ever; only
with `LettersInv` is it an equation, and only that says that nothing is left.  The references
are counted with the cardinality theorems of the library, and the choice of the least
free letter rests on the well-foundedness of the numbers.
`UsersAreMapped` speaks of a process that outlives the program only if stale letters are not
cleaned and nobody else has removed a letter: after a crash a letter that somebody has removed is free
for the next call while the process lives on.  The attempt to prove the property without that
exception showed the behaviour, which is beyond the bounds of the run.

`CourseDelivery_proofs` proves the four safety properties of its run, for any courses, names,
runs of the script, sources and failures.

| Part | What it adds |
|---|---|
| `CoursesInv` | the types, what an operation under way may still undo (`OpInv`), that no note names a course that is being created (`NotesInv`), and that the catalog tells the rows, or those before the change under way (`CatalogInv`) |
| `PhoneInv` | an id is reserved before anything is made under it and belongs to one run (`LeaseOf`, `HeldOnce`); how far the copies of a bundle agree with what the run has seen, source by source (`CopyOf`); what is in a lane was moved there whole (`LaneOf`) |
| `ChoiceInv` | a bundle for the catalog's lane names a course that nothing under way can take back (`Kept`) |
| `StatusInv` | what the status run has listed covers what it owes, in the order lanes and receipts are read |
| `VerdictInv`, `ClaimInv` | a refusal has its receipt; the operation under way is for the bundle the poll has claimed, and what it came to still stands when the bundle is judged |

`PublishedIsACut` rests on the two loops of the script: the snapshot of a source is at most
its version, the check behind the copy finds the same one, so at the moment the check of the first
source is done all copies are what the sources were then.  `ChoiceInv` and `CoursesInv` meet in
`Kept`: that no course is deleted under a bundle is what makes a refusal earned.  `RefusalsAreDeserved` has
three grounds and no other: an archived course, a folder of another course, and a job of the same course and sources
(`Earned`).

What proving changed in the models: overlapping alternatives of a `CASE` (`GiveEnds` and
`Outcome` of `CliCall`, `OutputItem` and `ContentBlock` of `ProviderAnswers`, `Refusal` of
`ProviderRouter`) are `IF`s now, in the order of the code: TLC takes the first that holds, but
the value of such a `CASE` is not determined.  `PhoneQueue` assumes that a run may try at least one id.

The part about `ContentPipeline` proves the four properties of its run for any number of sources
and any bounds.

| Part | What it adds |
|---|---|
| `ChainInv` | the attempt has one payload for each stage it is past, each made of those before it with the attempt's instructions |
| `WrittenInv` | at the commit the last payload is the attempt's own |
| `MissingInv` | what is asked for is not there |
| `QuietInv` | an attempt is under way only in a pass, and a pass only while the database is open |

Only model-checked: liveness (`BundlesSettle`, `JobsSettle`, `CleanupConverges`, `BundleSettles`,
`CleanupResumes`, `OperationsEnd`, `QuestionsAnswered`, `JobsCommitted`, `CallsEnd`, `DeliveriesSettle`: it
needs fairness and `ENABLED`, which are out of the prover's reach), and with it the fairness half
of `KeepsCallPromise`.

## 5. Not modelled

Whole components: the renderer and the Obsidian renderers (layout), the parsers of media
formats, secrets, settings and diagnostics (thin storage), and the migrations of the database,
which run in one synchronous transaction each before anything else starts.

Within the modelled ones:

- Formats (JSON layouts, Markdown, request bodies, prompts), wording, window and tray
  handling, and path checks against links.
- Vault writer: the validation of paths and texts; the bounded read of a file is one look.
- Inbox: the rotation over more than 32 courses and the split of a full inbox into parts.
  Managed notes: two notes that claim one path.
- Course workspaces: attachments, notes in several parts, a job whose content has changed, the
  check of the manifest's hash before its rename (nobody else writes it), and the earlier
  revisions of a note, which answer a question about its sources.
- Router: the repair prompt, receipts, and what no code in `src/` calls outside tests
  (`recoverInterrupted`, `cancelRunningForShutdown`, the checks of a provider, which are
  an outside step here).  A read of a secret or of a local file has no time-out in the code,
  and returns in the model.
- Command lines: the adapter of Gemini, whose recipe is never ready
  (`assertGeminiRecipeReady` always throws), though its parser is modelled; the abort
  between the acquisition of the runtime's letter and the check behind it; two Antigravity
  calls at once, which share one profile file.
- Parsers: the largest sizes and counts, the grammar of names of models.
- Pipeline: what a payload says and the rules that accept it; several jobs at once (they share
  nothing but the queue of the application); the check of the vault behind a result is part
  of `Deliver`.
- Courses: choosing another queue while the program runs (the bundles and receipts of the old
  one stay where they are, out of reach), and what the runner and the workspaces
  do after another vault was chosen;
  the restoration of jobs from recording notes.  Phone: formats, the parsing of shortcuts, the calibration of sizes,
  bundles of the first version, conflict copies; receipts and bundles reach the phone at
  once, only the catalog is late.

## 6. Plan

Done: the job runner, the queue's claim and removal, the vault writer, the question inbox,
the publication of courses, the router with its HTTP calls, the calls of Codex and of
Antigravity, the answers of all providers, the content pipeline with the end of the program,
and the courses with the phone.  What is left:

1. Theorems: every safety property of a run has one.  What is left are facts no run asks for:
   that the calls of `ApiCall` keep the promise the router relies on for any adapter, that
   a course which was offered to the phone and not archived stays accepted, and a refinement of
   `CourseWorkspace` by what its reader is promised.
2. Two Antigravity calls at once with their shared profile, should the adapter be wired.
3. The restoration of jobs from recording notes, composed with `JobRunner`.
4. Migrations of the database, as far as they keep rows readable (`JobSchema`).

Properties of one module are checked in one run wherever the instance allows it, so
that a new module adds one run.
