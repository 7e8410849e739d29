-------------------------- MODULE CourseWorkspace --------------------------
(***************************************************************************)
(* The publication of a job's study content (CourseWorkspaceService): the  *)
(* notes of the course, its hub, its canvas, the dashboard of all courses, *)
(* and last the manifest, which is the commit point.                       *)
(*                                                                         *)
(* Publications run one at a time (runWorkspaceExclusive), each under a    *)
(* lease file.  A publication of ManagedNoteService is one step here;      *)
(* QuestionInbox takes it apart.                                           *)
(***************************************************************************)
EXTENDS Naturals, FiniteSets

CONSTANTS
  Courses, Jobs, CourseOf,
  Notes,            \* notes to which every job adds its sections
  Inboxes,          \* those of them that get answers
  Writes,           \* the notes of a job's projection
  Hub, Dashboard,   \* notes which every publication makes afresh
  NoFile,           \* no text, no job
  Stranger,         \* what only a canvas by another hand shows
  MaxEdits, MaxFaults     \* bounds

Managed == Notes \cup {Hub[c] : c \in Courses} \cup {Dashboard}

ASSUME WorkspaceAssumption ==
  /\ CourseOf \in [Jobs -> Courses] /\ Writes \in [Jobs -> (SUBSET Notes) \ {{}}]
  /\ Inboxes \subseteq Notes
  /\ Notes \cap ({Hub[c] : c \in Courses} \cup {Dashboard}) = {}
  /\ \A c \in Courses : Hub[c] # Dashboard /\ \A d \in Courses \ {c} : Hub[c] # Hub[d]
  /\ MaxEdits \in Nat /\ MaxFaults \in Nat

\* The generated part: the jobs with sections in it, the job of its properties and
\* revision, and the number of answers.
Generated == [jobs : SUBSET Jobs, by : Jobs, answers : 0..MaxEdits]

\* own: the user's region; sound: the generated part is untouched.
Text == [gen : Generated, own : 0..MaxEdits, sound : BOOLEAN]

ASSUME NoTexts == NoFile \notin Text /\ Stranger \notin Jobs

Foreign == {Stranger}

VARIABLES
  file,         \* the managed notes of the vault
  head,         \* the head revision of each, as published
  canvas,       \* the canvas of each course: the jobs in its graph
  manifest,     \* jobs, texts and canvases that are committed
  lease,        \* workspace-publication.lock exists
  stage,        \* of a job: its publication is to do, has returned, the job is done
  pc, run,      \* the await that is pending, locals of the publication
  disturbed,    \* generated files touched by hand, cut off from their row, or a lease left
  edits, faults

vars == <<file, head, canvas, manifest, lease, stage, pc, run, disturbed, edits, faults>>
notes == <<file, head>>
bounds == <<edits, faults>>

NoteTexts == [Managed -> Text \cup {NoFile}]
Accounts == [jobs : SUBSET Jobs, texts : NoteTexts, canvas : [Courses -> SUBSET Jobs]]

NoText == [n \in Managed |-> NoFile]
NoCanvas == [c \in Courses |-> {}]
NoAccount == [jobs |-> {}, texts |-> NoText, canvas |-> NoCanvas]

\* The job, the sections and answers found in the notes, what has been accepted, and
\* success.
Run ==
  [job : Jobs \cup {NoFile}, prior : [Notes -> SUBSET Jobs], answers : [Notes -> 0..MaxEdits],
   accepted : NoteTexts, done : BOOLEAN]

NoRun == [job |-> NoFile, prior |-> [n \in Notes |-> {}], answers |-> [n \in Notes |-> 0],
          accepted |-> NoText, done |-> FALSE]

Init ==
  /\ file = NoText /\ head = NoText
  /\ canvas = NoCanvas /\ manifest = NoAccount /\ lease = FALSE
  /\ stage = [j \in Jobs |-> "waiting"] /\ pc = "idle" /\ run = NoRun
  /\ disturbed = FALSE /\ edits = 0 /\ faults = 0

-----------------------------------------------------------------------------
(* What a publication writes.                                              *)

Job == run.job
Course == CourseOf[Job]
Listed == {n \in Managed : manifest.texts[n] # NoFile}
Accepted == {n \in Managed : run.accepted[n] # NoFile}

\* Slip: revisions which no manifest lists yet are not looked up.
KnownCommitted(j) == Listed

\* The notes whose head is read: those of the manifest and those about to be written.
Known(j) == Listed \cup Writes[j]

\* The sections of the other jobs stay, the job's own are replaced.
Content(n) ==
  IF n \in Notes
  THEN [jobs |-> run.prior[n] \cup {Job}, by |-> Job, answers |-> run.answers[n]]
  ELSE [jobs |-> {}, by |-> Job, answers |-> 0]

\* The graph shows the lectures and the attachments of the committed jobs and of this.
Graph == {k \in manifest.jobs : CourseOf[k] = Course} \cup {Job}

\* ManagedNoteService finds the note as it was accepted, or nothing where nothing was.
Clear(n) ==
  IF head[n] = NoFile THEN file[n] = NoFile
  ELSE file[n] # NoFile /\ file[n].sound /\ file[n].gen = head[n].gen

Merged(n, g) ==
  IF file[n] = NoFile THEN [gen |-> g, own |-> 0, sound |-> TRUE]
  ELSE [file[n] EXCEPT !.gen = g]

Revise(n, g) ==
  /\ file' = [file EXCEPT ![n] = Merged(n, g)]
  /\ head' = [head EXCEPT ![n] = Merged(n, g)]

-----------------------------------------------------------------------------
(* A publication.                                                          *)

\* While the lease exists, publish throws at once.
Publish(j) ==
  /\ pc = "idle" /\ stage[j] = "waiting" /\ ~lease
  /\ lease' = TRUE /\ pc' = "load" /\ run' = [NoRun EXCEPT !.job = j]
  /\ UNCHANGED <<notes, canvas, manifest, stage, disturbed, bounds>>

Load ==
  /\ pc = "load"
  /\ IF Job \in manifest.jobs THEN pc' = "recheck" /\ run' = run
     ELSE LET found == {n \in Known(Job) \cap Notes : head[n] # NoFile}
          IN /\ pc' = "notes"
             /\ run' = [run EXCEPT
                  !.prior = [n \in Notes |-> IF n \in found THEN head[n].gen.jobs ELSE {}],
                  !.answers = [n \in Notes |-> IF n \in found THEN head[n].gen.answers ELSE 0]]
  /\ UNCHANGED <<notes, canvas, manifest, lease, stage, disturbed, bounds>>

Kinds == {"notes", "hub", "dashboard", "others"}

\* The notes of this part of the publication; at last all the others of the manifest.
Due ==
  (CASE pc = "notes" -> Writes[Job]
     [] pc = "hub" -> {Hub[Course]}
     [] pc = "dashboard" -> {Dashboard}
     [] pc = "others" -> Listed) \ Accepted

Candidate(n) == IF pc = "others" THEN head[n].gen ELSE Content(n)

\* Where the publication goes on behind a note.
Behind(n) ==
  CASE pc = "notes" -> IF Due = {n} THEN "hub" ELSE "notes"
    [] pc = "hub" -> "canvas"
    [] OTHER -> IF Listed \subseteq Accepted \cup {n} THEN "verify" ELSE "others"

PublishNote ==
  /\ pc \in Kinds
  /\ \E n \in Due :
       IF Clear(n)
       THEN /\ Revise(n, Candidate(n)) /\ pc' = Behind(n)
            /\ run' = [run EXCEPT !.accepted[n] = Merged(n, Candidate(n))]
       ELSE pc' = "unlock" /\ UNCHANGED <<notes, run>>
  /\ UNCHANGED <<canvas, manifest, lease, stage, disturbed, bounds>>

\* Slip: what the job itself has left there is not recognised.
PublishCanvasAnew ==
  /\ pc = "canvas"
  /\ IF canvas[Course] = manifest.canvas[Course]
     THEN canvas' = [canvas EXCEPT ![Course] = Graph] /\ pc' = "dashboard"
     ELSE canvas' = canvas /\ pc' = "unlock"
  /\ UNCHANGED <<notes, manifest, lease, stage, run, disturbed, bounds>>

\* The canvas must be the one to be written, or the one of the manifest.
PublishCanvas ==
  /\ pc = "canvas"
  /\ IF canvas[Course] \in {Graph, manifest.canvas[Course]}
     THEN canvas' = [canvas EXCEPT ![Course] = Graph] /\ pc' = "dashboard"
     ELSE canvas' = canvas /\ pc' = "unlock"
  /\ UNCHANGED <<notes, manifest, lease, stage, run, disturbed, bounds>>

\* The manifest to be.
Account ==
  [jobs |-> manifest.jobs \cup {Job},
   texts |-> [n \in Managed |-> IF n \in Accepted THEN run.accepted[n] ELSE manifest.texts[n]],
   canvas |-> [manifest.canvas EXCEPT ![Course] = Graph]]

\* #verifyArtifacts: every byte of every file it lists.
Verified(m) ==
  /\ \A n \in Managed : m.texts[n] # NoFile => file[n] = m.texts[n]
  /\ \A c \in Courses : m.canvas[c] # {} => canvas[c] = m.canvas[c]

Verify ==
  /\ pc = "verify"
  /\ pc' = IF Verified(Account) THEN "commit" ELSE "unlock"
  /\ UNCHANGED <<notes, canvas, manifest, lease, stage, run, disturbed, bounds>>

\* A job of the manifest is not published again.
Recheck ==
  /\ pc = "recheck"
  /\ pc' = "unlock" /\ run' = [run EXCEPT !.done = Verified(manifest)]
  /\ UNCHANGED <<notes, canvas, manifest, lease, stage, disturbed, bounds>>

Commit ==
  /\ pc = "commit"
  /\ manifest' = Account
  /\ pc' = "unlock" /\ run' = [run EXCEPT !.done = TRUE]
  /\ UNCHANGED <<notes, canvas, lease, stage, disturbed, bounds>>

Unlock ==
  /\ pc = "unlock"
  /\ lease' = FALSE /\ pc' = "idle" /\ run' = NoRun
  /\ stage' = [stage EXCEPT ![Job] = IF run.done THEN "published" ELSE "waiting"]
  /\ UNCHANGED <<notes, canvas, manifest, disturbed, bounds>>

\* The runner goes on.
Complete(j) ==
  /\ stage[j] = "published"
  /\ stage' = [stage EXCEPT ![j] = "completed"]
  /\ UNCHANGED <<notes, canvas, manifest, lease, pc, run, disturbed, bounds>>

-----------------------------------------------------------------------------
(* Failures.                                                               *)

Fault == faults < MaxFaults /\ faults' = faults + 1 /\ edits' = edits

Working == pc \notin {"idle", "unlock"}

StepFails ==
  /\ Working /\ Fault
  /\ pc' = "unlock"
  /\ UNCHANGED <<notes, canvas, manifest, lease, stage, run, disturbed>>

\* The file is written, the row is not.
RowFails ==
  /\ pc \in Kinds /\ Fault
  /\ \E n \in Due :
       /\ Clear(n) /\ Merged(n, Candidate(n)) # file[n]
       /\ file' = [file EXCEPT ![n] = Merged(n, Candidate(n))]
  /\ disturbed' = TRUE /\ pc' = "unlock"
  /\ UNCHANGED <<head, canvas, manifest, lease, stage, run>>

\* The manifest has been renamed, and the flush of its directory or the look at it fails.
CommitFails ==
  /\ pc = "commit" /\ Fault
  /\ manifest' = Account
  /\ pc' = "unlock"
  /\ UNCHANGED <<notes, canvas, lease, stage, run, disturbed>>

UnlockFails ==
  /\ pc = "unlock" /\ Fault
  /\ disturbed' = TRUE /\ pc' = "idle" /\ run' = NoRun
  /\ UNCHANGED <<notes, canvas, manifest, lease, stage>>

\* Something behind the publication fails, and the job starts again.
LaterFails(j) ==
  /\ stage[j] = "published" /\ Fault
  /\ stage' = [stage EXCEPT ![j] = "waiting"]
  /\ UNCHANGED <<notes, canvas, manifest, lease, pc, run, disturbed>>

Crash ==
  /\ Fault
  /\ stage' = [j \in Jobs |-> IF stage[j] = "published" THEN "waiting" ELSE stage[j]]
  /\ disturbed' = (disturbed \/ lease) /\ pc' = "idle" /\ run' = NoRun
  /\ UNCHANGED <<notes, canvas, manifest, lease>>

-----------------------------------------------------------------------------
(* The user, and the question inbox.                                       *)

ByHand == edits < MaxEdits /\ edits' = edits + 1 /\ faults' = faults

EditRegion(n) ==
  /\ ByHand /\ file[n] # NoFile
  /\ file' = [file EXCEPT ![n].own = edits + 1]
  /\ UNCHANGED <<head, canvas, manifest, lease, stage, pc, run, disturbed>>

\* The generated part, or the whole note.
EditGenerated(n) ==
  /\ ByHand /\ file[n] # NoFile /\ file[n].sound
  /\ file' \in {[file EXCEPT ![n].sound = FALSE], [file EXCEPT ![n] = NoFile]}
  /\ disturbed' = TRUE
  /\ UNCHANGED <<head, canvas, manifest, lease, stage, pc, run>>

EditCanvas(c) ==
  /\ ByHand /\ canvas[c] # {}
  /\ canvas' \in {[canvas EXCEPT ![c] = Foreign], [canvas EXCEPT ![c] = {}]}
  /\ disturbed' = TRUE
  /\ UNCHANGED <<notes, manifest, lease, stage, pc, run>>

\* A lease that was left is removed by hand.
RemoveLease ==
  /\ pc = "idle" /\ lease
  /\ lease' = FALSE
  /\ UNCHANGED <<notes, canvas, manifest, stage, pc, run, disturbed, bounds>>

AnswerOf(n) == [head[n].gen EXCEPT !.answers = @ + 1]

\* The user asks, and a poll of the inbox publishes the answer.
Answer(n) ==
  /\ pc = "idle" /\ n \in Listed /\ Clear(n)
  /\ ByHand
  /\ Revise(n, AnswerOf(n))
  /\ UNCHANGED <<canvas, manifest, lease, stage, pc, run, disturbed>>

-----------------------------------------------------------------------------
PublicationStep ==
  \/ Load \/ PublishNote \/ PublishCanvas \/ Verify \/ Recheck \/ Commit \/ Unlock

FaultStep ==
  \/ StepFails \/ RowFails \/ CommitFails \/ UnlockFails \/ Crash
  \/ \E j \in Jobs : LaterFails(j)

OutsideStep ==
  \/ RemoveLease
  \/ \E n \in Managed : EditRegion(n) \/ EditGenerated(n)
  \/ \E c \in Courses : EditCanvas(c)
  \/ \E n \in Inboxes : Answer(n)

Next ==
  \/ PublicationStep \/ FaultStep \/ OutsideStep
  \/ \E j \in Jobs : Publish(j) \/ Complete(j)

Spec == Init /\ [][Next]_vars

\* Publications run to their end, and a job that has failed is tried again.
FairSpec ==
  /\ Spec /\ WF_vars(PublicationStep)
  /\ \A j \in Jobs : SF_vars(Publish(j)) /\ SF_vars(Complete(j))

-----------------------------------------------------------------------------
(* Properties.                                                             *)

PCs == {"idle", "load", "notes", "hub", "canvas", "dashboard", "others", "verify",
        "recheck", "commit", "unlock"}

\* The values of the variables.
TypeOK ==
  /\ file \in NoteTexts /\ head \in NoteTexts
  /\ canvas \in [Courses -> (SUBSET Jobs) \cup {Foreign}]
  /\ manifest \in Accounts
  /\ lease \in BOOLEAN /\ disturbed \in BOOLEAN
  /\ stage \in [Jobs -> {"waiting", "published", "completed"}]
  /\ pc \in PCs
  /\ run \in Run
  /\ edits \in 0..MaxEdits /\ faults \in 0..MaxFaults

\* No publication, not even one that follows a failed one of another job, takes
\* accepted sections or answers out of a note.
SectionsKept ==
  [][\A n \in Managed : head[n] # NoFile =>
       /\ head'[n] # NoFile
       /\ head[n].gen.jobs \subseteq head'[n].gen.jobs
       /\ n \in Notes => head'[n].gen.answers >= head[n].gen.answers]_vars

\* A job is in the manifest only with its canvas and all of its notes, and its sections
\* stay in the revisions.
CommittedIsPublished ==
  \A j \in manifest.jobs :
    /\ j \in manifest.canvas[CourseOf[j]]
    /\ \A n \in Writes[j] :
         /\ manifest.texts[n] # NoFile /\ j \in manifest.texts[n].gen.jobs
         /\ head[n] # NoFile /\ j \in head[n].gen.jobs

\* Every note reads as it was accepted, whatever publications have failed: only a hand
\* or a cut between a file and its row makes the next publication a conflict.
NotesAgree == disturbed \/ \A n \in Managed : Clear(n)

\* Whatever calls fail and in whatever order the jobs are tried again, all of them are
\* committed, as long as no generated file is touched or cut off from its row.
JobsCommitted == <>(manifest.jobs = Jobs \/ disturbed)

\* The same of the completion of the job.
JobsComplete == <>(disturbed \/ \A j \in Jobs : stage[j] = "completed")
=============================================================================
