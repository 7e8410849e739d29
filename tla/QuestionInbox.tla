--------------------------- MODULE QuestionInbox ---------------------------
(***************************************************************************)
(* The question inbox of a course: a note of the vault in which the program*)
(* owns the generated part and the user the rest.  Two kinds of tasks write*)
(* to it through ManagedNoteService.publish, one at a time                 *)
(* (runWorkspaceExclusive): the publications of jobs, and the polls of     *)
(* QuestionInboxService, which count the questions the user has written,   *)
(* give them ids, have them answered and add the answers.                  *)
(*                                                                         *)
(* The file and the row of the accepted revision are written one after the *)
(* other; the user edits the note at any moment, calls fail and the process*)
(* stops.  A text is reduced to what the code compares.                    *)
(***************************************************************************)
EXTENDS Naturals, FiniteSets

CONSTANTS
  Questions,        \* numbers, in the order of their lines
  Wordings,         \* what a question may say, a set for each
  Stubborn,         \* questions whose answer always fails
  MaxSections,      \* QUESTION_INBOX_LIMITS.sections: room for answers
  BatchSize,        \* 8 in the code: questions of one poll
  NoNote, NoBase,
  MaxPublications, MaxEdits, MaxFaults      \* bounds

ASSUME InboxAssumption ==
  /\ Questions \subseteq Nat \ {0} /\ IsFiniteSet(Questions) /\ Stubborn \subseteq Questions
  /\ \A q \in Questions : {"none", "checked"} \cap Wordings[q] = {}
  /\ MaxSections \in Nat /\ BatchSize \in Nat \ {0}
  /\ MaxPublications \in Nat /\ MaxEdits \in Nat /\ MaxFaults \in Nat

Said == UNION {Wordings[q] : q \in Questions}

\* A line of the user's region: an open question, or one the user has ticked off.
Line == [wording : Said \cup {"none", "checked"}, id : BOOLEAN]
NoLine == [wording |-> "none", id |-> FALSE]
Blank == [q \in Questions |-> NoLine]

\* The generated part: sections and properties (0: by the user's hand, the property
\* locked among them), answers, and the property question_count.
Generated ==
  [text : 0..MaxPublications, answers : [Questions -> Said \cup {"none"}],
   count : 0..Cardinality(Questions)]

\* whole: the markers are in order.
Note == [gen : Generated, user : [Questions -> Line], whole : BOOLEAN]

ASSUME NoValues == NoNote \notin Note /\ NoBase \notin Generated

Answered(g) == {q \in Questions : g.answers[q] # "none"}

VARIABLES
  file,         \* the note in the vault
  base,         \* generatedBase of the head revision
  committed,    \* a publication is in the manifest: there is evidence for answers
  observed,     \* #observed: the note as the last poll saw it
  offset,       \* #questionOffsets
  pc,           \* the await that is pending
  run,          \* locals of the task
  disturbed,    \* generated part touched by the user, or written and not accepted
  overrun,      \* a write has put what it had read over something else
  edits, faults

vars == <<file, base, committed, observed, offset, pc, run, disturbed, overrun, edits, faults>>
bounds == <<edits, faults>>

NoInput == [text |-> 0, answers |-> [q \in Questions |-> "none"], count |-> 0]

\* The task, the note publish has read, what is to be published, the note the poll
\* has parsed, the one its writes are pinned to (expectedHash), the questions left of
\* its batch, and the one in hand.
Run ==
  [task : {"none", "job", "poll", "count", "answer"}, cur : Note \cup {NoNote},
   input : Generated, parsed : Note \cup {NoNote}, pin : Note \cup {NoNote},
   batch : SUBSET Questions, question : Questions \cup {0}]

NoRun ==
  [task |-> "none", cur |-> NoNote, input |-> NoInput, parsed |-> NoNote, pin |-> NoNote,
   batch |-> {}, question |-> 0]

Init ==
  /\ file = NoNote /\ base = NoBase /\ committed = FALSE
  /\ observed = NoNote /\ offset = 0 /\ pc = "idle" /\ run = NoRun
  /\ disturbed = FALSE /\ overrun = FALSE /\ edits = 0 /\ faults = 0

-----------------------------------------------------------------------------
(* threeWayMarkdownMerge and the parser.                                   *)

\* Nothing may be written over this note.
Conflicting(b, n) == n = NoNote \/ ~n.whole \/ n.gen # b

\* The candidate with the user's region of the note.
Merged(n, g) ==
  IF n = NoNote THEN [gen |-> g, user |-> Blank, whole |-> TRUE]
  ELSE [n EXCEPT !.gen = g]

Listed(n) == {q \in Questions : n.user[q] # NoLine}
Asked(n) == {q \in Questions : n.user[q].wording \in Said}
Unmarked(n) == {q \in Asked(n) : ~n.user[q].id}

\* Answers whose question the user has removed are counted too.
QuestionCount(n) == Cardinality(Listed(n) \cup Answered(n.gen))

AssignIds(n) ==
  [n EXCEPT !.user = [q \in Questions |->
     IF q \in Unmarked(n) THEN [wording |-> n.user[q].wording, id |-> TRUE]
     ELSE n.user[q]]]

-----------------------------------------------------------------------------
(* The ends of the tasks.                                                  *)

End == pc' = "idle" /\ run' = NoRun

Forget == observed' = NoNote /\ End

\* #pollTarget after the count: give ids, or go on to the answers.
AfterCount(parsed, n) ==
  /\ pc' = IF Unmarked(parsed) # {} THEN "mark" ELSE "evidence"
  /\ run' = [run EXCEPT !.task = "poll", !.parsed = parsed, !.pin = n]

NextQuestion(pin) ==
  /\ pc' = "next"
  /\ run' = [run EXCEPT !.task = "poll", !.pin = pin]

-----------------------------------------------------------------------------
(* A poll.                                                                 *)

Poll ==
  /\ pc = "idle"
  /\ pc' = "look" /\ run' = [NoRun EXCEPT !.task = "poll"]
  /\ UNCHANGED <<file, base, committed, observed, offset, disturbed, overrun, bounds>>

Publish(task, g, parsed, pin) ==
  /\ pc' = "read"
  /\ run' = [run EXCEPT !.task = task, !.input = g, !.parsed = parsed, !.pin = pin]

\* A note is worked on when two polls in a row have seen the same.
Look ==
  /\ pc = "look"
  /\ IF ~committed \/ Conflicting(base, file) THEN Forget
     ELSE /\ observed' = file
          /\ IF observed # file THEN End
             ELSE IF QuestionCount(file) # base.count
             THEN Publish("count", [base EXCEPT !.count = QuestionCount(file)], file, file)
             ELSE AfterCount(file, file)
  /\ UNCHANGED <<file, base, committed, offset, disturbed, overrun, bounds>>

Recount ==
  /\ pc = "recount"
  /\ IF file = run.pin THEN observed' = file /\ AfterCount(run.parsed, file) ELSE observed' = observed /\ End
  /\ UNCHANGED <<file, base, committed, offset, disturbed, overrun, bounds>>

\* If the note has changed the text with the ids goes to a conflict copy.
Mark ==
  /\ pc = "mark"
  /\ file' = IF file = run.pin THEN AssignIds(file) ELSE file
  /\ Forget
  /\ UNCHANGED <<base, committed, offset, disturbed, overrun, bounds>>

Pending == {q \in Asked(run.parsed) : base.answers[q] = "none"}

Rank(q) == Cardinality({p \in Pending : p < q})

\* The next pending questions behind an offset, the first following the last.
BatchFrom(from) ==
  LET n == Cardinality(Pending)
  IN {q \in Pending : (Rank(q) + n - from) % n < BatchSize}

\* Slip: every poll starts with the first question.
EvidenceFromFirst ==
  /\ pc = "evidence"
  /\ pc' = "next" /\ offset' = 0
  /\ run' = [run EXCEPT !.batch = BatchFrom(0)]
  /\ UNCHANGED <<file, base, committed, observed, disturbed, overrun, bounds>>

Evidence ==
  /\ pc = "evidence"
  /\ LET from == IF Pending = {} THEN 0 ELSE offset % Cardinality(Pending)
     IN /\ run' = [run EXCEPT !.batch = BatchFrom(from)]
        /\ pc' = "next" /\ offset' = from + Cardinality(BatchFrom(from))
  /\ UNCHANGED <<file, base, committed, observed, disturbed, overrun, bounds>>

Full(g) == Cardinality(Answered(g)) >= MaxSections

\* The next question of the batch; which one makes no difference.
Turn ==
  /\ pc = "next"
  /\ \/ run.batch = {} /\ observed' = run.pin /\ End
     \/ run.batch # {} /\ file # run.pin /\ Forget
     \/ run.batch # {} /\ file = run.pin /\ Full(base) /\ observed' = observed /\ End
     \/ \E q \in run.batch :
          /\ file = run.pin /\ ~Full(base) /\ pc' = "ask" /\ observed' = observed
          /\ run' = [run EXCEPT !.batch = @ \ {q}, !.question = q]
  /\ UNCHANGED <<file, base, committed, offset, disturbed, overrun, bounds>>

Ask ==
  /\ pc = "ask" /\ run.question \notin Stubborn
  /\ pc' = "answered"
  /\ UNCHANGED <<file, base, committed, observed, offset, run, disturbed, overrun, bounds>>

AskFails ==
  /\ pc = "ask" /\ run.question \in Stubborn
  /\ NextQuestion(run.pin)
  /\ UNCHANGED <<file, base, committed, observed, offset, disturbed, overrun, bounds>>

WithAnswer ==
  [base EXCEPT !.answers[run.question] = run.parsed.user[run.question].wording]

\* Slip: the answer is published like any other text.
AnswerUnpinned ==
  /\ pc = "answered"
  /\ IF file # run.pin THEN Forget
     ELSE observed' = observed /\ Publish("answer", WithAnswer, run.parsed, NoNote)
  /\ UNCHANGED <<file, base, committed, offset, disturbed, overrun, bounds>>

Answer ==
  /\ pc = "answered"
  /\ IF file # run.pin THEN Forget
     ELSE /\ observed' = observed
          /\ IF run.question \in Answered(base) THEN End
             ELSE Publish("answer", WithAnswer, run.parsed, run.pin)
  /\ UNCHANGED <<file, base, committed, offset, disturbed, overrun, bounds>>

-----------------------------------------------------------------------------
(* ManagedNoteService.publish.                                             *)

\* Slip: a publication starts from an empty note.
PublicationAfresh ==
  /\ pc = "idle"
  /\ \E t \in 1..MaxPublications :
       /\ base = NoBase => t = 1
       /\ base # NoBase => t \in {base.text, base.text + 1}
       /\ pc' = "read"
       /\ run' = [NoRun EXCEPT !.task = "job", !.input = [NoInput EXCEPT !.text = t]]
  /\ UNCHANGED <<file, base, committed, observed, offset, disturbed, overrun, bounds>>

\* A job adds its sections to those of the head and keeps answers and count; the
\* publication of another course publishes the head again.
Publication ==
  /\ pc = "idle"
  /\ \E t \in 1..MaxPublications :
       /\ base = NoBase => t = 1
       /\ base # NoBase => t \in {base.text, base.text + 1}
       /\ pc' = "read"
       /\ run' = [NoRun EXCEPT !.task = "job",
                    !.input = IF base = NoBase THEN [NoInput EXCEPT !.text = t]
                              ELSE [base EXCEPT !.text = t]]
  /\ UNCHANGED <<file, base, committed, observed, offset, disturbed, overrun, bounds>>

Read ==
  /\ pc = "read"
  /\ run' = [run EXCEPT !.cur = file]
  /\ pc' = IF base = NoBase THEN (IF file = NoNote THEN "write" ELSE "conflict")
           ELSE IF Conflicting(base, file) THEN "conflict"
           ELSE IF Merged(file, run.input) = file THEN "confirm" ELSE "write"
  /\ UNCHANGED <<file, base, committed, observed, offset, disturbed, overrun, bounds>>

\* The pin replaces the hash of what publish has read.
Expected == IF run.pin # NoNote THEN run.pin ELSE run.cur

\* writeMarkdown compares and writes; otherwise the text goes to a conflict copy.
Write ==
  /\ pc = "write"
  /\ IF file = Expected
     THEN /\ file' = Merged(run.cur, run.input) /\ pc' = "append"
          /\ overrun' = (overrun \/ run.cur # file)
     ELSE UNCHANGED <<file, overrun>> /\ pc' = "audit"
  /\ UNCHANGED <<base, committed, observed, offset, run, disturbed, bounds>>

Confirm ==
  /\ pc = "confirm"
  /\ pc' = IF file = run.cur THEN "append" ELSE "conflict"
  /\ UNCHANGED <<file, base, committed, observed, offset, run, disturbed, overrun, bounds>>

\* Slip: a new count is not a revision.
AcceptTexts ==
  /\ pc = "append"
  /\ base' = IF run.task = "count" THEN base ELSE run.input
  /\ \/ run.task = "job" /\ pc' = "commit" /\ run' = run
     \/ /\ run.task = "count"
        /\ pc' = "recount"
        /\ run' = [run EXCEPT !.task = "poll", !.pin = Merged(run.cur, run.input)]
     \/ run.task = "answer" /\ NextQuestion(Merged(run.cur, run.input))
  /\ UNCHANGED <<file, committed, observed, offset, disturbed, overrun, bounds>>

\* The row of the revision.
Accept ==
  /\ pc = "append"
  /\ base' = run.input
  /\ \/ run.task = "job" /\ pc' = "commit" /\ run' = run
     \/ /\ run.task = "count"
        /\ pc' = "recount"
        /\ run' = [run EXCEPT !.task = "poll", !.pin = Merged(run.cur, run.input)]
     \/ run.task = "answer" /\ NextQuestion(Merged(run.cur, run.input))
  /\ UNCHANGED <<file, committed, observed, offset, disturbed, overrun, bounds>>

\* The job goes on to its other files and then to the manifest.
Commit ==
  /\ pc = "commit"
  /\ committed' = TRUE /\ End
  /\ UNCHANGED <<file, base, observed, offset, disturbed, overrun, bounds>>

\* The candidate goes to a file of its own.
Conflict ==
  /\ pc = "conflict"
  /\ pc' = "audit"
  /\ UNCHANGED <<file, base, committed, observed, offset, run, disturbed, overrun, bounds>>

Audit ==
  /\ pc = "audit"
  /\ IF run.task = "answer" THEN Forget ELSE observed' = observed /\ End
  /\ UNCHANGED <<file, base, committed, offset, disturbed, overrun, bounds>>

-----------------------------------------------------------------------------
(* Failures.                                                               *)

Fault == faults < MaxFaults /\ faults' = faults + 1 /\ edits' = edits

\* What is written and has no row, the next merge takes for the user's.
Unaccepted == disturbed' = (disturbed \/ pc = "append")

\* publish throws: the job fails, a poll is over, an answer is put off.
PublishFails ==
  /\ pc \in {"read", "write", "confirm", "append", "commit", "conflict", "audit"}
  /\ Fault /\ Unaccepted
  /\ \/ run.task = "job" /\ observed' = observed /\ End
     \/ run.task = "count" /\ Forget
     \/ run.task = "answer" /\ observed' = observed /\ (NextQuestion(run.pin) \/ End)
  /\ UNCHANGED <<file, base, committed, offset, overrun>>

\* The poll throws or is cancelled.
PollFails ==
  /\ \/ pc \in {"look", "recount", "mark", "evidence", "next"} /\ Forget
     \/ pc \in {"ask", "answered"} /\ observed' = observed /\ NextQuestion(run.pin)
     \/ pc \in {"mark", "next", "answered"} /\ observed' = observed /\ End
  /\ Fault
  /\ UNCHANGED <<file, base, committed, offset, disturbed, overrun>>

Crash ==
  /\ Fault /\ Unaccepted
  /\ Forget /\ offset' = 0
  /\ UNCHANGED <<file, base, committed, overrun>>

-----------------------------------------------------------------------------
(* The user.                                                               *)

EditLine(q) ==
  /\ file # NoNote
  /\ \E w \in (Wordings[q] \cup {"none", "checked"}) \ {file.user[q].wording} :
       /\ file.user[q] = NoLine => q \notin Answered(file.gen)
       /\ file' = [file EXCEPT !.user[q] =
                     IF w = "none" THEN NoLine ELSE [@ EXCEPT !.wording = w]]
  /\ disturbed' = disturbed

\* The generated part, an answer in it, the markers, the file itself.
EditRest ==
  /\ file # NoNote
  /\ file' \in {[file EXCEPT !.gen.text = 0], [file EXCEPT !.whole = ~@], NoNote}
            \cup {[file EXCEPT !.gen.answers[q] = "none"] : q \in Answered(file.gen)}
  /\ disturbed' = TRUE

Edit ==
  /\ edits < MaxEdits /\ edits' = edits + 1 /\ faults' = faults
  /\ (\E q \in Questions : EditLine(q)) \/ EditRest
  /\ UNCHANGED <<base, committed, observed, offset, pc, run, overrun>>

-----------------------------------------------------------------------------
TaskStep ==
  \/ Look \/ Recount \/ Mark \/ Evidence \/ Turn \/ Ask \/ AskFails \/ Answer
  \/ Read \/ Write \/ Confirm \/ Accept \/ Commit \/ Conflict \/ Audit

Next == Poll \/ Publication \/ TaskStep \/ PublishFails \/ PollFails \/ Crash \/ Edit

Spec == Init /\ [][Next]_vars

\* Tasks run to their end, and the queue of the tasks is first come, first served.
FairSpec == Spec /\ WF_vars(TaskStep) /\ SF_vars(Poll)

-----------------------------------------------------------------------------
(* Properties.                                                             *)

PCs == {"idle", "look", "recount", "mark", "evidence", "next", "ask", "answered",
        "read", "write", "confirm", "append", "commit", "conflict", "audit"}

\* The values of the variables.
TypeOK ==
  /\ file \in Note \cup {NoNote} /\ base \in Generated \cup {NoBase}
  /\ committed \in BOOLEAN /\ disturbed \in BOOLEAN /\ overrun \in BOOLEAN
  /\ observed \in Note \cup {NoNote} /\ offset \in Nat /\ pc \in PCs
  /\ run \in Run
  /\ edits \in 0..MaxEdits /\ faults \in 0..MaxFaults

ByProgram == edits' = edits /\ file' # file /\ file # NoNote

\* No question is changed, added or removed by the program; it adds ids.
SameLines(n, m) ==
  /\ m # NoNote
  /\ \A q \in Questions :
       /\ m.user[q].wording = n.user[q].wording
       /\ n.user[q].id => m.user[q].id

\* The bytes of the user's region survive every write, as long as no pinned write has
\* gone over a note which changed before its publication read it and then changed back.
RegionKept == [][ByProgram /\ ~overrun' => SameLines(file, file')]_vars

\* Only a note whose generated part is the accepted one is written to: what the user
\* has changed there, locked or damaged stays as it is.
HandEditsKept == [][ByProgram => file.whole /\ file.gen = base]_vars

\* An answer goes into a note that asks just what was answered, under its id, with the
\* same exception.
AnswersFit ==
  [][ByProgram /\ ~overrun' => \A q \in Questions :
       file'.gen.answers[q] # file.gen.answers[q] =>
         file.user[q] = [wording |-> file'.gen.answers[q], id |-> TRUE]]_vars

\* An accepted answer is never taken back or changed.
AnswersStay ==
  [][base # NoBase =>
       base' # NoBase
       /\ \A q \in Answered(base) : base'.answers[q] = base.answers[q]]_vars

\* A publication finds a conflict only where the user has touched the generated part,
\* or where an earlier one was cut off between the file and its row.
ConflictsAreEarned == [][pc = "read" /\ pc' = "conflict" => disturbed]_vars

\* An open question which may be answered.
Answerable(q) ==
  /\ committed /\ ~disturbed /\ file # NoNote
  /\ q \in Asked(file) \ Answered(base) /\ ~Full(base)

\* Every question is answered in the end, whatever becomes of the others, while there
\* is room and nobody touches the generated part.
QuestionsAnswered ==
  \A q \in Questions \ Stubborn : Answerable(q) ~> ~Answerable(q)
=============================================================================
