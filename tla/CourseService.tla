---------------------------- MODULE CourseService ----------------------------
(***************************************************************************)
(* The courses on the PC: CourseService (application/courses/courseService *)
(* .ts) with its rows, the note of every course, the index in the main note *)
(* and the catalog the phone reads (infrastructure/queue/jsonCourseCatalog  *)
(* .ts), and the recovery of rows from notes when the program starts        *)
(* (application/jobs/vaultIndexRebuilder.ts).                              *)
(*                                                                         *)
(* One operation runs at a time (#runExclusive).  It changes the row first, *)
(* then the note, the index and the catalog, one awaited write after the   *)
(* other; each may fail, the program may stop between any two, and the user *)
(* edits the notes in between.                                             *)
(***************************************************************************)
EXTENDS Naturals, FiniteSets

CONSTANTS
  Courses,      \* ids
  Old,          \* those only notes of an older vault may name
  Names,        \* what a course is called
  FolderOf,     \* [Names -> Folders]: toSafeCourseFolder
  Folders,
  None

ASSUME CourseAssumption ==
  /\ FolderOf \in [Names -> Folders]
  /\ Old \subseteq Courses
  /\ None \notin Courses \cup Names \cup Folders

VARIABLES
  rows,         \* the table of courses
  note,         \* folder -> the course note in it
  index,        \* the course block of the main note
  catalog,      \* Catalog/courses.json; no file reads as no courses
  issues,       \* #synchronizationIssues
  op,           \* the operation under way
  pc,           \* the step it awaits; "off" while the program does not run
  answer,       \* what the last operation came to
  edited,       \* the files the user changed since the operation began
  loose,        \* rows have changed with nobody left to tell the catalog
  edits, faults, commands    \* bounds: what may still happen

serviceVars == <<rows, note, index, catalog, issues, op, pc, answer, edited, loose, edits, faults,
                 commands>>

NoRow == [state |-> "none", name |-> None, folder |-> None, rev |-> 0]
NoOp == [id |-> None, undo |-> "none", mode |-> "deferred", boot |-> FALSE, before |-> NoRow,
         rest |-> {}, stale |-> FALSE, code |-> "ok"]

NoNote == [kind |-> "none"]
Broken == [kind |-> "broken"]     \* without the id or the blocks the program writes to
NewMainNote == [kind |-> "new"]   \* with an empty block
CourseNote(c, row) ==
  [kind |-> "course", id |-> c, name |-> row.name, archived |-> row.state = "archived", rev |-> row.rev]

Known == {c \in Courses: rows[c].state # "none"}
Active == {<<c, rows[c].name>>: c \in {d \in Courses: rows[d].state = "active"}}
InFolder(f) == {c \in Known: rows[c].folder = f}
Desired(c) == CourseNote(c, rows[c])

ServiceInit ==
  /\ rows = [c \in Courses |-> NoRow]
  /\ note = [f \in Folders |-> NoNote]
  /\ index = [kind |-> "index", list |-> {}] /\ catalog = {} /\ issues = {}
  /\ op = NoOp /\ pc = "idle" /\ answer = "ok"
  /\ edited = {} /\ loose = FALSE

Fault == faults > 0 /\ faults' = faults - 1
NoFault == UNCHANGED faults

-----------------------------------------------------------------------------
(* The operations: what they refuse, and the row they change.               *)

Refuse(code) ==
  /\ answer' = code
  /\ UNCHANGED <<rows, note, index, catalog, issues, op, pc, edited, loose, edits>>

\* The row is changed, or the database fails and nothing is.
Begin(c, row, undo, mode) ==
  \/ /\ NoFault
     /\ rows' = [rows EXCEPT ![c] = row]
     /\ op' = [NoOp EXCEPT !.id = c, !.undo = undo, !.mode = mode, !.before = rows[c]]
     /\ pc' = "note"
     /\ edited' = {}
     /\ UNCHANGED <<note, index, catalog, issues, answer, loose, edits>>
  \/ Fault /\ Refuse("failed")

NewRow(n) == [state |-> "active", name |-> n, folder |-> FolderOf[n], rev |-> 0]
Changed(c, state, n) == [rows[c] EXCEPT !.state = state, !.name = n, !.rev = @ + 1]

CreateWithId(c, n, mode) ==
  IF InFolder(FolderOf[n]) # {} THEN NoFault /\ Refuse("DUPLICATE_COURSE")
  ELSE Begin(c, NewRow(n), "delete", mode)

\* A new id is one that is nowhere yet.
Fresh(c) ==
  /\ c \notin Known \cup Old
  /\ \A f \in Folders: note[f].kind = "course" => note[f].id # c

\* One new id is as good as another.
NewId(free) == IF free = {} THEN {} ELSE {CHOOSE c \in free: TRUE}

Activate(c, n) ==
  IF rows[c].state = "active" THEN Begin(c, rows[c], "none", "deferred")
  ELSE Begin(c, Changed(c, "active", n), "restore", "deferred")

Create(n) ==
  LET archived == {d \in InFolder(FolderOf[n]): rows[d].state = "archived"} IN
  IF archived # {} THEN \E d \in archived: Activate(d, n)
  ELSE \E c \in NewId({d \in Courses: Fresh(d)}): CreateWithId(c, n, "deferred")

\* A slip: the course is not looked up first.
ProvisionSlip(c, n) == CreateWithId(c, n, "required")

Provision(c, n) ==
  CASE rows[c].state = "archived" -> NoFault /\ Refuse("COURSE_NOT_FOUND")
    [] rows[c].state = "active" -> Begin(c, rows[c], "none", "required")
    [] OTHER -> CreateWithId(c, n, "required")

Update(c, n) == c \in Known /\ Begin(c, Changed(c, rows[c].state, n), "restore", "deferred")

Archive(c) ==
  /\ c \in Known
  /\ IF rows[c].state = "archived" THEN Begin(c, rows[c], "none", "deferred")
     ELSE Begin(c, Changed(c, "archived", rows[c].name), "restore", "deferred")

RestoreCourse(c) == c \in Known /\ Activate(c, rows[c].name)

\* What the user asks for in the window.
Command ==
  /\ pc = "idle" /\ commands > 0
  /\ commands' = commands - 1
  /\ \/ \E n \in Names: Create(n) \/ \E c \in Courses: Update(c, n)
     \/ \E c \in Courses: Archive(c) \/ RestoreCourse(c)

-----------------------------------------------------------------------------
(* The note of the course: read, compared, written.                         *)

End(code) == pc' = "idle" /\ op' = NoOp /\ answer' = code

\* The next course of synchronize(), or the indexes.
NoteDone ==
  /\ issues' = issues \ {<<"course-note", op.id>>}
  /\ UNCHANGED <<rows, answer, loose, index, catalog>>
  /\ IF op.rest = {} THEN pc' = "index" /\ UNCHANGED op
     ELSE \E c \in op.rest: pc' = "note" /\ op' = [op EXCEPT !.id = c, !.rest = @ \ {c}]

NoteFails(code) ==
  /\ UNCHANGED <<rows, index, catalog, loose>>
  /\ CASE op.mode = "whole" -> issues' = issues \cup {<<"course-note", op.id>>} /\ End("failed")
       [] op.mode # "whole" /\ op.undo # "none" ->
            pc' = "undo" /\ op' = [op EXCEPT !.code = code] /\ UNCHANGED <<issues, answer>>
       [] OTHER -> End(code) /\ UNCHANGED issues

\* What hasStableCourseId or replaceManagedBlock does not accept as the note of c.
Unreadable(f, c) == note[f] # NoNote /\ (note[f].kind = "course" => note[f].id # c)

ReadNote ==
  /\ pc = "note"
  /\ LET f == rows[op.id].folder IN
     /\ \/ Fault /\ NoteFails("failed")
        \/ NoFault /\ op.undo = "delete" /\ note[f] # NoNote /\ NoteFails("DUPLICATE_COURSE")
        \/ NoFault /\ op.undo # "delete" /\ Unreadable(f, op.id) /\ NoteFails("failed")
        \/ NoFault /\ note[f] = Desired(op.id) /\ op.undo # "delete" /\ NoteDone
        \/ /\ NoFault /\ note[f] # Desired(op.id)
           /\ note[f] = NoNote \/ (op.undo # "delete" /\ ~Unreadable(f, op.id))
           /\ pc' = "write" /\ op' = [op EXCEPT !.stale = FALSE]
           /\ UNCHANGED <<rows, index, catalog, issues, answer, loose>>
  /\ UNCHANGED <<note, edited, edits, commands>>

(* A note that is no longer the one read is left alone, and the new text is *)
(* put beside it; a failure may leave the old note in its backup.           *)
WriteNote ==
  /\ pc = "write"
  /\ LET f == rows[op.id].folder IN
     \/ NoFault /\ ~op.stale /\ note' = [note EXCEPT ![f] = Desired(op.id)] /\ NoteDone
     \/ NoFault /\ op.stale /\ UNCHANGED note
        /\ NoteFails(IF op.undo = "delete" THEN "DUPLICATE_COURSE" ELSE "failed")
     \/ Fault /\ note' \in {note, [note EXCEPT ![f] = NoNote]} /\ NoteFails("failed")
  /\ UNCHANGED <<edited, edits, commands>>

\* repository.delete of a creation, #restoreCourse of a change.
Undo ==
  /\ pc = "undo"
  /\ \/ /\ NoFault
        /\ rows' = [rows EXCEPT ![op.id] =
             IF op.undo = "delete" THEN NoRow ELSE [op.before EXCEPT !.rev = rows[op.id].rev + 1]]
        /\ End(op.code) /\ UNCHANGED loose
     \/ Fault /\ UNCHANGED rows /\ End("failed") /\ loose' = TRUE
  /\ UNCHANGED <<note, index, catalog, issues, edited, edits, commands>>

-----------------------------------------------------------------------------
(* #synchronizeIndexes: the block of the main note, then the catalog.       *)

\* A slip: a deferred failure is forgotten.
IndexFailsSlip ==
  /\ UNCHANGED <<rows, note, issues, loose>>
  /\ End(IF op.mode = "deferred" THEN "ok" ELSE "failed")

IndexFails ==
  /\ UNCHANGED <<rows, note, loose>>
  /\ issues' = issues \cup
       (IF op.mode # "whole" THEN {<<"indexes", op.id>>}
        ELSE IF Known = {} THEN {<<"indexes", None>>} ELSE {<<"indexes", c>>: c \in Known})
  /\ End(IF op.mode = "deferred" THEN "ok" ELSE "failed")

IndexOf(list) == [kind |-> "index", list |-> list]

ReadIndex ==
  /\ pc = "index"
  /\ \/ Fault /\ IndexFails /\ UNCHANGED catalog
     \/ NoFault /\ index = Broken /\ IndexFails /\ UNCHANGED catalog
     \/ /\ NoFault /\ index # Broken
        /\ pc' = (IF index = IndexOf(Active) THEN "publish" ELSE "writeIndex")
        /\ op' = [op EXCEPT !.stale = FALSE]
        /\ UNCHANGED <<rows, note, catalog, issues, answer, loose>>
  /\ UNCHANGED <<index, edited, edits, commands>>

WriteIndex ==
  /\ pc = "writeIndex"
  /\ \/ /\ NoFault /\ ~op.stale
        /\ index' = IndexOf(Active) /\ pc' = "publish"
        /\ UNCHANGED <<rows, note, catalog, issues, op, answer, loose>>
     \/ NoFault /\ op.stale /\ IndexFails /\ UNCHANGED <<index, catalog>>
     \/ Fault /\ IndexFails /\ index' \in {index, NoNote} /\ UNCHANGED catalog
  /\ UNCHANGED <<edited, edits, commands>>

(* The catalog is replaced as a whole; a failure may leave it in its backup. *)
Publish ==
  /\ pc = "publish"
  /\ \/ /\ NoFault /\ catalog' = Active
        /\ issues' = {i \in issues: i[1] # "indexes"}
        /\ loose' = FALSE
        /\ IF op.boot THEN pc' = "rebuildAgain" /\ UNCHANGED <<op, answer>> ELSE End("ok")
        /\ UNCHANGED <<rows, note>>
     \/ Fault /\ IndexFails /\ catalog' \in {catalog, {}}
  /\ UNCHANGED <<index, edited, edits, commands>>

-----------------------------------------------------------------------------
(* connect() of the vault, and synchronize() of every course with a service  *)
(* made anew.                                                               *)

\* A main note that is not there is made.
Connected(main) == IF main = NoNote THEN NewMainNote ELSE main

WholeOp(boot) == [NoOp EXCEPT !.mode = "whole", !.boot = boot]

Synchronize(boot) ==
  IF \A c \in Courses: rows'[c] = NoRow THEN pc' = "index" /\ op' = WholeOp(boot)
  ELSE \E c \in Courses:
         /\ rows'[c] # NoRow
         /\ pc' = "note"
         /\ op' = [WholeOp(boot) EXCEPT !.id = c, !.rest = {d \in Courses \ {c}: rows'[d] # NoRow}]

\* Without a runtime: nothing is served until the program is opened anew.
NoRuntime == pc' = "off" /\ op' = NoOp /\ answer' = "failed"

(* chooseVault: the same vault or a fresh one.  It may be refused before the *)
(* setting is saved; or saved, and the runtime not made.                    *)
ChooseVault ==
  /\ pc = "idle" /\ commands > 0
  /\ commands' = commands - 1
  /\ \/ /\ \/ note' = note /\ index' = Connected(index)
           \/ note' = [f \in Folders |-> NoNote] /\ index' = NewMainNote
        /\ issues' = {} /\ edited' = {}
        /\ UNCHANGED <<rows, catalog, loose, edits>>
        /\ \/ NoFault /\ Synchronize(FALSE) /\ UNCHANGED answer
           \/ Fault /\ NoRuntime
     \/ Fault /\ Refuse("failed")

-----------------------------------------------------------------------------
(* initialize(): rows are restored from the notes, synchronize() runs, and   *)
(* when it comes through the rows are restored once more.                   *)

Start ==
  /\ pc = "off"
  /\ \/ NoFault /\ pc' = "rebuild" /\ op' = WholeOp(TRUE) /\ UNCHANGED answer
     \/ Fault /\ NoRuntime
  /\ index' \in {index, Connected(index)}
  /\ pc' = "rebuild" => index' # NoNote
  /\ edited' = {}
  /\ UNCHANGED <<rows, note, catalog, issues, loose, edits, commands>>

\* The notes that name a course no other note names, of rows that are missing.
Recovered == {f \in Folders: /\ note[f].kind = "course"
                             /\ \A g \in Folders \ {f}: note[g].kind = "course" => note[g].id # note[f].id}
Missing == {f \in Recovered: note[f].id \notin Known}

RowFrom(f) ==
  [state |-> IF note[f].archived THEN "archived" ELSE "active", name |-> note[f].name, folder |-> f,
   rev |-> note[f].rev]

Insert(fs) ==
  rows' = [c \in Courses |->
    IF \E f \in fs: note[f].id = c THEN RowFrom(CHOOSE f \in fs: note[f].id = c) ELSE rows[c]]

\* The inserts stop at a folder that another course has.
Inserted(fs) ==
  LET refused == {f \in Missing: InFolder(f) # {}} IN
  IF refused = {} THEN fs = Missing ELSE fs \subseteq Missing \ refused

Restored(fs) ==
  \/ NoFault /\ Inserted(fs) /\ Insert(fs)
  \/ Fault /\ fs = {} /\ UNCHANGED rows

Rebuild ==
  /\ pc = "rebuild"
  /\ \E fs \in SUBSET Missing: Restored(fs)
  /\ Synchronize(TRUE)
  /\ UNCHANGED <<note, index, catalog, issues, answer, edited, loose, edits, commands>>

RebuildAgain ==
  /\ pc = "rebuildAgain"
  /\ \E fs \in SUBSET Missing: Restored(fs) /\ loose' = (loose \/ fs # {})
  /\ End("ok")
  /\ UNCHANGED <<note, index, catalog, issues, edited, edits, commands>>

ServiceStep ==
  ReadNote \/ WriteNote \/ Undo \/ ReadIndex \/ WriteIndex \/ Publish \/ Rebuild \/ RebuildAgain

-----------------------------------------------------------------------------
(* From outside: the user in the vault, and the end of the program.         *)

Edit ==
  /\ edits > 0 /\ edits' = edits - 1
  /\ \/ \E f \in Folders:
          /\ note' \in {[note EXCEPT ![f] = v]: v \in {note[f], NoNote, Broken} \cup
                {CourseNote(c, NewRow(n)): c \in Old, n \in {m \in Names: FolderOf[m] = f}}}
          /\ edited' = edited \cup {f}
          /\ op' = [op EXCEPT !.stale = @ \/ (pc = "write" /\ rows[op.id].folder = f)]
          /\ UNCHANGED index
     \/ /\ index' \in {index, NoNote, Broken, IndexOf({})}
        /\ edited' = edited \cup {"main"}
        /\ op' = [op EXCEPT !.stale = @ \/ pc = "writeIndex"]
        /\ UNCHANGED note
  /\ UNCHANGED <<rows, catalog, issues, pc, answer, loose, faults, commands>>

Stop ==
  /\ pc # "off" /\ Fault
  /\ NoRuntime /\ issues' = {}
  /\ UNCHANGED <<rows, note, index, catalog, edited, loose, edits, commands>>
=============================================================================
