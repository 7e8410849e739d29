------------------------ MODULE CourseDelivery_proofs ------------------------
(***************************************************************************)
(* The safety properties of CourseDelivery for any courses, names, folders,*)
(* runs of the script, job ids, sources and workloads.  The courses come   *)
(* first, then the phone, then the status, then what a poll has claimed;   *)
(* each part uses the ones before it.                                      *)
(***************************************************************************)
EXTENDS CourseDelivery, TLAPS

Row == [state: {"none", "active", "archived"}, name: Names \cup {None},
        folder: Folders \cup {None}, rev: Nat]
CourseNotes == [kind: {"course"}, id: Courses, name: Names, archived: BOOLEAN, rev: Nat]
Codes == {"ok", "failed", "DUPLICATE_COURSE", "COURSE_NOT_FOUND"}
Undos == {"none", "delete", "restore"}
Modes == {"deferred", "required", "whole"}
Op == [id: Courses \cup {None}, undo: Undos, mode: Modes, boot: BOOLEAN, before: Row,
       rest: SUBSET Courses, stale: BOOLEAN, code: Codes]
Places == {"off", "idle", "note", "write", "undo", "index", "writeIndex", "publish", "rebuild",
           "rebuildAgain"}

CoursesTyped ==
  /\ rows \in [Courses -> Row]
  /\ note \in [Folders -> {NoNote, Broken} \cup CourseNotes]
  /\ catalog \subseteq Courses \X Names
  /\ issues \subseteq {"course-note", "indexes"} \X (Courses \cup {None})
  /\ op \in Op /\ pc \in Places /\ answer \in Codes

\* The steps from the change of a row to the index.
OfNote == {"note", "write", "undo"}

RowsInv ==
  \A c \in Courses: IF rows[c].state = "none" THEN rows[c] = NoRow
                    ELSE rows[c].name \in Names /\ rows[c].folder \in Folders

\* What an operation is about is there, and it can be undone until the index.
OpInv ==
  /\ pc \in OfNote => op.id \in Known /\ op.rest \subseteq Known
  /\ op.mode # "whole" => op.rest = {} /\ ~op.boot
  /\ op.mode = "whole" => op.undo = "none"
  /\ pc \in OfNote /\ op.mode # "whole" /\ op.undo = "none" => op.before = rows[op.id]
  /\ pc \in OfNote /\ op.undo = "restore" =>
       op.before.state # "none" /\ op.before.name \in Names /\ op.before.folder \in Folders
  /\ pc = "undo" => op.undo # "none" /\ op.code \in {"failed", "DUPLICATE_COURSE"}

Deleting == op.undo = "delete" /\ pc \in OfNote

\* The courses that nothing under way can take back.
Kept == {c \in Known: ~(Deleting /\ op.id = c)}

KeptStays == Kept \subseteq Kept'

(* A note names a course that is there, or one the user may have named; of a *)
(* course that is being created there is no note yet.                       *)
NotesInv ==
  /\ \A f \in Folders: note[f].kind = "course" => note[f].id \in Known \cup Old
  /\ Deleting => /\ op.before.state = "none" /\ op.id \notin Old
                 /\ \A f \in Folders: note[f].kind = "course" => note[f].id # op.id

ListedIn(table) == {<<c, table[c].name>>: c \in {d \in Courses: table[d].state = "active"}}

\* What the catalog tells while no issue is shown: the rows, or those before the change under way.
CatalogInv ==
  issues = {} /\ ~loose =>
    /\ pc \in {"idle", "rebuildAgain"} => catalog = Active
    /\ pc \in OfNote /\ op.mode # "whole" => catalog = ListedIn([rows EXCEPT ![op.id] = op.before])

CoursesInv == CoursesTyped /\ RowsInv /\ OpInv /\ NotesInv /\ CatalogInv

-----------------------------------------------------------------------------
Stages == {"off", "again", "pending", "final", "lease", "reserve", "mkdir", "snapshot", "copy",
           "check", "manifest", "move", "look", "blind", "catch", "done"}
Pick == [id: Courses \cup {None}, name: Names \cup {None},
         kind: {"none", "catalog", "pending", "create"}]
Bundle == [at: Lanes \cup {"none", "hidden", "gone"}, copies: [Sources -> Nat],
           course: Courses \cup {None}, name: Names \cup {None}, manifest: BOOLEAN]

PhoneTyped ==
  /\ stage \in [Runs -> Stages] /\ pick \in [Runs -> Pick]
  /\ lane \in [Runs -> Lanes] /\ lease \in [Runs -> Jobs \cup {None}]
  /\ tries \in [Runs -> 0..MaxTries] /\ step \in [Runs -> Sources]
  /\ seen \in [Runs -> [Sources -> Nat]] /\ cut \in [Runs -> [Sources -> Nat]]
  /\ told \in [Runs -> {"nothing", "queued", "failed", "unsure", "stale"}]
  /\ box \in [Jobs -> Bundle] /\ reserved \subseteq Jobs
  /\ files \in [Sources -> Nat]
  /\ offered \subseteq Courses \X Names

Choosing == {"off", "again", "pending", "final"}
Leasing == {"lease", "reserve", "mkdir"}
Writing == {"snapshot", "copy", "check", "manifest", "move"}
After == {"look", "blind", "done"}

\* An id is reserved before anything is made under it.
LeaseOf(r) ==
  /\ stage[r] \in Choosing \cup {"lease"} => lease[r] = None
  /\ stage[r] \notin Choosing \cup {"lease", "done"} => lease[r] \in Jobs
  /\ lease[r] # None /\ stage[r] # "reserve" => lease[r] \in reserved
  /\ stage[r] \in Choosing \cup Leasing => tries[r] < MaxTries

\* How far a bundle has come: the source that a loop is at is not yet done.
CopyOf(r) ==
  /\ stage[r] \in Writing => box[lease[r]].at = "hidden"
  /\ stage[r] = "catch" => ~Published(lease[r])
  /\ stage[r] = "snapshot" => \A s \in Sources: s < step[r] => seen[r][s] <= files[s]
  /\ stage[r] \in {"copy", "check"} => \A s \in Sources: seen[r][s] <= files[s]
  /\ stage[r] = "copy" => \A s \in Sources: s < step[r] => box[lease[r]].copies[s] = seen[r][s]
  /\ stage[r] = "check" =>
       /\ box[lease[r]].copies = seen[r]
       /\ \A s \in Sources: s < step[r] => cut[r][s] = seen[r][s]
       /\ step[r] > 1 => \A s \in Sources: seen[r][s] <= cut[r][s] /\ cut[r][s] <= files[s]
  /\ stage[r] \in {"manifest", "move"} => box[lease[r]].copies = cut[r]
  /\ stage[r] = "move" => box[lease[r]] = WithManifest(box[lease[r]], r)

ToldOf(r) ==
  /\ stage[r] # "done" => told[r] = "nothing"
  /\ told[r] = "queued" => lease[r] \in Jobs /\ box[lease[r]].at \in Lanes \cup {"gone"}
  /\ told[r] = "failed" /\ lease[r] # None => ~Published(lease[r])

RunInv(r) == LeaseOf(r) /\ CopyOf(r) /\ ToldOf(r)

\* One run has an id to itself once it has reserved it.
HeldOnce ==
  \A r, q \in Runs:
    r # q /\ lease[r] = lease[q] /\ lease[r] # None => stage[r] = "reserve" \/ stage[q] = "reserve"

\* What is in a lane was moved there by the run that holds its id.
LaneOf(j) ==
  Published(j) => /\ box[j].manifest
                  /\ \E r \in Runs: lease[r] = j /\ stage[r] \in After /\ box[j].copies = cut[r]

PhoneInv ==
  PhoneTyped /\ HeldOnce /\ (\A r \in Runs: RunInv(r)) /\ (\A j \in Jobs: LaneOf(j))

-----------------------------------------------------------------------------
(* A course that is chosen from the catalog is one the PC keeps, and one    *)
(* that waits in CourseInbox is not of an older vault.                      *)
ChoiceOf(r) ==
  /\ pick[r].kind # "catalog" => pick[r].id \notin Old
  /\ stage[r] \in {"pending", "final"} => pick[r].kind # "catalog"
  /\ stage[r] \notin {"off", "done"} => pick[r].id \in Courses /\ pick[r].name \in Names
  /\ stage[r] \notin Choosing \cup {"done"} =>
       IF lane[r] = "Inbox" THEN pick[r].id \in Kept ELSE pick[r].kind # "catalog"

MeantFor(j) ==
  /\ box[j].at = "Inbox" => box[j].course \in Kept
  /\ box[j].at = "CourseInbox" => box[j].course \in Courses \ Old /\ box[j].name \in Names

ChoiceInv ==
  /\ IdsOf(catalog) \cup IdsOf(offered) \subseteq Kept
  /\ \A r \in Runs: ChoiceOf(r)
  /\ \A j \in Jobs: MeantFor(j)

-----------------------------------------------------------------------------
\* What the status run has seen covers what it owes; and a refusal is told.
StatusInv ==
  /\ receipt \in [Jobs -> Receipts \cup {"none"}]
  /\ tally \in [Jobs -> Receipts \cup {"none", "queued"}]
  /\ asked \in Lanes \cup {"off", "receipts", "shown", "partial"}
  /\ owed \subseteq Jobs /\ listed \subseteq Jobs /\ unread \subseteq Jobs
  /\ asked \in {"CourseInbox", "receipts"} =>
       \A j \in owed: \/ j \in listed \/ receipt[j] # "none"
                      \/ asked = "CourseInbox" /\ box[j].at = "CourseInbox"
  /\ asked = "shown" => \A j \in owed: tally[j] # "none" \/ j \in unread

VerdictInv ==
  /\ verdict \in [Jobs -> {"none", "accepted"} \cup RejectionCodes]
  /\ refused \subseteq Jobs /\ ready \subseteq Jobs
  /\ \A j \in refused: verdict[j] \in RejectionCodes /\ receipt[j] = "failed"

(* The bundle a poll is at stays in its lane, and the operation under way is *)
(* for it; what the operation came to is still so when it is judged.        *)
ClaimInv ==
  claim # None =>
    LET c == box[claim].course
        f == FolderOf[box[claim].name] IN
    /\ claim \in Jobs /\ Published(claim) /\ verdict[claim] = "none"
    /\ pc \in {"idle", "index", "writeIndex", "publish"} \cup OfNote
    /\ pc = "idle" =>
         /\ answer = "ok" => c \in Known
         /\ answer = "COURSE_NOT_FOUND" => rows[c].state = "archived"
         /\ answer = "DUPLICATE_COURSE" =>
              /\ box[claim].at = "CourseInbox" /\ c \notin Known
              /\ InFolder(f) # {} \/ f \in edited \/ Unreadable(f, c)
    /\ pc # "idle" =>
         /\ op.id = c /\ c \in Known /\ op.mode = "required" /\ op.undo \in {"none", "delete"}
         /\ op.undo = "delete" => /\ box[claim].at = "CourseInbox" /\ rows[c].folder = f
                                  /\ pc = "write" /\ op.stale => f \in edited
                                  /\ pc = "undo" /\ op.code = "DUPLICATE_COURSE" =>
                                       f \in edited \/ Unreadable(f, c)

DeliveryInv == CoursesInv /\ PhoneInv /\ ChoiceInv /\ StatusInv /\ VerdictInv /\ ClaimInv

-----------------------------------------------------------------------------
(* The courses.                                                             *)

LEMMA ActiveIsListed == Active = ListedIn(rows)
  BY DEF Active, ListedIn

LEMMA ListedAlike ==
  ASSUME NEW S, NEW T,
         \A c \in Courses: S[c].state = T[c].state /\ (S[c].state = "active" => S[c].name = T[c].name)
  PROVE  ListedIn(S) = ListedIn(T)
<1> DEFINE A == {d \in Courses: S[d].state = "active"}
<1>1. A = {d \in Courses: T[d].state = "active"} OBVIOUS
<1>2. \A c \in A: <<c, S[c].name>> = <<c, T[c].name>> OBVIOUS
<1>3. {<<c, S[c].name>>: c \in A} = {<<c, T[c].name>>: c \in A} BY <1>2
<1> QED BY <1>1, <1>3 DEF ListedIn

LEMMA NoRowTyped == NoRow \in Row /\ NoOp \in Op
<1>1. NoRow \in Row BY DEF NoRow, Row
<1> QED BY <1>1 DEF NoOp, Op, Undos, Modes, Codes

LEMMA NewIdIsFree == ASSUME NEW S, NEW c \in NewId(S) PROVE c \in S
  BY DEF NewId

\* Where only the user's notes and what the program keeps beside the rows change.
LEMMA KeptUnchanged ==
  ASSUME UNCHANGED <<rows, pc>>, op'.id = op.id, op'.undo = op.undo
  PROVE  Kept' = Kept /\ Known' = Known /\ Active' = Active /\ (Deleting' <=> Deleting)
  BY DEF Kept, Known, Active, Deleting

\* What the rows say of a course, where an operation takes it up.
LEMMA CourseTyped ==
  ASSUME CoursesTyped, RowsInv, NEW c \in Courses
  PROVE  /\ rows[c] \in Row /\ rows[c].rev \in Nat
         /\ rows[c].state \in {"none", "active", "archived"}
         /\ c \in Known => rows[c].name \in Names /\ rows[c].folder \in Folders
         /\ c \in Known <=> rows[c].state # "none"
  BY DEF CoursesTyped, RowsInv, Row, Known

LEMMA BeginKeeps ==
  ASSUME CoursesInv, pc = "idle", NEW c \in Courses, NEW row \in Row, NEW undo \in Undos,
         NEW mode \in {"deferred", "required"}, Begin(c, row, undo, mode),
         row.state # "none", row.name \in Names, row.folder \in Folders,
         undo = "none" => row = rows[c],
         undo = "restore" => c \in Known,
         undo = "delete" =>
           /\ rows[c].state = "none" /\ c \notin Old
           /\ \A f \in Folders: note[f].kind = "course" => note[f].id # c
  PROVE  CoursesInv' /\ KeptStays
<1> USE DEF CoursesInv
<1>1. CASE Fault /\ Refuse("failed")
  <2>1. UNCHANGED <<rows, note, catalog, issues, op, pc, loose>> /\ answer' = "failed"
    BY <1>1 DEF Refuse
  <2>2. Kept' = Kept /\ Known' = Known /\ Active' = Active /\ (Deleting' <=> Deleting)
    BY <2>1, KeptUnchanged
  <2>3. CoursesTyped' BY <2>1 DEF CoursesTyped, Codes
  <2>4. RowsInv' /\ OpInv' BY <2>1, <2>2 DEF RowsInv, OpInv
  <2>5. NotesInv' BY <2>1, <2>2 DEF NotesInv
  <2>6. CatalogInv' BY <2>1, <2>2 DEF CatalogInv
  <2> QED BY <2>2, <2>3, <2>4, <2>5, <2>6 DEF KeptStays
<1>2. CASE ~(Fault /\ Refuse("failed"))
  <2>1. /\ rows' = [rows EXCEPT ![c] = row]
        /\ op' = [NoOp EXCEPT !.id = c, !.undo = undo, !.mode = mode, !.before = rows[c]]
        /\ pc' = "note" /\ UNCHANGED <<note, catalog, issues, answer, loose>>
    BY <1>2 DEF Begin
  <2>2. rows' \in [Courses -> Row] /\ rows'[c] = row /\ \A d \in Courses \ {c}: rows'[d] = rows[d]
    BY <2>1 DEF CoursesTyped
  <2>3. /\ op'.id = c /\ op'.undo = undo /\ op'.mode = mode /\ op'.before = rows[c]
        /\ op'.rest = {} /\ op'.boot = FALSE /\ op'.code = "ok"
    BY <2>1 DEF NoOp
  <2>4. CoursesTyped'
    <3>1. op' \in Op BY <2>1, NoRowTyped DEF Op, CoursesTyped, NoOp, Modes
    <3> QED BY <2>1, <2>2, <3>1 DEF CoursesTyped, Places
  <2>5. Known \subseteq Known' /\ c \in Known' BY <2>2 DEF Known
  <2>6. RowsInv' BY <2>2 DEF RowsInv
  <2>7. OpInv'
    <3>1. undo = "restore" =>
            rows[c].state # "none" /\ rows[c].name \in Names /\ rows[c].folder \in Folders
      BY CourseTyped
    <3> QED BY <2>1, <2>2, <2>3, <2>5, <3>1 DEF OpInv, OfNote
  <2>8. NotesInv' BY <2>1, <2>3, <2>5 DEF NotesInv, Deleting, OfNote
  <2>9. CatalogInv'
    <3>1. [rows' EXCEPT ![c] = rows[c]] = rows BY <2>1, <2>2 DEF CoursesTyped
    <3> QED BY <2>1, <2>3, <3>1, ActiveIsListed DEF CatalogInv, OfNote
  <2>10. KeptStays
    <3>1. \A d \in Kept: d \in Known /\ ~(undo = "delete" /\ d = c) BY DEF Kept, Known
    <3> QED BY <2>3, <2>5, <3>1 DEF KeptStays, Kept, Deleting
  <2> QED BY <2>4, <2>6, <2>7, <2>8, <2>9, <2>10
<1> QED BY <1>1, <1>2

LEMMA ChangedTyped ==
  ASSUME CoursesTyped, RowsInv, NEW c \in Known, NEW n \in Names, NEW state \in {"active", "archived"}
  PROVE  /\ Changed(c, state, n) \in Row /\ Changed(c, state, n).state = state
         /\ Changed(c, state, n).name \in Names /\ Changed(c, state, n).folder \in Folders
<1>1. c \in Courses BY DEF Known
<1>2. rows[c].rev + 1 \in Nat BY <1>1, CourseTyped
<1> QED BY <1>1, <1>2, CourseTyped DEF Changed, Row

LEMMA CreateKeeps ==
  ASSUME CoursesInv, pc = "idle", NEW c \in Courses \ (Known \cup Old), NEW n \in Names,
         NEW mode \in {"deferred", "required"},
         \A f \in Folders: note[f].kind = "course" => note[f].id # c,
         CreateWithId(c, n, mode)
  PROVE  CoursesInv' /\ KeptStays
<1>1. CASE InFolder(FolderOf[n]) # {}
  <2>1. UNCHANGED <<rows, note, catalog, issues, op, pc, loose>> /\ answer' = "DUPLICATE_COURSE"
    BY <1>1 DEF CreateWithId, Refuse
  <2>2. Kept' = Kept /\ Known' = Known /\ Active' = Active /\ (Deleting' <=> Deleting)
    BY <2>1, KeptUnchanged
  <2>3. CoursesTyped' BY <2>1 DEF CoursesInv, CoursesTyped, Codes
  <2>4. RowsInv' /\ OpInv' BY <2>1, <2>2 DEF CoursesInv, RowsInv, OpInv
  <2>5. NotesInv' BY <2>1, <2>2 DEF CoursesInv, NotesInv
  <2>6. CatalogInv' BY <2>1, <2>2 DEF CoursesInv, CatalogInv
  <2> QED BY <2>2, <2>3, <2>4, <2>5, <2>6 DEF CoursesInv, KeptStays
<1>2. CASE InFolder(FolderOf[n]) = {}
  <2>1. Begin(c, NewRow(n), "delete", mode) BY <1>2 DEF CreateWithId
  <2>2. NewRow(n) \in Row /\ NewRow(n).state = "active" /\ NewRow(n).name \in Names
        /\ NewRow(n).folder \in Folders
    BY CourseAssumption DEF NewRow, Row
  <2>3. rows[c].state = "none" BY DEF Known
  <2> QED BY <2>1, <2>2, <2>3, BeginKeeps DEF Undos
<1> QED BY <1>1, <1>2

LEMMA ActivateKeeps ==
  ASSUME CoursesInv, pc = "idle", NEW c \in Known, NEW n \in Names, Activate(c, n)
  PROVE  CoursesInv' /\ KeptStays
<1>1. c \in Courses /\ CoursesTyped /\ RowsInv BY DEF Known, CoursesInv
<1>2. CASE rows[c].state = "active"
  <2>1. Begin(c, rows[c], "none", "deferred") BY <1>2 DEF Activate
  <2> QED BY <1>1, <1>2, <2>1, CourseTyped, BeginKeeps DEF Undos
<1>3. CASE rows[c].state # "active"
  <2>1. Begin(c, Changed(c, "active", n), "restore", "deferred") BY <1>3 DEF Activate
  <2> QED BY <1>1, <2>1, ChangedTyped, BeginKeeps DEF Undos
<1> QED BY <1>2, <1>3

LEMMA ProvisionKeeps ==
  ASSUME CoursesInv, pc = "idle", NEW c \in Courses \ Old, NEW n \in Names, Provision(c, n)
  PROVE  CoursesInv' /\ KeptStays
<1>1. CoursesTyped /\ RowsInv /\ NotesInv BY DEF CoursesInv
<1>2. CASE rows[c].state = "archived"
  <2>1. UNCHANGED <<rows, note, catalog, issues, op, pc, loose>> /\ answer' = "COURSE_NOT_FOUND"
    BY <1>2 DEF Provision, Refuse
  <2>2. Kept' = Kept /\ Known' = Known /\ Active' = Active /\ (Deleting' <=> Deleting)
    BY <2>1, KeptUnchanged
  <2>3. CoursesTyped' BY <2>1 DEF CoursesInv, CoursesTyped, Codes
  <2>4. RowsInv' /\ OpInv' BY <2>1, <2>2 DEF CoursesInv, RowsInv, OpInv
  <2>5. NotesInv' BY <2>1, <2>2 DEF CoursesInv, NotesInv
  <2>6. CatalogInv' BY <2>1, <2>2 DEF CoursesInv, CatalogInv
  <2> QED BY <2>2, <2>3, <2>4, <2>5, <2>6 DEF CoursesInv, KeptStays
<1>3. CASE rows[c].state = "active"
  <2>1. Begin(c, rows[c], "none", "required") BY <1>3 DEF Provision
  <2>2. c \in Known BY <1>3 DEF Known
  <2> QED BY <1>1, <1>3, <2>1, <2>2, CourseTyped, BeginKeeps DEF Undos
<1>4. CASE rows[c].state \notin {"archived", "active"}
  <2>1. CreateWithId(c, n, "required") BY <1>4 DEF Provision
  <2>2. c \notin Known BY <1>1, <1>4, CourseTyped
  <2>3. \A f \in Folders: note[f].kind = "course" => note[f].id # c BY <1>1, <2>2 DEF NotesInv
  <2> QED BY <2>1, <2>2, <2>3, CreateKeeps
<1> QED BY <1>2, <1>3, <1>4

LEMMA CommandKeeps ==
  ASSUME CoursesInv, Command
  PROVE  CoursesInv' /\ KeptStays
<1>1. pc = "idle" /\ CoursesTyped /\ RowsInv BY DEF Command, CoursesInv
<1>2. ASSUME NEW n \in Names, Create(n) PROVE CoursesInv' /\ KeptStays
  <2> DEFINE archived == {d \in InFolder(FolderOf[n]): rows[d].state = "archived"}
  <2>1. CASE archived # {}
    <3>1. PICK d \in archived: Activate(d, n) BY <1>2, <2>1 DEF Create
    <3>2. d \in Known BY DEF InFolder
    <3> QED BY <1>1, <3>1, <3>2, ActivateKeeps
  <2>2. CASE archived = {}
    <3>1. PICK c \in NewId({d \in Courses: Fresh(d)}): CreateWithId(c, n, "deferred")
      BY <1>2, <2>2 DEF Create
    <3>2. c \in Courses /\ Fresh(c) BY NewIdIsFree
    <3> QED BY <1>1, <3>1, <3>2, CreateKeeps DEF Fresh
  <2> QED BY <2>1, <2>2
<1>3. ASSUME NEW c \in Courses, NEW n \in Names, Update(c, n) PROVE CoursesInv' /\ KeptStays
  <2>1. c \in Known /\ Begin(c, Changed(c, rows[c].state, n), "restore", "deferred")
    BY <1>3 DEF Update
  <2>2. rows[c].state \in {"active", "archived"} BY <1>1, <2>1, CourseTyped
  <2> QED BY <1>1, <2>1, <2>2, ChangedTyped, BeginKeeps DEF Undos
<1>4. ASSUME NEW c \in Courses, Archive(c) PROVE CoursesInv' /\ KeptStays
  <2>1. c \in Known BY <1>4 DEF Archive
  <2>2. CASE rows[c].state = "archived"
    <3>1. Begin(c, rows[c], "none", "deferred") BY <1>4, <2>2 DEF Archive
    <3> QED BY <1>1, <2>1, <2>2, <3>1, CourseTyped, BeginKeeps DEF Undos
  <2>3. CASE rows[c].state # "archived"
    <3>1. Begin(c, Changed(c, "archived", rows[c].name), "restore", "deferred")
      BY <1>4, <2>3 DEF Archive
    <3>2. rows[c].name \in Names BY <1>1, <2>1, CourseTyped
    <3> QED BY <1>1, <2>1, <3>1, <3>2, ChangedTyped, BeginKeeps DEF Undos
  <2> QED BY <2>2, <2>3
<1>5. ASSUME NEW c \in Courses, RestoreCourse(c) PROVE CoursesInv' /\ KeptStays
  <2>1. c \in Known /\ Activate(c, rows[c].name) BY <1>5 DEF RestoreCourse
  <2>2. rows[c].name \in Names BY <1>1, <2>1, CourseTyped
  <2> QED BY <1>1, <2>1, <2>2, ActivateKeeps
<1> QED BY <1>2, <1>3, <1>4, <1>5 DEF Command

\* After the note: the next course of a synchronization, or the index.
LEMMA NoteDoneKeeps ==
  ASSUME CoursesInv, pc \in {"note", "write"}, NoteDone,
         note' \in [Folders -> {NoNote, Broken} \cup CourseNotes],
         \A f \in Folders: note'[f].kind = "course" => note'[f].id \in Known \cup Old
  PROVE  CoursesInv' /\ KeptStays
<1>1. CoursesTyped /\ RowsInv /\ OpInv BY DEF CoursesInv
<1>2. /\ UNCHANGED <<rows, answer, loose, catalog>> /\ issues' \subseteq issues
      /\ \/ pc' = "index" /\ op' = op
         \/ \E c \in op.rest: pc' = "note" /\ op' = [op EXCEPT !.id = c, !.rest = @ \ {c}]
  BY DEF NoteDone
<1>3. op \in Op /\ op.id \in Known /\ op.rest \subseteq Known /\ Known \subseteq Courses
  BY <1>1 DEF CoursesTyped, OpInv, OfNote, Known
<1>4. Known' = Known BY <1>2 DEF Known
<1>5. op' \in Op /\ op'.mode = op.mode /\ op'.undo = op.undo /\ op'.boot = op.boot
  BY <1>2, <1>3 DEF Op
<1>6. pc' = "note" => /\ op.mode = "whole" /\ op.undo = "none"
                      /\ op'.id \in Known /\ op'.rest \subseteq Known
  BY <1>1, <1>2, <1>3 DEF OpInv, Op
<1>7. pc' \in {"note", "index"} /\ ~Deleting' BY <1>2, <1>5, <1>6 DEF Deleting, OfNote
<1>8. CoursesTyped' BY <1>1, <1>2, <1>5, <1>7 DEF CoursesTyped, Places
<1>9. RowsInv' BY <1>1, <1>2 DEF RowsInv
<1>10. OpInv'
  <2>1. op'.mode # "whole" => op'.rest = {} /\ ~op'.boot
    BY <1>1, <1>2, <1>3, <1>5 DEF OpInv
  <2> QED BY <1>1, <1>4, <1>5, <1>6, <1>7, <2>1 DEF OpInv, OfNote
<1>11. NotesInv' BY <1>4, <1>7 DEF NotesInv
<1>12. CatalogInv' BY <1>5, <1>6, <1>7 DEF CatalogInv, OfNote
<1>13. KeptStays BY <1>4, <1>7 DEF KeptStays, Kept
<1> QED BY <1>8, <1>9, <1>10, <1>11, <1>12, <1>13 DEF CoursesInv

\* When it fails: the change is to be undone, or the operation is over.
LEMMA NoteFailsKeeps ==
  ASSUME CoursesInv, pc \in {"note", "write"}, NEW code \in {"failed", "DUPLICATE_COURSE"},
         NoteFails(code),
         note' \in [Folders -> {NoNote, Broken} \cup CourseNotes],
         \A f \in Folders: note'[f] = note[f] \/ note'[f].kind # "course"
  PROVE  CoursesInv' /\ KeptStays
<1>1. CoursesTyped /\ RowsInv /\ OpInv /\ NotesInv /\ CatalogInv BY DEF CoursesInv
<1>2. UNCHANGED <<rows, catalog, loose>> /\ Known' = Known BY DEF NoteFails, Known
<1>3. RowsInv' BY <1>1, <1>2 DEF RowsInv
<1>4. op \in Op /\ op.id \in Known /\ op.rest \subseteq Known /\ Known \subseteq Courses
  BY <1>1 DEF CoursesTyped, OpInv, OfNote, Known
<1>5. CASE op.mode # "whole" /\ op.undo # "none"
  <2>1. pc' = "undo" /\ op' = [op EXCEPT !.code = code] /\ UNCHANGED <<issues, answer>>
    BY <1>5 DEF NoteFails
  <2>2. op' \in Op /\ op'.id = op.id /\ op'.undo = op.undo /\ op'.mode = op.mode
        /\ op'.before = op.before /\ op'.rest = op.rest /\ op'.boot = op.boot /\ op'.code = code
    BY <1>4, <2>1 DEF Op, Codes
  <2>3. Deleting' <=> Deleting BY <2>1, <2>2 DEF Deleting, OfNote
  <2>4. CoursesTyped' BY <1>1, <1>2, <2>1, <2>2 DEF CoursesTyped, Places
  <2>5. OpInv' BY <1>1, <1>2, <1>5, <2>1, <2>2 DEF OpInv, OfNote
  <2>6. NotesInv' BY <1>1, <1>2, <2>2, <2>3 DEF NotesInv
  <2>7. CatalogInv' BY <1>1, <1>2, <2>1, <2>2 DEF CatalogInv, OfNote
  <2>8. KeptStays BY <1>2, <2>2, <2>3 DEF KeptStays, Kept
  <2> QED BY <1>3, <2>4, <2>5, <2>6, <2>7, <2>8 DEF CoursesInv
<1>6. CASE op.mode = "whole" \/ op.undo = "none"
  <2>1. /\ pc' = "idle" /\ op' = NoOp /\ answer' \in {"failed", "DUPLICATE_COURSE"}
        /\ \/ op.mode = "whole" /\ issues' = issues \cup {<<"course-note", op.id>>}
           \/ op.mode # "whole" /\ op.undo = "none" /\ issues' = issues
    BY <1>6 DEF NoteFails, End
  <2>2. ~Deleting' /\ ~Deleting BY <1>1, <1>6, <2>1 DEF Deleting, OfNote, OpInv
  <2>3. CoursesTyped' BY <1>1, <1>2, <1>4, <2>1, NoRowTyped DEF CoursesTyped, Places, Codes
  <2>4. OpInv' BY <2>1 DEF OpInv, OfNote, NoOp
  <2>5. NotesInv' BY <1>1, <1>2, <2>2 DEF NotesInv
  <2>6. CatalogInv'
    <3>1. op.mode # "whole" => [rows EXCEPT ![op.id] = op.before] = rows
      BY <1>1, <1>4, <1>6 DEF OpInv, OfNote, CoursesTyped
    <3>2. Active' = ListedIn(rows) BY <1>2, ActiveIsListed DEF Active, ListedIn
    <3> QED BY <1>1, <1>2, <2>1, <3>1, <3>2 DEF CatalogInv, OfNote
  <2>7. KeptStays BY <1>2, <2>2 DEF KeptStays, Kept
  <2> QED BY <1>3, <2>3, <2>4, <2>5, <2>6, <2>7 DEF CoursesInv
<1> QED BY <1>5, <1>6

LEMMA ReadNoteKeeps == ASSUME CoursesInv, ReadNote PROVE CoursesInv' /\ KeptStays
<1>1. pc = "note" /\ note' = note BY DEF ReadNote
<1>2. CoursesTyped /\ RowsInv /\ OpInv /\ NotesInv BY DEF CoursesInv
<1>3. /\ note' \in [Folders -> {NoNote, Broken} \cup CourseNotes]
      /\ \A f \in Folders: note'[f].kind = "course" => note'[f].id \in Known \cup Old
      /\ \A f \in Folders: note'[f] = note[f]
  BY <1>1, <1>2 DEF CoursesTyped, NotesInv
<1>4. CASE NoteDone BY <1>1, <1>3, <1>4, NoteDoneKeeps
<1>5. CASE NoteFails("failed") BY <1>1, <1>3, <1>5, NoteFailsKeeps
<1>6. CASE NoteFails("DUPLICATE_COURSE") BY <1>1, <1>3, <1>6, NoteFailsKeeps
<1>7. CASE /\ pc' = "write" /\ op' = [op EXCEPT !.stale = FALSE]
           /\ UNCHANGED <<rows, catalog, issues, answer, loose>>
  <2>1. op' \in Op /\ op'.id = op.id /\ op'.undo = op.undo /\ op'.mode = op.mode
        /\ op'.before = op.before /\ op'.rest = op.rest /\ op'.boot = op.boot
    BY <1>2, <1>7 DEF Op, CoursesTyped
  <2>2. Known' = Known BY <1>7 DEF Known
  <2>3. Deleting' <=> Deleting BY <1>1, <1>7, <2>1 DEF Deleting, OfNote
  <2>4. CoursesTyped' BY <1>1, <1>2, <1>7, <2>1 DEF CoursesTyped, Places
  <2>5. RowsInv' /\ OpInv' BY <1>1, <1>2, <1>7, <2>1, <2>2 DEF RowsInv, OpInv, OfNote
  <2>6. NotesInv' BY <1>1, <1>2, <2>1, <2>2, <2>3 DEF NotesInv
  <2>7. CatalogInv' BY <1>1, <1>7, <2>1 DEF CoursesInv, CatalogInv, OfNote
  <2>8. KeptStays BY <2>1, <2>2, <2>3 DEF KeptStays, Kept
  <2> QED BY <2>4, <2>5, <2>6, <2>7, <2>8 DEF CoursesInv
<1> QED BY <1>4, <1>5, <1>6, <1>7 DEF ReadNote

LEMMA DesiredTyped ==
  ASSUME CoursesTyped, RowsInv, NEW c \in Known
  PROVE  Desired(c) \in CourseNotes /\ Desired(c).id = c
<1>1. c \in Courses BY DEF Known
<1> QED BY <1>1, CourseTyped DEF Desired, CourseNote, CourseNotes

LEMMA WriteNoteKeeps == ASSUME CoursesInv, WriteNote PROVE CoursesInv' /\ KeptStays
<1>1. CoursesTyped /\ RowsInv /\ OpInv /\ NotesInv BY DEF CoursesInv
<1>2. pc = "write" /\ op.id \in Known BY <1>1 DEF WriteNote, OpInv, OfNote
<1> DEFINE f == rows[op.id].folder
<1>3. CASE note' = [note EXCEPT ![f] = Desired(op.id)] /\ NoteDone
  <2>1. note' \in [Folders -> {NoNote, Broken} \cup CourseNotes]
    BY <1>1, <1>2, <1>3, DesiredTyped DEF CoursesTyped
  <2>2. \A g \in Folders: note'[g] = note[g] \/ note'[g] = Desired(op.id)
    BY <1>1, <1>3 DEF CoursesTyped
  <2>3. \A g \in Folders: note'[g].kind = "course" => note'[g].id \in Known \cup Old
    BY <1>1, <1>2, <2>2, DesiredTyped DEF NotesInv
  <2> QED BY <1>2, <1>3, <2>1, <2>3, NoteDoneKeeps
<1>4. CASE /\ note' = note \/ note' = [note EXCEPT ![f] = NoNote]
           /\ NoteFails("failed") \/ NoteFails("DUPLICATE_COURSE")
  <2>1. /\ note' \in [Folders -> {NoNote, Broken} \cup CourseNotes]
        /\ \A g \in Folders: note'[g] = note[g] \/ note'[g] = NoNote
    BY <1>1, <1>4 DEF CoursesTyped
  <2>2. \A g \in Folders: note'[g] = note[g] \/ note'[g].kind # "course" BY <2>1 DEF NoNote
  <2> QED BY <1>2, <1>4, <2>1, <2>2, NoteFailsKeeps
<1> QED BY <1>3, <1>4 DEF WriteNote

LEMMA UndoKeeps == ASSUME CoursesInv, Undo PROVE CoursesInv' /\ KeptStays
<1>1. CoursesTyped /\ RowsInv /\ OpInv /\ NotesInv /\ CatalogInv BY DEF CoursesInv
<1>2. /\ pc = "undo" /\ op.id \in Known /\ op.id \in Courses /\ op \in Op
      /\ op.mode # "whole" /\ op.undo \in {"delete", "restore"}
      /\ op.code \in {"failed", "DUPLICATE_COURSE"}
  BY <1>1 DEF Undo, OpInv, OfNote, Known, CoursesTyped, Op, Undos
<1>3. /\ pc' = "idle" /\ op' = NoOp /\ answer' \in {op.code, "failed"}
      /\ UNCHANGED <<note, catalog, issues>>
  BY DEF Undo, End
<1>4. ~Deleting' /\ OpInv' BY <1>3 DEF Deleting, OfNote, OpInv, NoOp
<1>5. CASE rows' = rows /\ loose' = TRUE
  <2>1. Known' = Known BY <1>5 DEF Known
  <2>2. CoursesTyped' BY <1>1, <1>2, <1>3, <1>5, NoRowTyped DEF CoursesTyped, Places, Codes
  <2>3. RowsInv' BY <1>1, <1>5 DEF RowsInv
  <2>4. NotesInv' BY <1>1, <1>3, <1>4, <2>1 DEF NotesInv
  <2>5. CatalogInv' BY <1>5 DEF CatalogInv
  <2>6. KeptStays BY <1>4, <2>1 DEF KeptStays, Kept
  <2> QED BY <1>4, <2>2, <2>3, <2>4, <2>5, <2>6 DEF CoursesInv
<1>6. CASE op.undo = "delete" /\ rows' = [rows EXCEPT ![op.id] = NoRow] /\ loose' = loose
  <2>1. rows' \in [Courses -> Row] /\ rows'[op.id] = NoRow
        /\ \A c \in Courses \ {op.id}: rows'[c] = rows[c]
    BY <1>1, <1>2, <1>6, NoRowTyped DEF CoursesTyped
  <2>2. Deleting /\ Known' = Known \ {op.id} BY <1>2, <1>6, <2>1 DEF Known, NoRow, Deleting, OfNote
  <2>3. CoursesTyped' BY <1>1, <1>2, <1>3, <2>1, NoRowTyped DEF CoursesTyped, Places, Codes
  <2>4. RowsInv' BY <1>1, <2>1 DEF RowsInv, NoRow
  <2>5. NotesInv' BY <1>1, <1>3, <1>4, <2>2 DEF NotesInv
  <2>6. CatalogInv'
    <3>1. op.before.state = "none" BY <1>1, <2>2 DEF NotesInv
    <3> DEFINE was == [rows EXCEPT ![op.id] = op.before]
    <3>2. \A c \in Courses: was[c].state = rows'[c].state
                            /\ (was[c].state = "active" => was[c].name = rows'[c].name)
      BY <1>1, <1>2, <2>1, <3>1 DEF CoursesTyped, NoRow
    <3>3. ListedIn(was) = ListedIn(rows') BY <3>2, ListedAlike
    <3>4. Active' = ListedIn(rows') BY DEF Active, ListedIn
    <3> QED BY <1>1, <1>2, <1>3, <1>6, <3>3, <3>4 DEF CatalogInv, OfNote
  <2>7. KeptStays BY <1>4, <2>2 DEF KeptStays, Kept
  <2> QED BY <1>4, <2>3, <2>4, <2>5, <2>6, <2>7 DEF CoursesInv
<1>7. CASE /\ op.undo = "restore" /\ loose' = loose
           /\ rows' = [rows EXCEPT ![op.id] = [op.before EXCEPT !.rev = rows[op.id].rev + 1]]
  <2> DEFINE row == [op.before EXCEPT !.rev = rows[op.id].rev + 1]
  <2>1. /\ op.before \in Row /\ op.before.state # "none"
        /\ op.before.name \in Names /\ op.before.folder \in Folders
    BY <1>1, <1>2, <1>7 DEF OpInv, OfNote, Op
  <2>2. rows[op.id].rev + 1 \in Nat BY <1>1, <1>2, CourseTyped
  <2>3. /\ row \in Row /\ row.state = op.before.state
        /\ row.name = op.before.name /\ row.folder = op.before.folder
    BY <2>1, <2>2 DEF Row
  <2>4. rows' \in [Courses -> Row] /\ rows'[op.id] = row
        /\ \A c \in Courses \ {op.id}: rows'[c] = rows[c]
    BY <1>1, <1>2, <1>7, <2>3 DEF CoursesTyped
  <2>5. Known' = Known BY <1>2, <2>1, <2>3, <2>4 DEF Known
  <2>6. CoursesTyped' BY <1>1, <1>2, <1>3, <2>4, NoRowTyped DEF CoursesTyped, Places, Codes
  <2>7. RowsInv' BY <1>1, <2>1, <2>3, <2>4 DEF RowsInv
  <2>8. NotesInv' BY <1>1, <1>3, <1>4, <2>5 DEF NotesInv
  <2>9. CatalogInv'
    <3> DEFINE was == [rows EXCEPT ![op.id] = op.before]
    <3>1. \A c \in Courses: was[c].state = rows'[c].state /\ was[c].name = rows'[c].name
      BY <1>1, <1>2, <2>3, <2>4 DEF CoursesTyped
    <3>2. ListedIn(was) = ListedIn(rows') BY <3>1, ListedAlike
    <3>3. Active' = ListedIn(rows') BY DEF Active, ListedIn
    <3> QED BY <1>1, <1>2, <1>3, <1>7, <3>2, <3>3 DEF CatalogInv, OfNote
  <2>10. KeptStays BY <1>4, <2>5 DEF KeptStays, Kept
  <2> QED BY <1>4, <2>6, <2>7, <2>8, <2>9, <2>10 DEF CoursesInv
<1> QED BY <1>2, <1>5, <1>6, <1>7 DEF Undo

LEMMA IndexFailsKeeps ==
  ASSUME CoursesInv, pc \in {"index", "writeIndex", "publish"}, IndexFails,
         catalog' \in {catalog, {}}
  PROVE  CoursesInv' /\ KeptStays
<1>1. CoursesTyped /\ RowsInv /\ NotesInv BY DEF CoursesInv
<1>2. /\ UNCHANGED <<rows, note, loose>> /\ pc' = "idle" /\ op' = NoOp
      /\ answer' \in {"ok", "failed"}
  BY DEF IndexFails, End
<1>3. issues' # {} /\ issues' \subseteq {"course-note", "indexes"} \X (Courses \cup {None})
  <2>1. op.id \in Courses \cup {None} BY <1>1 DEF CoursesTyped, Op
  <2>2. CASE op.mode # "whole"
    <3>1. issues' = issues \cup {<<"indexes", op.id>>} BY <2>2 DEF IndexFails
    <3>2. <<"indexes", op.id>> \in {"course-note", "indexes"} \X (Courses \cup {None}) BY <2>1
    <3>3. <<"indexes", op.id>> \in issues' BY <3>1
    <3> QED BY <1>1, <3>1, <3>2, <3>3 DEF CoursesTyped
  <2>3. CASE op.mode = "whole" /\ Known = {}
    <3>1. issues' = issues \cup {<<"indexes", None>>} BY <2>3 DEF IndexFails
    <3>2. <<"indexes", None>> \in {"course-note", "indexes"} \X (Courses \cup {None}) OBVIOUS
    <3>3. <<"indexes", None>> \in issues' BY <3>1
    <3> QED BY <1>1, <3>1, <3>2, <3>3 DEF CoursesTyped
  <2>4. CASE op.mode = "whole" /\ Known # {}
    <3>1. issues' = issues \cup {<<"indexes", c>>: c \in Known} BY <2>4 DEF IndexFails
    <3>2. PICK c \in Known: TRUE BY <2>4
    <3>3. <<"indexes", c>> \in issues' BY <3>1, <3>2
    <3>4. Known \subseteq Courses BY DEF Known
    <3> QED BY <1>1, <3>1, <3>3, <3>4 DEF CoursesTyped
  <2> QED BY <2>2, <2>3, <2>4
<1>4. ~Deleting' /\ Known' = Known BY <1>2 DEF Deleting, OfNote, Known
<1>5. CoursesTyped' BY <1>1, <1>2, <1>3, NoRowTyped DEF CoursesTyped, Places, Codes
<1>6. RowsInv' /\ OpInv' BY <1>1, <1>2 DEF RowsInv, OpInv, OfNote, NoOp
<1>7. NotesInv' BY <1>1, <1>2, <1>4 DEF NotesInv
<1>8. CatalogInv' BY <1>3 DEF CatalogInv
<1>9. KeptStays BY <1>4 DEF KeptStays, Kept
<1> QED BY <1>5, <1>6, <1>7, <1>8, <1>9 DEF CoursesInv

\* From one step of the indexes to the next.
LEMMA IndexGoesOn ==
  ASSUME CoursesInv, pc \in {"index", "writeIndex"}, pc' \in {"writeIndex", "publish"},
         op' = op \/ op' = [op EXCEPT !.stale = FALSE],
         UNCHANGED <<rows, note, catalog, issues, answer, loose>>
  PROVE  CoursesInv' /\ KeptStays
<1>1. CoursesTyped /\ RowsInv /\ OpInv /\ NotesInv BY DEF CoursesInv
<1>2. /\ op' \in Op /\ op'.mode = op.mode /\ op'.undo = op.undo /\ op'.rest = op.rest
      /\ op'.boot = op.boot
  BY <1>1 DEF Op, CoursesTyped
<1>3. ~Deleting' /\ Known' = Known BY DEF Deleting, OfNote, Known
<1>4. CoursesTyped' BY <1>1, <1>2 DEF CoursesTyped, Places
<1>5. RowsInv' /\ OpInv' BY <1>1, <1>2 DEF RowsInv, OpInv, OfNote
<1>6. NotesInv' BY <1>1, <1>3 DEF NotesInv
<1>7. CatalogInv' BY DEF CatalogInv, OfNote
<1>8. KeptStays BY <1>3 DEF KeptStays, Kept
<1> QED BY <1>4, <1>5, <1>6, <1>7, <1>8 DEF CoursesInv

LEMMA ReadIndexKeeps == ASSUME CoursesInv, ReadIndex PROVE CoursesInv' /\ KeptStays
<1>1. CASE IndexFails /\ UNCHANGED catalog BY <1>1, IndexFailsKeeps DEF ReadIndex
<1>2. CASE /\ pc' = (IF index = IndexOf(Active) THEN "publish" ELSE "writeIndex")
           /\ op' = [op EXCEPT !.stale = FALSE]
           /\ UNCHANGED <<rows, note, catalog, issues, answer, loose>>
  BY <1>2, IndexGoesOn DEF ReadIndex
<1> QED BY <1>1, <1>2 DEF ReadIndex

LEMMA WriteIndexKeeps == ASSUME CoursesInv, WriteIndex PROVE CoursesInv' /\ KeptStays
<1>1. CASE IndexFails /\ UNCHANGED catalog BY <1>1, IndexFailsKeeps DEF WriteIndex
<1>2. CASE pc' = "publish" /\ UNCHANGED <<rows, note, catalog, issues, op, answer, loose>>
  BY <1>2, IndexGoesOn DEF WriteIndex
<1> QED BY <1>1, <1>2 DEF WriteIndex

LEMMA ActiveTyped ==
  ASSUME CoursesTyped, RowsInv
  PROVE  Active \subseteq Courses \X Names /\ IdsOf(Active) \subseteq Known
<1>1. \A c \in Courses: rows[c].state = "active" => c \in Known /\ rows[c].name \in Names
  BY CourseTyped
<1>2. \A a \in Active: \E c \in Known: c \in Courses /\ a = <<c, rows[c].name>> /\ rows[c].name \in Names
  BY <1>1 DEF Active
<1>3. Active \subseteq Courses \X Names BY <1>2
<1>4. \A a \in Active: a[1] \in Known BY <1>2
<1> QED BY <1>3, <1>4 DEF IdsOf

LEMMA PublishKeeps == ASSUME CoursesInv, Publish PROVE CoursesInv' /\ KeptStays
<1>1. CoursesTyped /\ RowsInv /\ OpInv /\ NotesInv BY DEF CoursesInv
<1>2. CASE IndexFails /\ catalog' \in {catalog, {}} BY <1>2, IndexFailsKeeps DEF Publish
<1>3. CASE /\ catalog' = Active /\ issues' = {i \in issues: i[1] # "indexes"} /\ loose' = FALSE
           /\ IF op.boot THEN pc' = "rebuildAgain" /\ UNCHANGED <<op, answer>> ELSE End("ok")
           /\ UNCHANGED <<rows, note>>
  <2>1. /\ pc' \in {"rebuildAgain", "idle"} /\ op' \in {op, NoOp} /\ answer' \in {answer, "ok"}
    BY <1>3 DEF End
  <2>2. ~Deleting' /\ Known' = Known /\ Active' = Active
    BY <1>3, <2>1 DEF Deleting, OfNote, Known, Active
  <2>3. catalog' \subseteq Courses \X Names BY <1>1, <1>3, ActiveTyped
  <2>4. CoursesTyped' BY <1>1, <1>3, <2>1, <2>3, NoRowTyped DEF CoursesTyped, Places, Codes
  <2>5. RowsInv' /\ OpInv' BY <1>1, <1>3, <2>1 DEF RowsInv, OpInv, OfNote, NoOp
  <2>6. NotesInv' BY <1>1, <1>3, <2>2 DEF NotesInv
  <2>7. CatalogInv' BY <1>3, <2>1, <2>2 DEF CatalogInv, OfNote
  <2>8. KeptStays BY <2>2 DEF KeptStays, Kept
  <2> QED BY <2>4, <2>5, <2>6, <2>7, <2>8 DEF CoursesInv
<1> QED BY <1>2, <1>3 DEF Publish

\* synchronize() takes up all courses there are.
LEMMA SynchronizeKeeps ==
  ASSUME CoursesInv, NEW boot \in BOOLEAN, Synchronize(boot),
         rows' \in [Courses -> Row], RowsInv', Known \subseteq Known',
         note' \in [Folders -> {NoNote, Broken} \cup CourseNotes],
         \A f \in Folders: note'[f] = note[f] \/ note'[f].kind # "course",
         UNCHANGED <<catalog, answer>>, issues' \subseteq issues
  PROVE  CoursesInv' /\ KeptStays
<1>1. CoursesTyped /\ NotesInv BY DEF CoursesInv
<1>2. \A c \in Courses: c \in Known' <=> rows'[c] # NoRow
  BY DEF Known, RowsInv, NoRow
<1>3. /\ pc' \in {"index", "note"} /\ op'.mode = "whole" /\ op'.undo = "none" /\ op' \in Op
      /\ pc' = "note" => op'.id \in Known' /\ op'.rest \subseteq Known'
  <2>1. CASE pc' = "index" /\ op' = WholeOp(boot)
    BY <2>1, NoRowTyped DEF WholeOp, NoOp, Op, Modes
  <2>2. CASE \E c \in Courses:
           /\ rows'[c] # NoRow
           /\ pc' = "note"
           /\ op' = [WholeOp(boot) EXCEPT !.id = c, !.rest = {d \in Courses \ {c}: rows'[d] # NoRow}]
    <3>1. PICK c \in Courses:
           /\ rows'[c] # NoRow
           /\ pc' = "note"
           /\ op' = [WholeOp(boot) EXCEPT !.id = c, !.rest = {d \in Courses \ {c}: rows'[d] # NoRow}]
      BY <2>2
    <3>2. op'.id = c /\ op'.rest = {d \in Courses \ {c}: rows'[d] # NoRow}
          /\ op'.mode = "whole" /\ op'.undo = "none"
      BY <3>1 DEF WholeOp, NoOp
    <3>3. op' \in Op BY <3>1, NoRowTyped DEF WholeOp, NoOp, Op, Modes
    <3> QED BY <1>2, <3>1, <3>2, <3>3
  <2> QED BY <2>1, <2>2 DEF Synchronize
<1>4. ~Deleting' BY <1>3 DEF Deleting
<1>5. CoursesTyped' BY <1>1, <1>3 DEF CoursesTyped, Places
<1>6. OpInv' BY <1>3 DEF OpInv, OfNote
<1>7. NotesInv' BY <1>1, <1>4 DEF NotesInv
<1>8. CatalogInv' BY <1>3 DEF CatalogInv, OfNote
<1>9. KeptStays BY <1>4 DEF KeptStays, Kept
<1> QED BY <1>5, <1>6, <1>7, <1>8, <1>9 DEF CoursesInv

\* Without a runtime nothing is under way.
LEMMA NoRuntimeKeeps ==
  ASSUME CoursesInv, NoRuntime, UNCHANGED <<rows, catalog, loose>>, issues' \subseteq issues,
         note' \in [Folders -> {NoNote, Broken} \cup CourseNotes],
         \A f \in Folders: note'[f] = note[f] \/ note'[f].kind # "course"
  PROVE  CoursesInv' /\ KeptStays
<1>1. CoursesTyped /\ RowsInv /\ NotesInv BY DEF CoursesInv
<1>2. pc' = "off" /\ op' = NoOp /\ answer' = "failed" BY DEF NoRuntime
<1>3. ~Deleting' /\ Known' = Known BY <1>2 DEF Deleting, OfNote, Known
<1>4. CoursesTyped' BY <1>1, <1>2, NoRowTyped DEF CoursesTyped, Places, Codes
<1>5. RowsInv' /\ OpInv' BY <1>1, <1>2 DEF RowsInv, OpInv, OfNote, NoOp
<1>6. NotesInv' BY <1>1, <1>3 DEF NotesInv
<1>7. CatalogInv' BY <1>2 DEF CatalogInv, OfNote
<1>8. KeptStays BY <1>3 DEF KeptStays, Kept
<1> QED BY <1>4, <1>5, <1>6, <1>7, <1>8 DEF CoursesInv

LEMMA ChooseVaultKeeps == ASSUME CoursesInv, ChooseVault PROVE CoursesInv' /\ KeptStays
<1>1. CoursesTyped /\ RowsInv /\ OpInv /\ NotesInv /\ CatalogInv BY DEF CoursesInv
<1>2. CASE Refuse("failed")
  <2>1. UNCHANGED <<rows, note, catalog, issues, op, pc, loose>> /\ answer' = "failed"
    BY <1>2 DEF Refuse
  <2>2. Kept' = Kept /\ Known' = Known /\ Active' = Active /\ (Deleting' <=> Deleting)
    BY <2>1, KeptUnchanged
  <2>3. CoursesTyped' BY <1>1, <2>1 DEF CoursesTyped, Codes
  <2>4. RowsInv' /\ OpInv' BY <1>1, <2>1, <2>2 DEF RowsInv, OpInv
  <2>5. NotesInv' BY <1>1, <2>1, <2>2 DEF NotesInv
  <2>6. CatalogInv' BY <1>1, <2>1, <2>2 DEF CatalogInv
  <2> QED BY <2>2, <2>3, <2>4, <2>5, <2>6 DEF CoursesInv, KeptStays
<1>3. CASE /\ note' = note \/ note' = [f \in Folders |-> NoNote]
           /\ issues' = {} /\ UNCHANGED <<rows, catalog, loose>>
           /\ (Synchronize(FALSE) /\ UNCHANGED answer) \/ NoRuntime
  <2>1. note' \in [Folders -> {NoNote, Broken} \cup CourseNotes] BY <1>1, <1>3 DEF CoursesTyped
  <2>2. \A f \in Folders: note'[f] = note[f] \/ note'[f].kind # "course" BY <1>3 DEF NoNote
  <2>3. rows' \in [Courses -> Row] /\ RowsInv' /\ Known' = Known
    BY <1>1, <1>3 DEF CoursesTyped, RowsInv, Known
  <2>4. CASE NoRuntime BY <1>3, <2>1, <2>2, <2>4, NoRuntimeKeeps
  <2>5. CASE Synchronize(FALSE) /\ UNCHANGED answer
    BY <1>3, <2>1, <2>2, <2>3, <2>5, SynchronizeKeeps
  <2> QED BY <1>3, <2>4, <2>5
<1> QED BY <1>2, <1>3 DEF ChooseVault

LEMMA StopKeeps == ASSUME CoursesInv, Stop PROVE CoursesInv' /\ KeptStays
<1>1. CoursesTyped BY DEF CoursesInv
<1>2. note' = note /\ note \in [Folders -> {NoNote, Broken} \cup CourseNotes]
  BY <1>1 DEF Stop, CoursesTyped
<1> QED BY <1>2, NoRuntimeKeeps DEF Stop

LEMMA StartKeeps == ASSUME CoursesInv, Start PROVE CoursesInv' /\ KeptStays
<1>1. CoursesTyped /\ RowsInv /\ OpInv /\ NotesInv BY DEF CoursesInv
<1>2. UNCHANGED <<rows, note, catalog, issues, loose>> /\ Known' = Known BY DEF Start, Known
<1>3. CASE NoRuntime BY <1>1, <1>2, <1>3, NoRuntimeKeeps DEF CoursesTyped
<1>4. CASE pc' = "rebuild" /\ op' = WholeOp(TRUE) /\ UNCHANGED answer
  <2>1. op' \in Op /\ op'.mode = "whole" /\ op'.undo = "none"
    BY <1>4, NoRowTyped DEF WholeOp, NoOp, Op, Modes
  <2>2. ~Deleting' BY <2>1 DEF Deleting
  <2>3. CoursesTyped' BY <1>1, <1>2, <1>4, <2>1 DEF CoursesTyped, Places
  <2>4. RowsInv' /\ OpInv' BY <1>1, <1>2, <1>4, <2>1 DEF RowsInv, OpInv, OfNote
  <2>5. NotesInv' BY <1>1, <1>2, <2>2 DEF NotesInv
  <2>6. CatalogInv' BY <1>4 DEF CatalogInv, OfNote
  <2>7. KeptStays BY <1>2, <2>2 DEF KeptStays, Kept
  <2> QED BY <2>3, <2>4, <2>5, <2>6, <2>7 DEF CoursesInv
<1> QED BY <1>3, <1>4 DEF Start

\* Rows are only added, and an added row is that of a note.
LEMMA InsertKeeps ==
  ASSUME CoursesInv, NEW fs \in SUBSET Missing, Restored(fs)
  PROVE  /\ rows' \in [Courses -> Row] /\ RowsInv' /\ Known \subseteq Known'
         /\ fs = {} => rows' = rows
<1>1. CoursesTyped /\ RowsInv BY DEF CoursesInv
<1>2. CASE UNCHANGED rows BY <1>1, <1>2 DEF CoursesTyped, RowsInv, Known
<1>3. CASE Insert(fs)
  <2>1. \A f \in fs: f \in Folders /\ note[f] \in CourseNotes /\ note[f].id \notin Known
    BY <1>1 DEF Missing, Recovered, CoursesTyped, NoNote, Broken
  <2>2. \A f \in fs: /\ RowFrom(f) \in Row /\ RowFrom(f).state # "none"
                     /\ RowFrom(f).name \in Names /\ RowFrom(f).folder \in Folders
    BY <2>1 DEF RowFrom, Row, CourseNotes
  <2>3. rows' = [c \in Courses |->
          IF \E f \in fs: note[f].id = c THEN RowFrom(CHOOSE f \in fs: note[f].id = c) ELSE rows[c]]
    BY <1>3 DEF Insert
  <2>4. ASSUME NEW c \in Courses
        PROVE  \/ c \notin Known /\ \E f \in fs: rows'[c] = RowFrom(f)
               \/ (\A f \in fs: note[f].id # c) /\ rows'[c] = rows[c]
    <3>1. CASE \E f \in fs: note[f].id = c
      <4>1. (CHOOSE f \in fs: note[f].id = c) \in fs BY <3>1
      <4> QED BY <2>1, <2>3, <3>1, <4>1
    <3>2. CASE ~(\E f \in fs: note[f].id = c) BY <2>3, <3>2
    <3> QED BY <3>1, <3>2
  <2>5. \A c \in Courses: rows'[c] \in Row BY <1>1, <2>2, <2>4 DEF CoursesTyped
  <2>6. rows' \in [Courses -> Row] BY <2>3, <2>5
  <2>7. RowsInv' BY <1>1, <2>2, <2>4 DEF RowsInv
  <2>8. Known \subseteq Known' BY <2>2, <2>4 DEF Known
  <2>9. fs = {} => rows' = rows BY <1>1, <2>3 DEF CoursesTyped
  <2> QED BY <2>6, <2>7, <2>8, <2>9
<1> QED BY <1>2, <1>3 DEF Restored

LEMMA RebuildKeeps == ASSUME CoursesInv, Rebuild PROVE CoursesInv' /\ KeptStays
<1>1. CoursesTyped BY DEF CoursesInv
<1>2. PICK fs \in SUBSET Missing: Restored(fs) BY DEF Rebuild
<1>3. rows' \in [Courses -> Row] /\ RowsInv' /\ Known \subseteq Known' BY <1>2, InsertKeeps
<1>4. /\ Synchronize(TRUE) /\ UNCHANGED <<note, catalog, issues, answer>>
      /\ note' \in [Folders -> {NoNote, Broken} \cup CourseNotes]
  BY <1>1 DEF Rebuild, CoursesTyped
<1> QED BY <1>3, <1>4, SynchronizeKeeps

LEMMA RebuildAgainKeeps == ASSUME CoursesInv, RebuildAgain PROVE CoursesInv' /\ KeptStays
<1>1. CoursesTyped /\ NotesInv /\ CatalogInv BY DEF CoursesInv
<1>2. PICK fs \in SUBSET Missing: Restored(fs) /\ loose' = (loose \/ fs # {}) BY DEF RebuildAgain
<1>3. /\ rows' \in [Courses -> Row] /\ RowsInv' /\ Known \subseteq Known'
      /\ fs = {} => rows' = rows
  BY <1>2, InsertKeeps
<1>4. /\ pc = "rebuildAgain" /\ pc' = "idle" /\ op' = NoOp /\ answer' = "ok"
      /\ UNCHANGED <<note, catalog, issues>>
  BY DEF RebuildAgain, End
<1>5. ~Deleting' BY <1>4 DEF Deleting, OfNote
<1>6. CoursesTyped' BY <1>1, <1>3, <1>4, NoRowTyped DEF CoursesTyped, Places, Codes
<1>7. OpInv' BY <1>4 DEF OpInv, OfNote, NoOp
<1>8. NotesInv' BY <1>1, <1>3, <1>4, <1>5 DEF NotesInv
<1>9. CatalogInv'
  <2>1. fs = {} => Active' = Active BY <1>3 DEF Active
  <2>2. issues' = {} /\ ~loose' => issues = {} /\ ~loose /\ fs = {} BY <1>2, <1>4
  <2> QED BY <1>1, <1>4, <2>1, <2>2 DEF CatalogInv, OfNote
<1>10. KeptStays BY <1>3, <1>5 DEF KeptStays, Kept
<1> QED BY <1>3, <1>6, <1>7, <1>8, <1>9, <1>10 DEF CoursesInv

LEMMA EditKeeps == ASSUME CoursesInv, Edit PROVE CoursesInv' /\ KeptStays
<1>1. CoursesTyped /\ RowsInv /\ OpInv /\ NotesInv /\ CatalogInv BY DEF CoursesInv
<1>2. UNCHANGED <<rows, catalog, issues, pc, answer, loose>> BY DEF Edit
<1>3. /\ op' \in Op /\ op'.id = op.id /\ op'.undo = op.undo /\ op'.mode = op.mode
      /\ op'.before = op.before /\ op'.rest = op.rest /\ op'.boot = op.boot /\ op'.code = op.code
  <2>1. \E b \in BOOLEAN: op' = [op EXCEPT !.stale = b]
    <3>1. op.stale \in BOOLEAN BY <1>1 DEF CoursesTyped, Op
    <3>2. CASE \E f \in Folders: op' = [op EXCEPT !.stale = @ \/ (pc = "write" /\ rows[op.id].folder = f)]
      <4>1. PICK f \in Folders: op' = [op EXCEPT !.stale = @ \/ (pc = "write" /\ rows[op.id].folder = f)]
        BY <3>2
      <4>2. op' = [op EXCEPT !.stale = op.stale \/ (pc = "write" /\ rows[op.id].folder = f)]
        BY <1>1, <4>1 DEF CoursesTyped, Op
      <4> QED BY <3>1, <4>2
    <3>3. CASE op' = [op EXCEPT !.stale = @ \/ pc = "writeIndex"]
      <4>1. op' = [op EXCEPT !.stale = op.stale \/ pc = "writeIndex"]
        BY <1>1, <3>3 DEF CoursesTyped, Op
      <4> QED BY <3>1, <4>1
    <3> QED BY <3>2, <3>3 DEF Edit
  <2> QED BY <1>1, <2>1 DEF CoursesTyped, Op
<1>4. Kept' = Kept /\ Known' = Known /\ Active' = Active /\ (Deleting' <=> Deleting)
  BY <1>2, <1>3, KeptUnchanged
<1>5. /\ note' \in [Folders -> {NoNote, Broken} \cup CourseNotes]
      /\ \A f \in Folders: \/ note'[f] = note[f] \/ note'[f].kind # "course"
                           \/ note'[f].id \in Old
  <2>1. CASE UNCHANGED note BY <1>1, <2>1 DEF CoursesTyped
  <2>2. CASE \E f \in Folders:
               note' \in {[note EXCEPT ![f] = v]: v \in {note[f], NoNote, Broken} \cup
                 {CourseNote(c, NewRow(n)): c \in Old, n \in {m \in Names: FolderOf[m] = f}}}
    <3>0. PICK f \in Folders:
               note' \in {[note EXCEPT ![f] = v]: v \in {note[f], NoNote, Broken} \cup
                 {CourseNote(c, NewRow(n)): c \in Old, n \in {m \in Names: FolderOf[m] = f}}}
      BY <2>2
    <3>1. PICK v \in {note[f], NoNote, Broken} \cup
                 {CourseNote(c, NewRow(n)): c \in Old, n \in {m \in Names: FolderOf[m] = f}}:
                 note' = [note EXCEPT ![f] = v]
      BY <3>0
    <3>2. CASE v \in {note[f], NoNote, Broken}
      BY <1>1, <3>1, <3>2 DEF CoursesTyped, NoNote, Broken
    <3>3. CASE v \in {CourseNote(c, NewRow(n)): c \in Old, n \in {m \in Names: FolderOf[m] = f}}
      <4>1. PICK c \in Old, n \in Names: v = CourseNote(c, NewRow(n)) BY <3>3
      <4>2. v \in CourseNotes /\ v.id = c
        BY <4>1, CourseAssumption DEF CourseNotes, CourseNote, NewRow
      <4> QED BY <1>1, <3>1, <4>2 DEF CoursesTyped
    <3> QED BY <3>2, <3>3
  <2> QED BY <2>1, <2>2 DEF Edit
<1>6. CoursesTyped' BY <1>1, <1>2, <1>3, <1>5 DEF CoursesTyped
<1>7. RowsInv' /\ OpInv' BY <1>1, <1>2, <1>3, <1>4 DEF RowsInv, OpInv
<1>8. NotesInv' BY <1>1, <1>3, <1>4, <1>5 DEF NotesInv
<1>9. CatalogInv' BY <1>1, <1>2, <1>3, <1>4 DEF CatalogInv
<1> QED BY <1>4, <1>6, <1>7, <1>8, <1>9 DEF CoursesInv, KeptStays

-----------------------------------------------------------------------------
(* The phone.                                                               *)

\* A step of run r leaves what is of another run alone.
OnlyRun(r) ==
  /\ \A q \in Runs \ {r}:
       /\ stage'[q] = stage[q] /\ pick'[q] = pick[q] /\ lane'[q] = lane[q] /\ lease'[q] = lease[q]
       /\ tries'[q] = tries[q] /\ step'[q] = step[q] /\ seen'[q] = seen[q] /\ cut'[q] = cut[q]
       /\ told'[q] = told[q]
  /\ files' = files /\ reserved \subseteq reserved'
  /\ \A j \in Jobs: box'[j] = box[j] \/ (j = lease[r] /\ stage[r] # "reserve")

LEMMA OthersStay ==
  ASSUME PhoneInv, NEW r \in Runs, OnlyRun(r)
  PROVE  /\ \A q \in Runs \ {r}: RunInv(q)'
         /\ \A j \in Jobs \ {lease[r]}: LaneOf(j)'
<1>1. ASSUME NEW q \in Runs \ {r} PROVE RunInv(q)'
  <2>1. LeaseOf(q) /\ CopyOf(q) /\ ToldOf(q) BY DEF PhoneInv, RunInv
  <2>2. /\ stage'[q] = stage[q] /\ pick'[q] = pick[q] /\ lane'[q] = lane[q] /\ lease'[q] = lease[q]
        /\ tries'[q] = tries[q] /\ step'[q] = step[q] /\ seen'[q] = seen[q] /\ cut'[q] = cut[q]
        /\ told'[q] = told[q] /\ files' = files /\ reserved \subseteq reserved'
    BY DEF OnlyRun
  <2>3. LeaseOf(q)' BY <2>1, <2>2 DEF LeaseOf
  <2>4. CASE stage[q] \in Choosing \cup {"lease", "reserve"}
    <3>1. CopyOf(q)' BY <2>2, <2>4 DEF CopyOf, Choosing, Writing
    <3>2. ToldOf(q)' BY <2>1, <2>2, <2>4 DEF ToldOf, Choosing
    <3> QED BY <2>3, <3>1, <3>2 DEF RunInv
  <2>5. CASE stage[q] \notin Choosing \cup {"lease", "reserve"} /\ lease[q] \in Jobs
    <3>1. lease[q] # None BY <2>5, PhoneAssumption
    <3>2. ~(lease[q] = lease[r] /\ stage[r] # "reserve")
      BY <2>5, <3>1 DEF PhoneInv, HeldOnce
    <3>3. box'[lease[q]] = box[lease[q]] BY <2>5, <3>2 DEF OnlyRun
    <3>4. CopyOf(q)' BY <2>1, <2>2, <3>3 DEF CopyOf, Published, WithManifest
    <3>5. ToldOf(q)' BY <2>1, <2>2, <3>3 DEF ToldOf, Published
    <3> QED BY <2>3, <3>4, <3>5 DEF RunInv
  <2>6. CASE stage[q] = "done" /\ lease[q] \notin Jobs
    <3>1. lease[q] = None BY <2>6 DEF PhoneInv, PhoneTyped
    <3>2. CopyOf(q)' BY <2>2, <2>6 DEF CopyOf, Writing
    <3>3. ToldOf(q)' BY <2>1, <2>2, <2>6, <3>1 DEF ToldOf
    <3> QED BY <2>3, <3>2, <3>3 DEF RunInv
  <2> QED BY <2>1, <2>4, <2>5, <2>6 DEF LeaseOf
<1>2. ASSUME NEW j \in Jobs \ {lease[r]}, Published(j)' PROVE LaneOf(j)'
  <2>1. box'[j] = box[j] BY DEF OnlyRun
  <2>2. Published(j) BY <1>2, <2>1 DEF Published
  <2>3. PICK q \in Runs: lease[q] = j /\ stage[q] \in After /\ box[j].copies = cut[q]
    BY <2>2 DEF PhoneInv, LaneOf
  <2>4. lease'[q] = j /\ stage'[q] \in After /\ box'[j].copies = cut'[q]
    BY <2>1, <2>3 DEF OnlyRun
  <2>5. box'[j].manifest BY <2>1, <2>2 DEF PhoneInv, LaneOf
  <2> QED BY <2>4, <2>5 DEF LaneOf
<1> QED BY <1>1, <1>2 DEF LaneOf

\* What is left to be shown of a step of run r.
LEMMA StepOfRun ==
  ASSUME PhoneInv, NEW r \in Runs, OnlyRun(r), PhoneTyped', RunInv(r)',
         lease'[r] # None /\ stage'[r] # "reserve" =>
           lease'[r] = lease[r] /\ (stage[r] # "reserve" \/ lease[r] \notin reserved),
         \A j \in Jobs: j = lease[r] => LaneOf(j)'
  PROVE  PhoneInv'
<1>1. (\A q \in Runs \ {r}: RunInv(q)') /\ \A j \in Jobs \ {lease[r]}: LaneOf(j)'
  BY OthersStay
<1>2. HeldOnce'
  <2> SUFFICES ASSUME NEW p \in Runs, NEW q \in Runs, p # q, lease'[p] = lease'[q], lease'[p] # None,
                      stage'[p] # "reserve", stage'[q] # "reserve"
               PROVE  FALSE
    BY DEF HeldOnce
  <2>1. CASE p # r /\ q # r BY <2>1 DEF PhoneInv, HeldOnce, OnlyRun
  <2>2. ASSUME NEW o \in Runs \ {r}, lease'[o] = lease'[r], lease'[r] # None,
               stage'[o] # "reserve", stage'[r] # "reserve"
        PROVE  FALSE
    <3>1. lease[o] = lease[r] /\ stage[o] # "reserve" /\ lease[r] # None BY <2>2 DEF OnlyRun
    <3>2. stage[r] = "reserve" /\ lease[r] \notin reserved
      BY <2>2, <3>1 DEF PhoneInv, HeldOnce
    <3>3. lease[o] \in reserved BY <3>1 DEF PhoneInv, RunInv, LeaseOf
    <3> QED BY <3>1, <3>2, <3>3
  <2>3. CASE p = r BY <2>2, <2>3
  <2>4. CASE q = r BY <2>2, <2>4
  <2> QED BY <2>1, <2>3, <2>4
<1>3. \A q \in Runs: RunInv(q)' BY <1>1
<1>4. \A j \in Jobs: LaneOf(j)' BY <1>1
<1> QED BY <1>2, <1>3, <1>4 DEF PhoneInv

\* A step that leaves the queue's directories alone.
LEMMA QuietStep ==
  ASSUME PhoneInv, NEW r \in Runs, OnlyRun(r), PhoneTyped', RunInv(r)', box' = box,
         lease'[r] # None /\ stage'[r] # "reserve" =>
           lease'[r] = lease[r] /\ (stage[r] # "reserve" \/ lease[r] \notin reserved),
         stage[r] \in After =>
           stage'[r] \in After /\ lease'[r] = lease[r] /\ cut'[r] = cut[r]
  PROVE  PhoneInv'
<1>1. ASSUME NEW j \in Jobs, j = lease[r], Published(j) PROVE LaneOf(j)'
  <2>1. PICK q \in Runs: lease[q] = j /\ stage[q] \in After /\ box[j].copies = cut[q]
    BY <1>1 DEF PhoneInv, LaneOf
  <2>2. stage'[q] \in After /\ lease'[q] = j /\ cut'[q] = cut[q] BY <1>1, <2>1 DEF OnlyRun
  <2>3. box[j].manifest BY <1>1 DEF PhoneInv, LaneOf
  <2> QED BY <2>1, <2>2, <2>3 DEF LaneOf
<1>2. \A j \in Jobs: j = lease[r] => LaneOf(j)' BY <1>1 DEF LaneOf, Published
<1> QED BY <1>2, StepOfRun

-----------------------------------------------------------------------------
\* The choice of a course, up to the first id.
LEMMA ChoosingStep ==
  ASSUME PhoneInv, NEW r \in Runs, stage[r] \in Choosing,
         NEW s \in Choosing \cup {"lease", "done"}, stage' = [stage EXCEPT ![r] = s],
         \/ told' = told
         \/ s = "done" /\ \E w \in {"failed", "stale"}: told' = [told EXCEPT ![r] = w],
         pick' \in [Runs -> Pick], \A q \in Runs \ {r}: pick'[q] = pick[q],
         lane' = lane \/ \E l \in Lanes: lane' = [lane EXCEPT ![r] = l],
         UNCHANGED <<lease, tries, seen, step, cut, box, reserved, files, offered>>
  PROVE  PhoneInv'
<1>1. PhoneTyped /\ LeaseOf(r) /\ ToldOf(r) BY DEF PhoneInv, RunInv
<1>2. PhoneTyped'
  <2>1. stage' \in [Runs -> Stages] BY <1>1 DEF PhoneTyped, Stages, Choosing
  <2>2. told' \in [Runs -> {"nothing", "queued", "failed", "unsure", "stale"}]
    BY <1>1 DEF PhoneTyped
  <2>3. lane' \in [Runs -> Lanes] BY <1>1 DEF PhoneTyped
  <2> QED BY <1>1, <2>1, <2>2, <2>3 DEF PhoneTyped
<1>3. OnlyRun(r) BY <1>1 DEF OnlyRun, PhoneTyped
<1>4. stage'[r] = s /\ lease'[r] = None /\ lease[r] = None /\ told'[r] \in {told[r], "failed", "stale"}
      /\ (s # "done" => told' = told)
  BY <1>1 DEF PhoneTyped, LeaseOf
<1>5. RunInv(r)'
  <2>1. LeaseOf(r)' BY <1>1, <1>4 DEF LeaseOf, Choosing, Leasing
  <2>2. CopyOf(r)' BY <1>4 DEF CopyOf, Choosing, Writing
  <2>3. told[r] = "nothing" BY <1>1 DEF ToldOf, Choosing
  <2>4. ToldOf(r)' BY <1>4, <2>3 DEF ToldOf
  <2> QED BY <2>1, <2>2, <2>4 DEF RunInv
<1> QED BY <1>2, <1>3, <1>4, <1>5, QuietStep DEF After, Choosing

LEMMA ChosenTyped ==
  ASSUME CoursesTyped, PhoneTyped, NEW r \in Runs, Choose(r),
         \A j \in Jobs: box[j].at = "CourseInbox" => box[j].course \in Courses /\ box[j].name \in Names
  PROVE  \E p \in Pick: /\ pick' = [pick EXCEPT ![r] = p] /\ p.id \in Courses /\ p.name \in Names
                        /\ \/ p.kind = "catalog"
                           \/ p.kind = "create" /\ Fresh(p.id)
                           \/ p.kind = "pending" /\ \E j \in Jobs:
                                box[j].at = "CourseInbox" /\ p.id = box[j].course
<1>0. PICK js \in SUBSET Observable:
        \E p \in Selection(Definitions(js)): pick' = [pick EXCEPT ![r] = p]
  BY DEF Choose
<1>1. PICK p \in Selection(Definitions(js)): pick' = [pick EXCEPT ![r] = p]
  BY <1>0
<1>2. CASE \E c \in offered: p = [id |-> c[1], name |-> c[2], kind |-> "catalog"]
  <2>1. PICK c \in offered: p = [id |-> c[1], name |-> c[2], kind |-> "catalog"] BY <1>2
  <2>2. c[1] \in Courses /\ c[2] \in Names BY DEF PhoneTyped
  <2>3. p \in Pick /\ p.id \in Courses /\ p.name \in Names /\ p.kind = "catalog"
    BY <2>1, <2>2 DEF Pick
  <2> QED BY <1>1, <2>3
<1>3. CASE \E d \in Agreed(Definitions(js)): p = [id |-> d[1], name |-> d[2], kind |-> "pending"]
  <2>1. PICK d \in Definitions(js): p = [id |-> d[1], name |-> d[2], kind |-> "pending"]
    BY <1>3 DEF Agreed
  <2>2. PICK j \in js: d = <<box[j].course, box[j].name>> BY <2>1 DEF Definitions
  <2>3. j \in Jobs /\ box[j].at = "CourseInbox" BY <2>2 DEF Observable, Whole
  <2>4. /\ p \in Pick /\ p.id \in Courses /\ p.name \in Names /\ p.kind = "pending"
        /\ p.id = box[j].course
    BY <2>1, <2>2, <2>3 DEF Pick
  <2> QED BY <1>1, <2>3, <2>4
<1>4. CASE p \in NewlyMade(Definitions(js))
  <2>1. /\ p.id \in NewId(Unused(CatalogIds \cup IdsOf(Definitions(js))))
        /\ p.name \in Names /\ p.kind = "create"
        /\ p = [id |-> p.id, name |-> p.name, kind |-> p.kind]
    BY <1>4 DEF NewlyMade
  <2>2. p.id \in Courses /\ Fresh(p.id) BY <2>1, NewIdIsFree DEF Unused
  <2>3. p \in Pick BY <2>1, <2>2 DEF Pick
  <2> QED BY <1>1, <2>1, <2>2, <2>3
<1>5. p \in OfCatalog \/ p \in OfPending(Definitions(js)) \/ p \in NewlyMade(Definitions(js))
  BY <1>1 DEF Selection
<1>6. p \in OfCatalog => \E c \in offered: p = [id |-> c[1], name |-> c[2], kind |-> "catalog"]
  BY DEF OfCatalog
<1>7. p \in OfPending(Definitions(js)) =>
        \E d \in Agreed(Definitions(js)): p = [id |-> d[1], name |-> d[2], kind |-> "pending"]
  BY DEF OfPending
<1> QED BY <1>2, <1>3, <1>4, <1>5, <1>6, <1>7

LEMMA ChoicesKeep ==
  ASSUME PhoneInv, NEW r \in Runs,
         ReadCatalogAgain(r) \/ ReadPendingAgain(r) \/ ReadCatalogLast(r) \/ ReadFails(r)
  PROVE  PhoneInv'
<1>1. PhoneTyped BY DEF PhoneInv
<1>2. /\ stage[r] \in Choosing /\ pick' = pick
      /\ \E s \in Choosing \cup {"lease", "done"}: stage' = [stage EXCEPT ![r] = s]
           /\ \/ told' = told
              \/ s = "done" /\ \E w \in {"failed", "stale"}: told' = [told EXCEPT ![r] = w]
      /\ lane' = lane \/ \E l \in Lanes: lane' = [lane EXCEPT ![r] = l]
      /\ UNCHANGED <<lease, tries, seen, step, cut, box, reserved, files, offered>>
  <2>1. CASE ReadCatalogAgain(r)
    BY <2>1 DEF ReadCatalogAgain, ToLane, Tell, To, Choosing, Lanes
  <2>2. CASE ReadPendingAgain(r) BY <2>2 DEF ReadPendingAgain, Tell, To, Choosing
  <2>3. CASE ReadCatalogLast(r) BY <2>3 DEF ReadCatalogLast, ToLane, To, Choosing, Lanes
  <2>4. CASE ReadFails(r) BY <2>4 DEF ReadFails, Tell, To, Choosing
  <2> QED BY <2>1, <2>2, <2>3, <2>4
<1>3. PICK s \in Choosing \cup {"lease", "done"}:
        /\ stage' = [stage EXCEPT ![r] = s]
        /\ \/ told' = told
           \/ s = "done" /\ \E w \in {"failed", "stale"}: told' = [told EXCEPT ![r] = w]
  BY <1>2
<1>4. pick' \in [Runs -> Pick] BY <1>1, <1>2 DEF PhoneTyped
<1> QED BY <1>2, <1>3, <1>4, ChoosingStep

LEMMA ChooseKeeps ==
  ASSUME CoursesTyped, PhoneInv, NEW r \in Runs, Choose(r),
         \A j \in Jobs: box[j].at = "CourseInbox" => box[j].course \in Courses /\ box[j].name \in Names
  PROVE  PhoneInv'
<1>1. PhoneTyped BY DEF PhoneInv
<1>2. PICK p \in Pick: pick' = [pick EXCEPT ![r] = p] BY <1>1, ChosenTyped
<1>3. /\ stage[r] \in Choosing /\ "again" \in Choosing \cup {"lease", "done"}
      /\ stage' = [stage EXCEPT ![r] = "again"]
      /\ UNCHANGED <<lane, lease, tries, seen, step, cut, told, box, reserved, files, offered>>
  BY DEF Choose, To, Choosing
<1>4. pick' \in [Runs -> Pick] /\ \A q \in Runs \ {r}: pick'[q] = pick[q]
  BY <1>1, <1>2 DEF PhoneTyped
<1> QED BY <1>3, <1>4, ChoosingStep

-----------------------------------------------------------------------------
\* A try that is given up holds no id.
LEMMA NextTryKeeps ==
  ASSUME PhoneInv, NEW r \in Runs, stage[r] \in Leasing, NextTry(r),
         reserved \subseteq reserved', reserved' \subseteq Jobs,
         UNCHANGED <<pick, lane, seen, step, cut, box, files, offered>>
  PROVE  PhoneInv'
<1>1. PhoneTyped /\ LeaseOf(r) /\ ToldOf(r) BY DEF PhoneInv, RunInv
<1>2. tries[r] \in Nat /\ tries[r] < MaxTries /\ MaxTries \in Nat
  BY <1>1, PhoneAssumption DEF PhoneTyped, LeaseOf
<1>3. /\ tries' = [tries EXCEPT ![r] = tries[r] + 1] /\ lease' = [lease EXCEPT ![r] = None]
      /\ \/ tries[r] + 1 < MaxTries /\ stage' = [stage EXCEPT ![r] = "lease"] /\ told' = told
         \/ stage' = [stage EXCEPT ![r] = "done"] /\ told' = [told EXCEPT ![r] = "failed"]
  BY <1>1 DEF NextTry, To, Tell, PhoneTyped
<1>4. PhoneTyped'
  <2>1. tries' \in [Runs -> 0..MaxTries] BY <1>1, <1>2, <1>3 DEF PhoneTyped
  <2>2. lease' \in [Runs -> Jobs \cup {None}] BY <1>1, <1>3 DEF PhoneTyped
  <2>3. stage' \in [Runs -> Stages] BY <1>1, <1>3 DEF PhoneTyped, Stages
  <2>4. told' \in [Runs -> {"nothing", "queued", "failed", "unsure", "stale"}]
    BY <1>1, <1>3 DEF PhoneTyped
  <2> QED BY <1>1, <2>1, <2>2, <2>3, <2>4 DEF PhoneTyped
<1>5. OnlyRun(r) BY <1>1, <1>3 DEF OnlyRun, PhoneTyped
<1>6. /\ lease'[r] = None /\ tries'[r] = tries[r] + 1
      /\ \/ tries[r] + 1 < MaxTries /\ stage'[r] = "lease" /\ told'[r] = told[r]
         \/ stage'[r] = "done"
  BY <1>1, <1>3 DEF PhoneTyped
<1>7. RunInv(r)'
  <2>1. LeaseOf(r)' BY <1>6 DEF LeaseOf, Choosing, Leasing
  <2>2. CopyOf(r)' BY <1>6 DEF CopyOf, Writing
  <2>3. told[r] = "nothing" BY <1>1 DEF ToldOf, Leasing
  <2>4. told'[r] # "queued" /\ (stage'[r] # "done" => told'[r] = "nothing")
    BY <1>1, <1>3, <2>3 DEF PhoneTyped
  <2>5. ToldOf(r)' BY <1>6, <2>4 DEF ToldOf
  <2> QED BY <2>1, <2>2, <2>5 DEF RunInv
<1> QED BY <1>4, <1>5, <1>6, <1>7, QuietStep DEF After, Leasing

LEMMA LookAtIdKeeps == ASSUME PhoneInv, NEW r \in Runs, LookAtId(r) PROVE PhoneInv'
<1>1. PhoneTyped /\ LeaseOf(r) /\ ToldOf(r) BY DEF PhoneInv, RunInv
<1>2. stage[r] = "lease" /\ UNCHANGED <<pick, lane, seen, step, cut, box, reserved, files, offered>>
  BY DEF LookAtId
<1>3. CASE NextTry(r) BY <1>1, <1>2, <1>3, NextTryKeeps DEF Leasing, PhoneTyped
<1>4. CASE \E j \in Jobs: /\ stage' = [stage EXCEPT ![r] = "reserve"]
                          /\ lease' = [lease EXCEPT ![r] = j] /\ UNCHANGED <<tries, told>>
  <2>1. PICK j \in Jobs: /\ stage' = [stage EXCEPT ![r] = "reserve"]
                         /\ lease' = [lease EXCEPT ![r] = j] /\ UNCHANGED <<tries, told>>
    BY <1>4
  <2>2. stage'[r] = "reserve" /\ lease'[r] = j /\ tries'[r] = tries[r] /\ told'[r] = told[r]
    BY <1>1, <2>1 DEF PhoneTyped
  <2>3. PhoneTyped' BY <1>1, <1>2, <2>1 DEF PhoneTyped, Stages
  <2>4. OnlyRun(r) BY <1>1, <1>2, <2>1 DEF OnlyRun, PhoneTyped
  <2>5. LeaseOf(r)' BY <1>1, <1>2, <2>2 DEF LeaseOf, Choosing, Leasing
  <2>6. CopyOf(r)' BY <2>2 DEF CopyOf, Writing
  <2>7. ToldOf(r)' BY <1>1, <1>2, <2>2 DEF ToldOf
  <2>8. RunInv(r)' BY <2>5, <2>6, <2>7 DEF RunInv
  <2> QED BY <1>2, <2>2, <2>3, <2>4, <2>8, QuietStep DEF After
<1> QED BY <1>3, <1>4 DEF LookAtId, To

LEMMA ReserveKeeps == ASSUME PhoneInv, NEW r \in Runs, Reserve(r) PROVE PhoneInv'
<1>1. PhoneTyped /\ LeaseOf(r) /\ ToldOf(r) BY DEF PhoneInv, RunInv
<1>2. stage[r] = "reserve" /\ UNCHANGED <<pick, lane, seen, step, cut, box, files, offered>>
  BY DEF Reserve
<1>3. lease[r] \in Jobs BY <1>1, <1>2 DEF LeaseOf, Choosing
<1>4. CASE NextTry(r) /\ UNCHANGED reserved
  BY <1>1, <1>2, <1>4, NextTryKeeps DEF Leasing, PhoneTyped
<1>5. CASE /\ lease[r] \notin reserved /\ reserved' = reserved \cup {lease[r]}
           /\ stage' = [stage EXCEPT ![r] = "mkdir"] /\ UNCHANGED <<tries, lease, told>>
  <2>1. stage'[r] = "mkdir" BY <1>1, <1>5 DEF PhoneTyped
  <2>2. PhoneTyped' BY <1>1, <1>2, <1>3, <1>5 DEF PhoneTyped, Stages
  <2>3. OnlyRun(r) BY <1>1, <1>2, <1>5 DEF OnlyRun, PhoneTyped
  <2>4. LeaseOf(r)' BY <1>1, <1>2, <1>3, <1>5, <2>1 DEF LeaseOf, Choosing, Leasing
  <2>5. CopyOf(r)' BY <2>1 DEF CopyOf, Writing
  <2>6. ToldOf(r)' BY <1>1, <1>2, <1>5, <2>1 DEF ToldOf
  <2>7. RunInv(r)' BY <2>4, <2>5, <2>6 DEF RunInv
  <2> QED BY <1>2, <1>5, <2>2, <2>3, <2>7, QuietStep DEF After
<1> QED BY <1>4, <1>5 DEF Reserve, To

\* Nothing is in a lane under an id whose directory is still to be made.
LEMMA NotYetPublished ==
  ASSUME PhoneInv, NEW r \in Runs, stage[r] \notin After \cup {"reserve"}, lease[r] \in Jobs
  PROVE  ~Published(lease[r])
<1> SUFFICES ASSUME Published(lease[r]) PROVE FALSE OBVIOUS
<1>1. PICK q \in Runs: lease[q] = lease[r] /\ stage[q] \in After BY DEF PhoneInv, LaneOf
<1>2. q # r /\ lease[r] # None BY <1>1, PhoneAssumption
<1> QED BY <1>1, <1>2 DEF PhoneInv, HeldOnce, After

LEMMA MakeDirectoryKeeps == ASSUME PhoneInv, NEW r \in Runs, MakeDirectory(r) PROVE PhoneInv'
<1>1. PhoneTyped /\ LeaseOf(r) /\ ToldOf(r) BY DEF PhoneInv, RunInv
<1>2. stage[r] = "mkdir" /\ UNCHANGED <<pick, lane, seen, cut, reserved, files, offered>>
  BY DEF MakeDirectory
<1>3. lease[r] \in Jobs BY <1>1, <1>2 DEF LeaseOf, Choosing
<1>4. CASE NextTry(r) /\ UNCHANGED <<box, step>>
  BY <1>1, <1>2, <1>4, NextTryKeeps DEF Leasing, PhoneTyped
<1>5. CASE /\ box' = [box EXCEPT ![lease[r]] = [NoBundle EXCEPT !.at = "hidden"]]
           /\ stage' = [stage EXCEPT ![r] = "snapshot"] /\ step' = [step EXCEPT ![r] = 1]
           /\ UNCHANGED <<tries, lease, told>>
  <2>1. [NoBundle EXCEPT !.at = "hidden"] \in Bundle BY DEF NoBundle, Bundle
  <2>2. /\ stage'[r] = "snapshot" /\ step'[r] = 1
        /\ box'[lease[r]] = [NoBundle EXCEPT !.at = "hidden"]
    BY <1>1, <1>3, <1>5 DEF PhoneTyped
  <2>3. box'[lease[r]].at = "hidden" BY <2>2 DEF NoBundle
  <2>4. 1 \in Sources BY PhoneAssumption DEF Sources
  <2>5. PhoneTyped'
    <3>1. box' \in [Jobs -> Bundle] BY <1>1, <1>5, <2>1 DEF PhoneTyped
    <3>2. step' \in [Runs -> Sources] BY <1>1, <1>5, <2>4 DEF PhoneTyped
    <3> QED BY <1>1, <1>2, <1>5, <3>1, <3>2 DEF PhoneTyped, Stages
  <2>6. OnlyRun(r) BY <1>1, <1>2, <1>5 DEF OnlyRun, PhoneTyped
  <2>7. LeaseOf(r)' BY <1>1, <1>2, <1>5, <2>2 DEF LeaseOf, Choosing, Leasing
  <2>8. CopyOf(r)'
    <3>1. \A s \in Sources: ~(s < 1) BY PhoneAssumption DEF Sources
    <3> QED BY <1>5, <2>2, <2>3, <3>1 DEF CopyOf
  <2>9. ToldOf(r)' BY <1>1, <1>2, <1>5, <2>2 DEF ToldOf
  <2>10. RunInv(r)' BY <2>7, <2>8, <2>9 DEF RunInv
  <2>11. \A j \in Jobs: j = lease[r] => LaneOf(j)' BY <2>3 DEF LaneOf, Published, Lanes
  <2> QED BY <1>2, <1>5, <2>5, <2>6, <2>10, <2>11, StepOfRun
<1> QED BY <1>4, <1>5 DEF MakeDirectory, To

LEMMA LeaseThrowsKeeps == ASSUME PhoneInv, NEW r \in Runs, LeaseThrows(r) PROVE PhoneInv'
<1>1. PhoneTyped /\ LeaseOf(r) /\ ToldOf(r) BY DEF PhoneInv, RunInv
<1>2. UNCHANGED <<pick, lane, seen, step, cut, files, offered>> BY DEF LeaseThrows
<1>3. CASE /\ stage[r] = "reserve" /\ NextTry(r) /\ UNCHANGED box
           /\ reserved' \in {reserved, reserved \cup {lease[r]}}
  <2>1. lease[r] \in Jobs BY <1>1, <1>3 DEF LeaseOf, Choosing
  <2>2. reserved \subseteq reserved' /\ reserved' \subseteq Jobs BY <1>1, <1>3, <2>1 DEF PhoneTyped
  <2> QED BY <1>2, <1>3, <2>2, NextTryKeeps DEF Leasing
<1>4. CASE /\ stage[r] = "mkdir" /\ Tell(r, "failed") /\ UNCHANGED <<tries, lease, reserved>>
           /\ box' \in {box, IF Exists(lease[r]) THEN box
                          ELSE [box EXCEPT ![lease[r]] = [NoBundle EXCEPT !.at = "hidden"]]}
  <2>1. lease[r] \in Jobs BY <1>1, <1>4 DEF LeaseOf, Choosing
  <2>2. [NoBundle EXCEPT !.at = "hidden"] \in Bundle BY DEF NoBundle, Bundle
  <2>3. ~Published(lease[r]) BY <1>4, <2>1, NotYetPublished DEF After
  <2>4. box' = box \/ box' = [box EXCEPT ![lease[r]] = [NoBundle EXCEPT !.at = "hidden"]]
    BY <1>4
  <2>5. box'[lease[r]].at \notin Lanes
    <3>1. CASE box' = box BY <2>3, <3>1 DEF Published
    <3>2. CASE box' = [box EXCEPT ![lease[r]] = [NoBundle EXCEPT !.at = "hidden"]]
      <4>1. box'[lease[r]] = [NoBundle EXCEPT !.at = "hidden"] BY <1>1, <2>1, <3>2 DEF PhoneTyped
      <4> QED BY <4>1 DEF NoBundle, Lanes
    <3> QED BY <2>4, <3>1, <3>2
  <2>6. /\ stage' = [stage EXCEPT ![r] = "done"] /\ told' = [told EXCEPT ![r] = "failed"]
    BY <1>4 DEF Tell, To
  <2>7. stage'[r] = "done" /\ told'[r] = "failed" BY <1>1, <2>6 DEF PhoneTyped
  <2>8. PhoneTyped'
    <3>1. box' \in [Jobs -> Bundle] BY <1>1, <2>2, <2>4 DEF PhoneTyped
    <3>2. stage' \in [Runs -> Stages] BY <1>1, <2>6 DEF PhoneTyped, Stages
    <3>3. told' \in [Runs -> {"nothing", "queued", "failed", "unsure", "stale"}]
      BY <1>1, <2>6 DEF PhoneTyped
    <3> QED BY <1>1, <1>2, <1>4, <3>1, <3>2, <3>3 DEF PhoneTyped
  <2>9. OnlyRun(r) BY <1>1, <1>2, <1>4, <2>4, <2>6 DEF OnlyRun, PhoneTyped
  <2>10. LeaseOf(r)' BY <1>1, <1>4, <2>7 DEF LeaseOf, Choosing, Leasing
  <2>11. CopyOf(r)' BY <2>7 DEF CopyOf, Writing
  <2>12. ToldOf(r)' BY <1>4, <2>5, <2>7 DEF ToldOf, Published
  <2>13. RunInv(r)' BY <2>10, <2>11, <2>12 DEF RunInv
  <2>14. \A j \in Jobs: j = lease[r] => LaneOf(j)' BY <2>5 DEF LaneOf, Published
  <2> QED BY <1>4, <2>8, <2>9, <2>13, <2>14, StepOfRun
<1> QED BY <1>3, <1>4 DEF LeaseThrows

-----------------------------------------------------------------------------
\* What is left to be shown of a step that writes the bundle.
LEMMA WritingStep ==
  ASSUME PhoneInv, NEW r \in Runs, stage[r] \in Writing,
         NEW s \in Writing \cup {"look", "catch"}, stage' = [stage EXCEPT ![r] = s],
         UNCHANGED <<pick, lane, lease, tries, told, reserved, files, offered>>,
         step' \in [Runs -> Sources], \A q \in Runs \ {r}: step'[q] = step[q],
         seen' \in [Runs -> [Sources -> Nat]], \A q \in Runs \ {r}: seen'[q] = seen[q],
         cut' \in [Runs -> [Sources -> Nat]], \A q \in Runs \ {r}: cut'[q] = cut[q],
         box' \in [Jobs -> Bundle], \A j \in Jobs \ {lease[r]}: box'[j] = box[j],
         CopyOf(r)',
         box'[lease[r]].at \in Lanes =>
           box'[lease[r]].manifest /\ s = "look" /\ box'[lease[r]].copies = cut'[r]
  PROVE  PhoneInv'
<1>1. PhoneTyped /\ LeaseOf(r) /\ ToldOf(r) BY DEF PhoneInv, RunInv
<1>2. lease[r] \in Jobs /\ stage[r] # "reserve" BY <1>1 DEF LeaseOf, Choosing, Writing
<1>3. stage'[r] = s BY <1>1 DEF PhoneTyped
<1>4. PhoneTyped'
  <2>1. stage' \in [Runs -> Stages] BY <1>1 DEF PhoneTyped, Stages, Writing
  <2> QED BY <1>1, <2>1 DEF PhoneTyped
<1>5. OnlyRun(r) BY <1>1, <1>2 DEF OnlyRun, PhoneTyped
<1>6. LeaseOf(r)' BY <1>1, <1>2, <1>3 DEF LeaseOf, Choosing, Leasing, Writing
<1>7. ToldOf(r)' BY <1>1, <1>3 DEF ToldOf, Writing
<1>8. RunInv(r)' BY <1>6, <1>7 DEF RunInv
<1>9. ASSUME NEW j \in Jobs, j = lease[r], Published(j)' PROVE LaneOf(j)'
  <2>1. lease'[r] = j /\ stage'[r] \in After /\ box'[j].copies = cut'[r] /\ box'[j].manifest
    BY <1>3, <1>9 DEF Published, After
  <2> QED BY <2>1 DEF LaneOf
<1>10. \A j \in Jobs: j = lease[r] => LaneOf(j)' BY <1>9 DEF LaneOf
<1> QED BY <1>2, <1>4, <1>5, <1>8, <1>10, StepOfRun

\* The round of a loop, or its end.
LEMMA LoopGoesOn ==
  ASSUME PhoneTyped, NEW r \in Runs, NEW after, Advance(r, after)
  PROVE  /\ step[r] \in Nat /\ 1 <= step[r] /\ step[r] <= Count /\ Count \in Nat
         /\ Sources = 1..Count /\ 1 \in Sources
         /\ step' \in [Runs -> Sources] /\ \A q \in Runs \ {r}: step'[q] = step[q]
         /\ \/ step[r] < Count /\ step'[r] = step[r] + 1 /\ stage' = stage
            \/ step[r] = Count /\ step'[r] = 1 /\ stage' = [stage EXCEPT ![r] = after]
<1>1. /\ step[r] \in Nat /\ 1 <= step[r] /\ step[r] <= Count /\ Count \in Nat
      /\ Sources = 1..Count /\ 1 \in Sources /\ step \in [Runs -> Sources]
  BY PhoneAssumption DEF PhoneTyped, Sources
<1>2. CASE step[r] < Count
  <2>1. step' = [step EXCEPT ![r] = step[r] + 1] /\ stage' = stage
    BY <1>1, <1>2 DEF Advance, PhoneTyped
  <2>2. step[r] + 1 \in Sources BY <1>1, <1>2
  <2> QED BY <1>1, <1>2, <2>1, <2>2
<1>3. CASE ~(step[r] < Count)
  <2>1. step' = [step EXCEPT ![r] = 1] /\ stage' = [stage EXCEPT ![r] = after]
    BY <1>3 DEF Advance, To
  <2> QED BY <1>1, <1>3, <2>1
<1> QED BY <1>2, <1>3

LEMMA SnapshotKeeps == ASSUME PhoneInv, NEW r \in Runs, Snapshot(r) PROVE PhoneInv'
<1>1. PhoneTyped /\ LeaseOf(r) /\ CopyOf(r) BY DEF PhoneInv, RunInv
<1>2. /\ stage[r] = "snapshot" /\ Advance(r, "copy")
      /\ UNCHANGED <<pick, lane, lease, tries, cut, told, box, reserved, files, offered>>
  BY DEF Snapshot
<1> DEFINE k == step[r]
<1>3. /\ k \in Nat /\ 1 <= k /\ k <= Count /\ Count \in Nat /\ Sources = 1..Count
      /\ step' \in [Runs -> Sources] /\ \A q \in Runs \ {r}: step'[q] = step[q]
      /\ \/ k < Count /\ step'[r] = k + 1 /\ stage' = stage
         \/ k = Count /\ step'[r] = 1 /\ stage' = [stage EXCEPT ![r] = "copy"]
  BY <1>1, <1>2, LoopGoesOn
<1>4. /\ seen' \in [Runs -> [Sources -> Nat]] /\ \A q \in Runs \ {r}: seen'[q] = seen[q]
      /\ seen'[r][k] = files[k] /\ \A s \in Sources \ {k}: seen'[r][s] = seen[r][s]
  BY <1>1, <1>3 DEF Snapshot, PhoneTyped
<1>5. files \in [Sources -> Nat] /\ k \in Sources BY <1>1, <1>3 DEF PhoneTyped
<1>6. \A s \in Sources: s <= k => seen'[r][s] <= files'[s]
  <2> SUFFICES ASSUME NEW s \in Sources, s <= k PROVE seen'[r][s] <= files[s] BY <1>2
  <2>1. CASE s = k BY <1>4, <1>5, <2>1
  <2>2. CASE s # k
    <3>1. s < k BY <1>3, <2>2
    <3> QED BY <1>1, <1>2, <1>4, <2>2, <3>1 DEF CopyOf
  <2> QED BY <2>1, <2>2
<1>7. lease[r] \in Jobs /\ box[lease[r]].at = "hidden"
  BY <1>1, <1>2 DEF LeaseOf, CopyOf, Choosing, Writing
<1>8. CASE k < Count
  <2>1. stage' = [stage EXCEPT ![r] = "snapshot"] /\ stage'[r] = "snapshot"
    BY <1>1, <1>2, <1>3, <1>8 DEF PhoneTyped
  <2>2. \A s \in Sources: s < k + 1 => s <= k BY <1>3
  <2>3. CopyOf(r)' BY <1>2, <1>3, <1>6, <1>7, <1>8, <2>1, <2>2 DEF CopyOf
  <2> QED BY <1>1, <1>2, <1>3, <1>4, <1>7, <2>1, <2>3, WritingStep DEF PhoneTyped, Writing, Lanes
<1>9. CASE k = Count
  <2>1. stage' = [stage EXCEPT ![r] = "copy"] /\ stage'[r] = "copy" /\ step'[r] = 1
    BY <1>1, <1>3, <1>9 DEF PhoneTyped
  <2>2. \A s \in Sources: s <= k /\ ~(s < 1) BY <1>3, <1>9
  <2>3. CopyOf(r)' BY <1>2, <1>6, <1>7, <2>1, <2>2 DEF CopyOf
  <2> QED BY <1>1, <1>2, <1>3, <1>4, <1>7, <2>1, <2>3, WritingStep DEF PhoneTyped, Writing, Lanes
<1> QED BY <1>3, <1>8, <1>9

LEMMA CopySourceKeeps == ASSUME PhoneInv, NEW r \in Runs, CopySource(r) PROVE PhoneInv'
<1>1. PhoneTyped /\ LeaseOf(r) /\ CopyOf(r) BY DEF PhoneInv, RunInv
<1>2. /\ stage[r] = "copy"
      /\ UNCHANGED <<pick, lane, lease, tries, seen, cut, told, reserved, files, offered>>
  BY DEF CopySource
<1>3. lease[r] \in Jobs /\ box[lease[r]].at = "hidden" /\ box[lease[r]] \in Bundle
  BY <1>1, <1>2 DEF LeaseOf, CopyOf, Choosing, Writing, PhoneTyped
<1> DEFINE k == step[r]
           b == box[lease[r]]
           c == box'[lease[r]]
<1>4. CASE StillMatches(r)
  <2>1. /\ box' = [box EXCEPT ![lease[r]].copies[k] = files[k]] /\ files[k] = seen[r][k]
        /\ Advance(r, "check")
    BY <1>4 DEF CopySource, StillMatches
  <2>2. /\ k \in Nat /\ 1 <= k /\ k <= Count /\ Count \in Nat /\ Sources = 1..Count
        /\ step' \in [Runs -> Sources] /\ \A q \in Runs \ {r}: step'[q] = step[q]
        /\ \/ k < Count /\ step'[r] = k + 1 /\ stage' = stage
           \/ k = Count /\ step'[r] = 1 /\ stage' = [stage EXCEPT ![r] = "check"]
    BY <1>1, <2>1, LoopGoesOn
  <2>3. k \in Sources /\ files[k] \in Nat /\ b.copies \in [Sources -> Nat]
    BY <1>1, <1>3, <2>2 DEF PhoneTyped, Bundle
  <2>4. [b EXCEPT !.copies[k] = files[k]] \in Bundle
        /\ [b EXCEPT !.copies[k] = files[k]].copies = [b.copies EXCEPT ![k] = files[k]]
        /\ [b EXCEPT !.copies[k] = files[k]].at = b.at
    BY <1>3, <2>3 DEF Bundle
  <2>5. /\ box' \in [Jobs -> Bundle] /\ \A j \in Jobs \ {lease[r]}: box'[j] = box[j]
        /\ c = [b EXCEPT !.copies[k] = files[k]]
    BY <1>1, <1>3, <2>1, <2>4 DEF PhoneTyped
  <2>6. c.copies = [b.copies EXCEPT ![k] = files[k]] /\ c.at = "hidden" BY <1>3, <2>4, <2>5
  <2>7. \A s \in Sources: s <= k => c.copies[s] = seen'[r][s]
    <3> SUFFICES ASSUME NEW s \in Sources, s <= k PROVE c.copies[s] = seen[r][s] BY <1>2
    <3>1. CASE s = k BY <2>1, <2>3, <2>6, <3>1
    <3>2. CASE s # k
      <4>1. s < k BY <2>2, <3>2
      <4>2. c.copies[s] = b.copies[s] BY <2>3, <2>6, <3>2
      <4> QED BY <1>1, <1>2, <4>1, <4>2 DEF CopyOf
    <3> QED BY <3>1, <3>2
  <2>8. CASE k < Count
    <3>1. stage' = [stage EXCEPT ![r] = "copy"] /\ stage'[r] = "copy"
      BY <1>1, <1>2, <2>2, <2>8 DEF PhoneTyped
    <3>2. \A s \in Sources: s < k + 1 => s <= k BY <2>2
    <3>3. CopyOf(r)' BY <1>1, <1>2, <2>2, <2>6, <2>7, <2>8, <3>1, <3>2 DEF CopyOf
    <3> QED BY <1>1, <1>2, <2>2, <2>5, <2>6, <3>1, <3>3, WritingStep DEF PhoneTyped, Writing, Lanes
  <2>9. CASE k = Count
    <3>1. stage' = [stage EXCEPT ![r] = "check"] /\ stage'[r] = "check" /\ step'[r] = 1
      BY <1>1, <2>2, <2>9 DEF PhoneTyped
    <3>2. \A s \in Sources: s <= k /\ ~(s < 1) BY <2>2, <2>9
    <3>3. c.copies = seen'[r]
      <4>1. c.copies \in [Sources -> Nat] /\ seen'[r] \in [Sources -> Nat]
        BY <1>1, <1>2, <2>3, <2>6 DEF PhoneTyped
      <4>2. \A s \in Sources: c.copies[s] = seen'[r][s] BY <2>7, <3>2
      <4> QED BY <4>1, <4>2
    <3>4. CopyOf(r)' BY <1>1, <1>2, <2>6, <3>1, <3>2, <3>3 DEF CopyOf
    <3> QED BY <1>1, <1>2, <2>2, <2>5, <2>6, <3>1, <3>4, WritingStep DEF PhoneTyped, Writing, Lanes
  <2> QED BY <2>2, <2>8, <2>9
<1>5. CASE ~StillMatches(r)
  <2>1. stage' = [stage EXCEPT ![r] = "catch"] /\ UNCHANGED <<box, step>>
    BY <1>5 DEF CopySource, To
  <2>2. stage'[r] = "catch" BY <1>1, <2>1 DEF PhoneTyped
  <2>3. CopyOf(r)' BY <1>2, <1>3, <2>1, <2>2 DEF CopyOf, Writing, Published, Lanes
  <2> QED BY <1>1, <1>2, <1>3, <2>1, <2>3, WritingStep DEF PhoneTyped, Writing, Lanes
<1> QED BY <1>4, <1>5

LEMMA CheckSourceKeeps == ASSUME PhoneInv, NEW r \in Runs, CheckSource(r) PROVE PhoneInv'
<1>1. PhoneTyped /\ LeaseOf(r) /\ CopyOf(r) BY DEF PhoneInv, RunInv
<1>2. /\ stage[r] = "check"
      /\ UNCHANGED <<pick, lane, lease, tries, seen, told, box, reserved, files, offered>>
      /\ cut' = [cut EXCEPT ![r] = IF step[r] = 1 THEN files ELSE cut[r]]
  BY <1>1 DEF CheckSource, PhoneTyped
<1>3. lease[r] \in Jobs /\ box[lease[r]].at = "hidden"
  BY <1>1, <1>2 DEF LeaseOf, CopyOf, Choosing, Writing
<1>4. /\ files \in [Sources -> Nat] /\ seen[r] \in [Sources -> Nat] /\ cut[r] \in [Sources -> Nat]
      /\ cut' \in [Runs -> [Sources -> Nat]] /\ \A q \in Runs \ {r}: cut'[q] = cut[q]
      /\ cut'[r] = IF step[r] = 1 THEN files ELSE cut[r]
  BY <1>1, <1>2 DEF PhoneTyped
<1> DEFINE k == step[r]
<1>5. CASE StillMatches(r)
  <2>1. files[k] = seen[r][k] /\ Advance(r, "manifest") BY <1>5 DEF CheckSource, StillMatches
  <2>2. /\ k \in Nat /\ 1 <= k /\ k <= Count /\ Count \in Nat /\ Sources = 1..Count
        /\ step' \in [Runs -> Sources] /\ \A q \in Runs \ {r}: step'[q] = step[q]
        /\ \/ k < Count /\ step'[r] = k + 1 /\ stage' = stage
           \/ k = Count /\ step'[r] = 1 /\ stage' = [stage EXCEPT ![r] = "manifest"]
    BY <1>1, <2>1, LoopGoesOn
  <2>3. \A s \in Sources: seen[r][s] <= cut'[r][s] /\ cut'[r][s] <= files[s]
    <3>1. CASE k = 1 BY <1>1, <1>2, <1>4, <3>1 DEF CopyOf
    <3>2. CASE k # 1
      <4>1. k > 1 BY <2>2, <3>2
      <4> QED BY <1>1, <1>2, <1>4, <3>2, <4>1 DEF CopyOf
    <3> QED BY <3>1, <3>2
  <2>4. \A s \in Sources: s <= k => cut'[r][s] = seen[r][s]
    <3> SUFFICES ASSUME NEW s \in Sources, s <= k PROVE cut'[r][s] = seen[r][s] OBVIOUS
    <3>1. CASE s = k
      <4>1. files[s] \in Nat /\ seen[r][s] \in Nat /\ cut'[r][s] \in Nat BY <1>4
      <4> QED BY <2>1, <2>3, <3>1, <4>1
    <3>2. CASE s # k
      <4>1. s < k /\ k # 1 BY <2>2, <3>2
      <4> QED BY <1>1, <1>2, <1>4, <4>1 DEF CopyOf
    <3> QED BY <3>1, <3>2
  <2>5. box[lease[r]].copies = seen[r] BY <1>1, <1>2 DEF CopyOf
  <2>6. CASE k < Count
    <3>1. stage' = [stage EXCEPT ![r] = "check"] /\ stage'[r] = "check"
      BY <1>1, <1>2, <2>2, <2>6 DEF PhoneTyped
    <3>2. \A s \in Sources: s < k + 1 => s <= k BY <2>2
    <3>3. \A s \in Sources: seen'[r][s] <= files'[s] BY <1>1, <1>2 DEF CopyOf
    <3>4. step'[r] = k + 1 BY <2>2, <2>6
    <3>5. CopyOf(r)' BY <1>2, <1>3, <2>3, <2>4, <2>5, <3>1, <3>2, <3>3, <3>4 DEF CopyOf
    <3> QED BY <1>1, <1>2, <1>3, <1>4, <2>2, <3>1, <3>5, WritingStep DEF PhoneTyped, Writing, Lanes
  <2>7. CASE k = Count
    <3>1. stage' = [stage EXCEPT ![r] = "manifest"] /\ stage'[r] = "manifest"
      BY <1>1, <2>2, <2>7 DEF PhoneTyped
    <3>2. \A s \in Sources: s <= k BY <2>2, <2>7
    <3>3. cut'[r] = seen[r]
      <4>1. cut'[r] \in [Sources -> Nat] BY <1>4
      <4>2. \A s \in Sources: cut'[r][s] = seen[r][s] BY <2>4, <3>2
      <4> QED BY <1>4, <4>1, <4>2
    <3>4. CopyOf(r)' BY <1>2, <1>3, <2>5, <3>1, <3>3 DEF CopyOf
    <3> QED BY <1>1, <1>2, <1>3, <1>4, <2>2, <3>1, <3>4, WritingStep DEF PhoneTyped, Writing, Lanes
  <2> QED BY <2>2, <2>6, <2>7
<1>6. CASE ~StillMatches(r)
  <2>1. stage' = [stage EXCEPT ![r] = "catch"] /\ UNCHANGED step
    BY <1>6 DEF CheckSource, To
  <2>2. stage'[r] = "catch" BY <1>1, <2>1 DEF PhoneTyped
  <2>3. CopyOf(r)' BY <1>2, <1>3, <2>1, <2>2 DEF CopyOf, Writing, Published, Lanes
  <2> QED BY <1>1, <1>2, <1>3, <1>4, <2>1, <2>3, WritingStep DEF PhoneTyped, Writing, Lanes
<1> QED BY <1>5, <1>6

LEMMA ManifestKeeps ==
  ASSUME PhoneInv, NEW r \in Runs, Manifest(r), pick[r].id \in Courses, pick[r].name \in Names
  PROVE  PhoneInv'
<1>1. PhoneTyped /\ LeaseOf(r) /\ CopyOf(r) BY DEF PhoneInv, RunInv
<1>2. /\ stage[r] = "manifest" /\ stage' = [stage EXCEPT ![r] = "move"]
      /\ UNCHANGED <<pick, lane, lease, tries, seen, step, cut, told, reserved, files, offered>>
  BY DEF Manifest, To
<1>3. lease[r] \in Jobs /\ box[lease[r]].at = "hidden" /\ box[lease[r]] \in Bundle
  BY <1>1, <1>2 DEF LeaseOf, CopyOf, Choosing, Writing, PhoneTyped
<1> DEFINE b == box[lease[r]]
           c == WithManifest(b, r)
           n == IF lane[r] = "CourseInbox" THEN pick[r].name ELSE None
<1>4. /\ c \in Bundle /\ c.at = "hidden" /\ c.manifest = TRUE /\ c.copies = b.copies
      /\ c.course = pick[r].id /\ c.name = n
  BY <1>3 DEF Bundle, WithManifest
<1>5. c = WithManifest(c, r)
  <2>1. n \in Names \cup {None} OBVIOUS
  <2>2. c = [b EXCEPT !.manifest = TRUE, !.course = pick[r].id, !.name = n] BY DEF WithManifest
  <2>3. WithManifest(c, r) = [c EXCEPT !.manifest = TRUE, !.course = pick[r].id, !.name = n]
    BY DEF WithManifest
  <2> HIDE DEF c, n
  <2> QED BY <1>4, <2>3 DEF Bundle
<1>6. box' = [box EXCEPT ![lease[r]] = c] BY DEF Manifest
<1>7. /\ box' \in [Jobs -> Bundle] /\ \A j \in Jobs \ {lease[r]}: box'[j] = box[j]
      /\ box'[lease[r]] = c
  <2> HIDE DEF c
  <2> QED BY <1>1, <1>3, <1>4, <1>6 DEF PhoneTyped
<1> HIDE DEF c
<1>8. stage'[r] = "move" BY <1>1, <1>2 DEF PhoneTyped
<1>9. CopyOf(r)'
  <2>1. c.copies = cut'[r] BY <1>1, <1>2, <1>4 DEF CopyOf
  <2>2. box'[lease'[r]] = WithManifest(box[lease[r]], r)' BY <1>2, <1>5, <1>7 DEF WithManifest
  <2> QED BY <1>2, <1>4, <1>7, <1>8, <2>1, <2>2 DEF CopyOf
<1> QED BY <1>1, <1>2, <1>4, <1>7, <1>9, WritingStep DEF PhoneTyped, Writing, Lanes

\* What the move puts into the lane is whole and of one moment.
LEMMA MovedIsWhole ==
  ASSUME PhoneInv, NEW r \in Runs, stage[r] = "move", Moved(r)
  PROVE  /\ lease[r] \in Jobs /\ box' \in [Jobs -> Bundle]
         /\ \A j \in Jobs \ {lease[r]}: box'[j] = box[j]
         /\ box'[lease[r]].at = lane[r] /\ lane[r] \in Lanes
         /\ box'[lease[r]].manifest /\ box'[lease[r]].copies = cut[r]
<1>1. PhoneTyped /\ LeaseOf(r) /\ CopyOf(r) BY DEF PhoneInv, RunInv
<1>2. lease[r] \in Jobs /\ box[lease[r]] \in Bundle /\ lane[r] \in Lanes
  BY <1>1 DEF LeaseOf, Choosing, PhoneTyped
<1> DEFINE b == box[lease[r]]
<1>3. b.manifest /\ b.copies = cut[r]
  <2>1. b = WithManifest(b, r) /\ b.copies = cut[r] BY <1>1 DEF CopyOf
  <2>2. WithManifest(b, r).manifest = TRUE BY <1>2 DEF WithManifest, Bundle
  <2> QED BY <2>1, <2>2
<1>4. [b EXCEPT !.at = lane[r]] \in Bundle /\ [b EXCEPT !.at = lane[r]].at = lane[r]
      /\ [b EXCEPT !.at = lane[r]].manifest = b.manifest
      /\ [b EXCEPT !.at = lane[r]].copies = b.copies
  BY <1>2 DEF Bundle
<1>5. box' = [box EXCEPT ![lease[r]] = [b EXCEPT !.at = lane[r]]]
  BY <1>1, <1>2 DEF Moved, PhoneTyped
<1> QED BY <1>1, <1>2, <1>3, <1>4, <1>5 DEF PhoneTyped

LEMMA MoveKeeps == ASSUME PhoneInv, NEW r \in Runs, Move(r) PROVE PhoneInv'
<1>1. PhoneTyped /\ LeaseOf(r) BY DEF PhoneInv, RunInv
<1>2. /\ stage[r] = "move" /\ Moved(r) /\ stage' = [stage EXCEPT ![r] = "done"]
      /\ told' = [told EXCEPT ![r] = "queued"]
      /\ UNCHANGED <<pick, lane, lease, tries, seen, step, cut, reserved, files, offered>>
  BY DEF Move, Tell, To
<1>3. /\ lease[r] \in Jobs /\ box' \in [Jobs -> Bundle]
      /\ \A j \in Jobs \ {lease[r]}: box'[j] = box[j]
      /\ box'[lease[r]].at \in Lanes /\ box'[lease[r]].manifest /\ box'[lease[r]].copies = cut[r]
  BY <1>2, MovedIsWhole
<1>4. stage'[r] = "done" /\ told'[r] = "queued" BY <1>1, <1>2 DEF PhoneTyped
<1>5. PhoneTyped'
  <2>1. stage' \in [Runs -> Stages] BY <1>1, <1>2 DEF PhoneTyped, Stages
  <2>2. told' \in [Runs -> {"nothing", "queued", "failed", "unsure", "stale"}]
    BY <1>1, <1>2 DEF PhoneTyped
  <2> QED BY <1>1, <1>2, <1>3, <2>1, <2>2 DEF PhoneTyped
<1>6. OnlyRun(r) BY <1>1, <1>2, <1>3 DEF OnlyRun, PhoneTyped
<1>7. LeaseOf(r)' BY <1>1, <1>2, <1>3, <1>4 DEF LeaseOf, Choosing, Leasing
<1>8. CopyOf(r)' BY <1>4 DEF CopyOf, Writing
<1>9. ToldOf(r)' BY <1>2, <1>3, <1>4 DEF ToldOf
<1>10. RunInv(r)' BY <1>7, <1>8, <1>9 DEF RunInv
<1>11. \A j \in Jobs: j = lease[r] => LaneOf(j)'
  <2>1. lease'[r] = lease[r] /\ stage'[r] \in After /\ box'[lease[r]].copies = cut'[r]
    BY <1>2, <1>3, <1>4 DEF After
  <2> QED BY <1>3, <2>1 DEF LaneOf
<1> QED BY <1>2, <1>5, <1>6, <1>10, <1>11, StepOfRun

LEMMA WriteThrowsKeeps == ASSUME PhoneInv, NEW r \in Runs, WriteThrows(r) PROVE PhoneInv'
<1>1. PhoneTyped /\ LeaseOf(r) /\ CopyOf(r) BY DEF PhoneInv, RunInv
<1>2. /\ stage[r] \in Writing
      /\ UNCHANGED <<pick, lane, lease, tries, seen, step, cut, told, reserved, files, offered>>
      /\ UNCHANGED box \/ (stage[r] = "move" /\ Moved(r))
      /\ \/ stage[r] \in {"manifest", "move"} /\ stage' = [stage EXCEPT ![r] = "look"]
         \/ stage[r] \notin {"manifest", "move"} /\ stage' = [stage EXCEPT ![r] = "catch"]
  BY DEF WriteThrows, Writing, To
<1>3. lease[r] \in Jobs /\ box[lease[r]].at = "hidden"
  BY <1>1, <1>2 DEF LeaseOf, CopyOf, Choosing, Writing
<1>4. CASE UNCHANGED box
  <2>1. stage'[r] \in {"look", "catch"} BY <1>1, <1>2 DEF PhoneTyped
  <2>2. CopyOf(r)' BY <1>2, <1>3, <1>4, <2>1 DEF CopyOf, Writing, Published, Lanes
  <2> QED BY <1>1, <1>2, <1>3, <1>4, <2>2, WritingStep DEF PhoneTyped, Lanes
<1>5. CASE stage[r] = "move" /\ Moved(r)
  <2>1. stage' = [stage EXCEPT ![r] = "look"] /\ stage'[r] = "look"
    BY <1>1, <1>2, <1>5 DEF PhoneTyped
  <2>2. CopyOf(r)' BY <2>1 DEF CopyOf, Writing
  <2>3. /\ box' \in [Jobs -> Bundle] /\ \A j \in Jobs \ {lease[r]}: box'[j] = box[j]
        /\ box'[lease[r]].manifest /\ box'[lease[r]].copies = cut[r]
    BY <1>5, MovedIsWhole
  <2> QED BY <1>1, <1>2, <2>1, <2>2, <2>3, WritingStep DEF PhoneTyped
<1> QED BY <1>2, <1>4, <1>5

-----------------------------------------------------------------------------
\* What is left to be shown once the bundle is written, or is not to be.
LEMMA EndingStep ==
  ASSUME PhoneInv, NEW r \in Runs, stage[r] \in {"look", "blind", "catch"},
         NEW s \in {"blind", "catch", "done"}, stage' = [stage EXCEPT ![r] = s],
         \/ told' = told
         \/ s = "done" /\ \E w \in {"queued", "failed", "unsure"}: told' = [told EXCEPT ![r] = w],
         UNCHANGED <<pick, lane, lease, tries, seen, step, cut, reserved, files, offered>>,
         box' \in [Jobs -> Bundle], \A j \in Jobs \ {lease[r]}: box'[j] = box[j],
         box'[lease[r]] = box[lease[r]] \/ ~Published(lease[r])',
         s = "catch" => ~Published(lease[r]) /\ box' = box,
         told'[r] = "queued" => Published(lease[r]) /\ box' = box,
         told'[r] = "failed" => ~Published(lease[r])
  PROVE  PhoneInv'
<1>1. PhoneTyped /\ LeaseOf(r) /\ CopyOf(r) /\ ToldOf(r) BY DEF PhoneInv, RunInv
<1>2. lease[r] \in Jobs /\ stage[r] # "reserve" BY <1>1 DEF LeaseOf, Choosing
<1>3. stage'[r] = s BY <1>1 DEF PhoneTyped
<1>4. PhoneTyped'
  <2>1. stage' \in [Runs -> Stages] BY <1>1 DEF PhoneTyped, Stages
  <2>2. told' \in [Runs -> {"nothing", "queued", "failed", "unsure", "stale"}]
    BY <1>1 DEF PhoneTyped
  <2> QED BY <1>1, <2>1, <2>2 DEF PhoneTyped
<1>5. OnlyRun(r) BY <1>1, <1>2 DEF OnlyRun, PhoneTyped
<1>6. LeaseOf(r)' BY <1>1, <1>2, <1>3 DEF LeaseOf, Choosing, Leasing
<1>7. box'[lease[r]].at \in Lanes => Published(lease[r]) /\ box'[lease[r]] = box[lease[r]]
  BY DEF Published
<1>8. CopyOf(r)'
  <2>1. s = "catch" => box'[lease[r]].at \notin Lanes BY DEF Published
  <2> QED BY <1>3, <2>1 DEF CopyOf, Writing, Published
<1>9. ToldOf(r)'
  <2>1. told[r] = "nothing" BY <1>1 DEF ToldOf
  <2>2. s # "done" => told'[r] = "nothing" BY <2>1
  <2>3. told'[r] = "queued" => box'[lease[r]].at \in Lanes BY DEF Published
  <2>4. told'[r] = "failed" => box'[lease[r]].at \notin Lanes BY <1>7
  <2> QED BY <1>2, <1>3, <2>2, <2>3, <2>4 DEF ToldOf, Published
<1>10. RunInv(r)' BY <1>6, <1>8, <1>9 DEF RunInv
<1>11. ASSUME NEW j \in Jobs, j = lease[r], Published(j)' PROVE LaneOf(j)'
  <2>1. Published(j) /\ box'[j] = box[j] BY <1>7, <1>11 DEF Published
  <2>2. PICK q \in Runs: lease[q] = j /\ stage[q] \in After /\ box[j].copies = cut[q]
    BY <2>1 DEF PhoneInv, LaneOf
  <2>3. q = r
    <3>1. j # None BY PhoneAssumption
    <3> QED BY <1>2, <1>11, <2>2, <3>1 DEF PhoneInv, HeldOnce, After
  <2>4. stage'[r] \in After
    <3>1. s # "catch" BY <1>11, <2>1
    <3> QED BY <1>3, <3>1 DEF After
  <2>5. box[j].manifest BY <2>1 DEF PhoneInv, LaneOf
  <2>6. lease'[r] = j /\ box'[j].copies = cut'[r] BY <1>11, <2>1, <2>2, <2>3
  <2> QED BY <2>1, <2>4, <2>5, <2>6 DEF LaneOf
<1>12. \A j \in Jobs: j = lease[r] => LaneOf(j)' BY <1>11 DEF LaneOf
<1> QED BY <1>2, <1>4, <1>5, <1>10, <1>12, StepOfRun

LEMMA LookKeeps ==
  ASSUME PhoneInv, NEW r \in Runs, Look(r) \/ LookFails(r)
  PROVE  PhoneInv'
<1>1. PhoneTyped /\ ToldOf(r) BY DEF PhoneInv, RunInv
<1>2. /\ stage[r] = "look"
      /\ UNCHANGED <<pick, lane, lease, tries, seen, step, cut, box, reserved, files, offered>>
  BY DEF Look, LookFails
<1>3. told[r] = "nothing" /\ box' \in [Jobs -> Bundle] BY <1>1, <1>2 DEF ToldOf, PhoneTyped
<1>4. CASE Look(r) /\ Published(lease[r])
  <2>1. stage' = [stage EXCEPT ![r] = "done"] /\ told' = [told EXCEPT ![r] = "queued"]
    BY <1>4 DEF Look, Tell, To
  <2>2. told'[r] = "queued" BY <1>1, <2>1 DEF PhoneTyped
  <2> QED BY <1>2, <1>3, <1>4, <2>1, <2>2, EndingStep
<1>5. CASE Look(r) /\ ~Published(lease[r])
  <2>1. stage' = [stage EXCEPT ![r] = "catch"] /\ told' = told BY <1>5 DEF Look, To
  <2> QED BY <1>2, <1>3, <1>5, <2>1, EndingStep
<1>6. CASE LookFails(r)
  <2>1. stage' = [stage EXCEPT ![r] = "blind"] /\ told' = told BY <1>6 DEF LookFails, To
  <2> QED BY <1>2, <1>3, <2>1, EndingStep
<1> QED BY <1>4, <1>5, <1>6

LEMMA TidyKeeps ==
  ASSUME PhoneInv, NEW r \in Runs, Tidy(r) \/ TidyFails(r)
  PROVE  PhoneInv'
<1>1. PhoneTyped /\ LeaseOf(r) /\ CopyOf(r) BY DEF PhoneInv, RunInv
<1>2. /\ stage[r] \in {"catch", "blind"} /\ stage' = [stage EXCEPT ![r] = "done"]
      /\ told' = [told EXCEPT ![r] = IF stage[r] = "blind" THEN "unsure" ELSE "failed"]
      /\ UNCHANGED <<pick, lane, lease, tries, seen, step, cut, reserved, files, offered>>
  BY DEF Tidy, TidyFails, Tell, To
<1>3. lease[r] \in Jobs BY <1>1, <1>2 DEF LeaseOf, Choosing
<1>4. told'[r] = (IF stage[r] = "blind" THEN "unsure" ELSE "failed") BY <1>1, <1>2 DEF PhoneTyped
<1>5. told'[r] = "failed" => ~Published(lease[r]) BY <1>1, <1>2, <1>4 DEF CopyOf
<1>6. /\ box' \in [Jobs -> Bundle] /\ \A j \in Jobs \ {lease[r]}: box'[j] = box[j]
      /\ box'[lease[r]] = box[lease[r]] \/ box'[lease[r]].at = "none"
  <2>1. CASE TidyFails(r) BY <1>1, <2>1 DEF TidyFails, PhoneTyped
  <2>2. CASE Tidy(r)
    <3>1. box' = [box EXCEPT ![lease[r]] = IF box[lease[r]].at = "hidden" THEN NoBundle
                                           ELSE box[lease[r]]]
      BY <1>1, <1>3, <2>2 DEF Tidy, PhoneTyped
    <3>2. NoBundle \in Bundle /\ NoBundle.at = "none" BY DEF NoBundle, Bundle
    <3> QED BY <1>1, <1>3, <3>1, <3>2 DEF PhoneTyped
  <2> QED BY <2>1, <2>2
<1>7. box'[lease[r]] = box[lease[r]] \/ ~(box'[lease[r]].at \in Lanes) BY <1>6 DEF Lanes
<1>8. box'[lease[r]] = box[lease[r]] \/ ~Published(lease[r])' BY <1>2, <1>7 DEF Published
<1>9. told'[r] # "queued" BY <1>4
<1>10. \E w \in {"queued", "failed", "unsure"}: told' = [told EXCEPT ![r] = w] BY <1>2
<1> QED BY <1>2, <1>5, <1>6, <1>8, <1>9, <1>10, EndingStep

LEMMA KillKeeps == ASSUME PhoneInv, NEW r \in Runs, Kill(r) PROVE PhoneInv'
<1>1. PhoneTyped /\ LeaseOf(r) /\ ToldOf(r) BY DEF PhoneInv, RunInv
<1>2. /\ stage[r] \notin {"off", "done"} /\ stage' = [stage EXCEPT ![r] = "done"]
      /\ lease' = [lease EXCEPT ![r] = IF stage[r] = "reserve" THEN None ELSE lease[r]]
      /\ UNCHANGED <<pick, lane, tries, seen, step, cut, told, box, reserved, files, offered>>
  BY <1>1 DEF Kill, To, PhoneTyped
<1>3. /\ stage'[r] = "done" /\ told'[r] = "nothing"
      /\ lease'[r] = IF stage[r] = "reserve" THEN None ELSE lease[r]
  BY <1>1, <1>2 DEF PhoneTyped, ToldOf
<1>4. PhoneTyped'
  <2>1. stage' \in [Runs -> Stages] BY <1>1, <1>2 DEF PhoneTyped, Stages
  <2>2. lease' \in [Runs -> Jobs \cup {None}] BY <1>1, <1>2 DEF PhoneTyped
  <2> QED BY <1>1, <1>2, <2>1, <2>2 DEF PhoneTyped
<1>5. OnlyRun(r) BY <1>1, <1>2 DEF OnlyRun, PhoneTyped
<1>6. LeaseOf(r)' BY <1>1, <1>2, <1>3 DEF LeaseOf, Choosing, Leasing
<1>7. CopyOf(r)' BY <1>3 DEF CopyOf, Writing
<1>8. ToldOf(r)' BY <1>3 DEF ToldOf
<1>9. RunInv(r)' BY <1>6, <1>7, <1>8 DEF RunInv
<1> QED BY <1>2, <1>3, <1>4, <1>5, <1>9, QuietStep DEF After

-----------------------------------------------------------------------------
\* From outside: the user's edit of a source, the PC's removal of a bundle, a new catalog.
LEMMA EditSourceKeeps == ASSUME PhoneInv, NEW s \in Sources, EditSource(s) PROVE PhoneInv'
<1>1. PhoneTyped BY DEF PhoneInv
<1>2. /\ files' = [files EXCEPT ![s] = files[s] + 1]
      /\ UNCHANGED <<stage, pick, lane, lease, tries, seen, step, cut, told, box, reserved, offered>>
  BY <1>1 DEF EditSource, PhoneTyped
<1>3. files' \in [Sources -> Nat] /\ \A q \in Sources: files[q] <= files'[q]
  BY <1>1, <1>2 DEF PhoneTyped
<1>4. PhoneTyped' BY <1>1, <1>2, <1>3 DEF PhoneTyped
<1>5. HeldOnce' /\ \A j \in Jobs: LaneOf(j)'
  BY <1>2 DEF PhoneInv, HeldOnce, LaneOf, Published
<1>6. ASSUME NEW r \in Runs PROVE RunInv(r)'
  <2>1. LeaseOf(r) /\ CopyOf(r) /\ ToldOf(r) BY DEF PhoneInv, RunInv
  <2>2. LeaseOf(r)' /\ ToldOf(r)' BY <1>2, <2>1 DEF LeaseOf, ToldOf, Published
  <2>3. /\ seen[r] \in [Sources -> Nat] /\ cut[r] \in [Sources -> Nat] /\ files \in [Sources -> Nat]
    BY <1>1 DEF PhoneTyped
  <2>4. \A q \in Sources: /\ seen[r][q] <= files[q] => seen[r][q] <= files'[q]
                          /\ cut[r][q] <= files[q] => cut[r][q] <= files'[q]
    <3> SUFFICES ASSUME NEW q \in Sources
                 PROVE  /\ seen[r][q] <= files[q] => seen[r][q] <= files'[q]
                        /\ cut[r][q] <= files[q] => cut[r][q] <= files'[q]
      OBVIOUS
    <3>1. seen[r][q] \in Nat /\ cut[r][q] \in Nat /\ files[q] \in Nat /\ files'[q] \in Nat
          /\ files[q] <= files'[q]
      BY <1>3, <2>3
    <3> QED BY <3>1
  <2>5. CopyOf(r)' BY <1>2, <2>1, <2>4 DEF CopyOf, Published, WithManifest
  <2> QED BY <2>2, <2>5 DEF RunInv
<1> QED BY <1>4, <1>5, <1>6 DEF PhoneInv

LEMMA CompleteKeeps == ASSUME PhoneInv, NEW j \in Jobs, Complete(j) PROVE PhoneInv'
<1>1. PhoneTyped BY DEF PhoneInv
<1>2. /\ Published(j) /\ box' = [box EXCEPT ![j].at = "gone"]
      /\ UNCHANGED <<stage, pick, lane, lease, tries, seen, step, cut, told, reserved, files, offered>>
  BY DEF Complete
<1>3. /\ [box[j] EXCEPT !.at = "gone"] \in Bundle /\ [box[j] EXCEPT !.at = "gone"].at = "gone"
  BY <1>1 DEF PhoneTyped, Bundle
<1>4. /\ box' \in [Jobs -> Bundle] /\ box'[j].at = "gone" /\ \A i \in Jobs \ {j}: box'[i] = box[i]
  BY <1>1, <1>2, <1>3 DEF PhoneTyped
<1>5. PhoneTyped' BY <1>1, <1>2, <1>4 DEF PhoneTyped
<1>6. HeldOnce' BY <1>2 DEF PhoneInv, HeldOnce
<1>7. \A i \in Jobs: LaneOf(i)'
  BY <1>2, <1>4 DEF PhoneInv, LaneOf, Published, Lanes
<1>8. ASSUME NEW r \in Runs PROVE RunInv(r)'
  <2>1. LeaseOf(r) /\ CopyOf(r) /\ ToldOf(r) BY DEF PhoneInv, RunInv
  <2>2. LeaseOf(r)' BY <1>2, <2>1 DEF LeaseOf
  <2>3. CASE lease[r] = j
    <3>1. stage[r] \notin Writing BY <1>2, <2>1, <2>3 DEF CopyOf, Published, Lanes
    <3>2. CopyOf(r)' BY <1>2, <1>4, <2>3, <3>1 DEF CopyOf, Writing, Published, Lanes
    <3>3. ToldOf(r)' BY <1>2, <1>4, <2>1, <2>3 DEF ToldOf, Published, Lanes
    <3> QED BY <2>2, <3>2, <3>3 DEF RunInv
  <2>4. CASE lease[r] # j /\ lease[r] \in Jobs
    <3>1. box'[lease[r]] = box[lease[r]] BY <1>4, <2>4
    <3>2. CopyOf(r)' BY <1>2, <2>1, <3>1 DEF CopyOf, Published, WithManifest
    <3>3. ToldOf(r)' BY <1>2, <2>1, <3>1 DEF ToldOf, Published
    <3> QED BY <2>2, <3>2, <3>3 DEF RunInv
  <2>5. CASE lease[r] \notin Jobs
    <3>1. lease[r] = None /\ stage[r] \in Choosing \cup {"lease", "done"}
      BY <1>1, <2>1, <2>5 DEF LeaseOf, PhoneTyped
    <3>2. CopyOf(r)' BY <1>2, <3>1 DEF CopyOf, Choosing, Writing
    <3>3. ToldOf(r)' BY <1>2, <2>1, <2>5, <3>1 DEF ToldOf
    <3> QED BY <2>2, <3>2, <3>3 DEF RunInv
  <2> QED BY <2>3, <2>4, <2>5
<1> QED BY <1>5, <1>6, <1>7, <1>8 DEF PhoneInv

\* Where none of it changes but the catalog that iCloud brings.
LEMMA PhoneStays ==
  ASSUME PhoneInv, offered' \subseteq Courses \X Names,
         UNCHANGED <<stage, pick, lane, lease, tries, seen, step, cut, told, box, reserved, files>>
  PROVE  PhoneInv'
<1>1. PhoneTyped' BY DEF PhoneInv, PhoneTyped
<1>2. HeldOnce' /\ \A j \in Jobs: LaneOf(j)' BY DEF PhoneInv, HeldOnce, LaneOf, Published
<1>3. ASSUME NEW r \in Runs PROVE RunInv(r)'
  <2>1. LeaseOf(r)' BY DEF PhoneInv, RunInv, LeaseOf
  <2>2. CopyOf(r)' BY DEF PhoneInv, RunInv, CopyOf, Published, WithManifest
  <2>3. ToldOf(r)' BY DEF PhoneInv, RunInv, ToldOf, Published
  <2> QED BY <2>1, <2>2, <2>3 DEF RunInv
<1> QED BY <1>1, <1>2, <1>3 DEF PhoneInv

-----------------------------------------------------------------------------
(* What was chosen is kept.                                                 *)

\* A step of the PC, which leaves the phone alone but may take a bundle away.
LEMMA ChoiceStays ==
  ASSUME ChoiceInv, KeptStays, UNCHANGED <<stage, pick, lane, offered>>,
         IdsOf(catalog)' \subseteq Kept',
         \A j \in Jobs: box'[j] = box[j] \/ box'[j].at = "gone"
  PROVE  ChoiceInv'
<1>1. IdsOf(offered)' \subseteq Kept' BY DEF ChoiceInv, KeptStays, IdsOf
<1>2. \A r \in Runs: ChoiceOf(r)' BY DEF ChoiceInv, KeptStays, ChoiceOf
<1>3. \A j \in Jobs: MeantFor(j)' BY DEF ChoiceInv, KeptStays, MeantFor
<1> QED BY <1>1, <1>2, <1>3 DEF ChoiceInv

\* The catalog lists nothing that can still be taken back.
LEMMA CatalogIsKept ==
  ASSUME CoursesInv, ChoiceInv, KeptStays, catalog' = catalog \/ Publish
  PROVE  IdsOf(catalog)' \subseteq Kept'
<1>1. IdsOf(catalog) \subseteq Kept' BY DEF ChoiceInv, KeptStays
<1>2. CASE catalog' \in {catalog, {}} BY <1>1, <1>2 DEF IdsOf
<1>3. CASE Publish /\ catalog' \notin {catalog, {}}
  <2>1. /\ catalog' = Active /\ rows' = rows
        /\ \/ pc' = "rebuildAgain" /\ op' = op
           \/ pc' = "idle"
    BY <1>3 DEF Publish, IndexFails, End
  <2>2. ~Deleting' /\ Known' = Known BY <2>1 DEF Deleting, OfNote, Known
  <2>3. IdsOf(Active) \subseteq Known BY ActiveTyped DEF CoursesInv
  <2>4. IdsOf(catalog)' = IdsOf(Active) BY <2>1 DEF IdsOf
  <2> QED BY <2>2, <2>3, <2>4 DEF Kept
<1> QED BY <1>2, <1>3 DEF Publish

\* What is left to be shown of a step of run r.
LEMMA ChoiceStep ==
  ASSUME PhoneInv, ChoiceInv, NEW r \in Runs, UNCHANGED <<rows, op, pc, catalog, offered>>,
         \A q \in Runs \ {r}: stage'[q] = stage[q] /\ pick'[q] = pick[q] /\ lane'[q] = lane[q],
         ChoiceOf(r)',
         \/ \A j \in Jobs: box'[j] = box[j] \/ box'[j].at \notin Lanes
         \/ stage[r] = "move" /\ Moved(r)
  PROVE  ChoiceInv'
<1>1. Kept' = Kept BY DEF Kept, Known, Deleting
<1>2. (IdsOf(catalog) \cup IdsOf(offered) \subseteq Kept)' BY <1>1 DEF ChoiceInv, IdsOf
<1>3. \A q \in Runs \ {r}: ChoiceOf(q)' BY <1>1 DEF ChoiceInv, ChoiceOf
<1>4. CASE \A j \in Jobs: box'[j] = box[j] \/ box'[j].at \notin Lanes
  <2>1. \A j \in Jobs: MeantFor(j)' BY <1>1, <1>4 DEF ChoiceInv, MeantFor, Lanes
  <2> QED BY <1>2, <1>3, <2>1 DEF ChoiceInv
<1>5. CASE stage[r] = "move" /\ Moved(r)
  <2>1. PhoneTyped /\ LeaseOf(r) /\ CopyOf(r) /\ ChoiceOf(r) BY DEF PhoneInv, RunInv, ChoiceInv
  <2>2. lease[r] \in Jobs /\ box[lease[r]] \in Bundle /\ lane[r] \in Lanes
    BY <1>5, <2>1 DEF LeaseOf, Choosing, PhoneTyped
  <2> DEFINE b == box[lease[r]]
             n == IF lane[r] = "CourseInbox" THEN pick[r].name ELSE None
  <2>3. b.course = pick[r].id /\ b.name = n
    <3>1. b = WithManifest(b, r) BY <1>5, <2>1 DEF CopyOf
    <3>2. WithManifest(b, r).course = pick[r].id /\ WithManifest(b, r).name = n
      BY <2>2 DEF WithManifest, Bundle
    <3> HIDE DEF b, n
    <3> QED BY <3>1, <3>2
  <2>4. box' = [box EXCEPT ![lease[r]] = [b EXCEPT !.at = lane[r]]]
    BY <1>5, <2>1, <2>2 DEF Moved, PhoneTyped
  <2>5. /\ [b EXCEPT !.at = lane[r]].at = lane[r] /\ [b EXCEPT !.at = lane[r]].course = b.course
        /\ [b EXCEPT !.at = lane[r]].name = b.name
    BY <2>2 DEF Bundle
  <2>6. /\ box'[lease[r]].at = lane[r] /\ box'[lease[r]].course = pick[r].id
        /\ box'[lease[r]].name = n /\ \A j \in Jobs \ {lease[r]}: box'[j] = box[j]
    BY <2>1, <2>2, <2>3, <2>4, <2>5 DEF PhoneTyped
  <2>7. ASSUME NEW j \in Jobs, j = lease[r] PROVE MeantFor(j)'
    <3>1. /\ lane[r] = "Inbox" => pick[r].id \in Kept
          /\ lane[r] = "CourseInbox" =>
               pick[r].id \in Courses \ Old /\ pick[r].name \in Names
      BY <1>5, <2>1 DEF ChoiceOf, Choosing
    <3> QED BY <1>1, <2>6, <2>7, <3>1 DEF MeantFor
  <2>8. \A j \in Jobs: MeantFor(j)' BY <1>1, <2>6, <2>7 DEF ChoiceInv, MeantFor
  <2> QED BY <1>2, <1>3, <2>8 DEF ChoiceInv
<1> QED BY <1>4, <1>5

\* From the first id on the choice stays.
LEMMA LaterStep ==
  ASSUME PhoneInv, ChoiceInv, NEW r \in Runs, UNCHANGED <<rows, op, pc, catalog, offered>>,
         stage[r] \notin Choosing \cup {"done"}, pick' = pick, lane' = lane,
         \A q \in Runs \ {r}: stage'[q] = stage[q],
         stage'[r] \notin Choosing,
         \/ \A j \in Jobs: box'[j] = box[j] \/ box'[j].at \notin Lanes
         \/ stage[r] = "move" /\ Moved(r)
  PROVE  ChoiceInv'
<1>1. Kept' = Kept BY DEF Kept, Known, Deleting
<1>2. ChoiceOf(r) BY DEF ChoiceInv
<1>3. ChoiceOf(r)' BY <1>1, <1>2 DEF ChoiceOf, Choosing
<1> QED BY <1>3, ChoiceStep

LEMMA ChoosesChosen ==
  ASSUME CoursesInv, PhoneInv, ChoiceInv, NEW r \in Runs, Choose(r),
         UNCHANGED <<rows, op, pc, catalog>>
  PROVE  PhoneInv' /\ ChoiceInv'
<1>1. PhoneTyped /\ CoursesTyped BY DEF PhoneInv, CoursesInv
<1>2. \A j \in Jobs: box[j].at = "CourseInbox" => box[j].course \in Courses /\ box[j].name \in Names
  BY DEF ChoiceInv, MeantFor
<1>3. PICK p \in Pick:
        /\ pick' = [pick EXCEPT ![r] = p] /\ p.id \in Courses /\ p.name \in Names
        /\ \/ p.kind = "catalog"
           \/ p.kind = "create" /\ Fresh(p.id)
           \/ p.kind = "pending" /\ \E j \in Jobs: box[j].at = "CourseInbox" /\ p.id = box[j].course
  BY <1>1, <1>2, ChosenTyped
<1>4. p.kind # "catalog" => p.id \notin Old BY <1>3 DEF Fresh, ChoiceInv, MeantFor
<1>5. stage' = [stage EXCEPT ![r] = "again"] /\ UNCHANGED <<lane, box, offered>> BY DEF Choose, To
<1>6. /\ stage'[r] = "again" /\ pick'[r] = p
      /\ \A q \in Runs \ {r}: stage'[q] = stage[q] /\ pick'[q] = pick[q] /\ lane'[q] = lane[q]
  BY <1>1, <1>3, <1>5 DEF PhoneTyped
<1>7. ChoiceOf(r)' BY <1>3, <1>4, <1>6 DEF ChoiceOf, Choosing
<1>8. ChoiceInv' BY <1>5, <1>6, <1>7, ChoiceStep
<1> QED BY <1>1, <1>2, <1>8, ChooseKeeps

LEMMA ChoicesChosen ==
  ASSUME PhoneInv, ChoiceInv, NEW r \in Runs, UNCHANGED <<rows, op, pc, catalog>>,
         ReadCatalogAgain(r) \/ ReadPendingAgain(r) \/ ReadCatalogLast(r) \/ ReadFails(r)
  PROVE  ChoiceInv'
<1>1. PhoneTyped /\ ChoiceOf(r) BY DEF PhoneInv, ChoiceInv
<1>2. pick' = pick /\ box' = box /\ offered' = offered
  BY DEF ReadCatalogAgain, ReadPendingAgain, ReadCatalogLast, ReadFails
<1>3. Kept' = Kept BY DEF Kept, Known, Deleting
<1>4. Canonical(r) => pick[r].id \in Kept BY DEF Canonical, CatalogIds, ChoiceInv
<1>5. \/ stage'[r] = "done" /\ lane' = lane
      \/ stage'[r] = "lease" /\ lane'[r] = "Inbox" /\ Canonical(r)
         /\ \A q \in Runs \ {r}: lane'[q] = lane[q]
      \/ stage[r] = "final" /\ stage'[r] = "lease" /\ lane'[r] = "CourseInbox"
         /\ \A q \in Runs \ {r}: lane'[q] = lane[q]
      \/ stage'[r] = "pending" /\ pick[r].kind # "catalog" /\ lane' = lane
      \/ stage[r] = "pending" /\ stage'[r] = "final" /\ lane' = lane
  <2>1. CASE ReadCatalogAgain(r)
    BY <1>1, <2>1 DEF ReadCatalogAgain, ToLane, Tell, To, PhoneTyped
  <2>2. CASE ReadPendingAgain(r)
    BY <1>1, <2>2 DEF ReadPendingAgain, Tell, To, PhoneTyped
  <2>3. CASE ReadCatalogLast(r)
    BY <1>1, <2>3 DEF ReadCatalogLast, ToLane, To, PhoneTyped
  <2>4. CASE ReadFails(r) BY <1>1, <2>4 DEF ReadFails, Tell, To, PhoneTyped
  <2> QED BY <2>1, <2>2, <2>3, <2>4
<1>6. stage[r] \in Choosing /\ \A q \in Runs \ {r}: stage'[q] = stage[q] /\ lane'[q] = lane[q]
  <2>1. CASE ReadCatalogAgain(r)
    BY <1>1, <2>1 DEF ReadCatalogAgain, ToLane, Tell, To, PhoneTyped, Choosing
  <2>2. CASE ReadPendingAgain(r)
    BY <1>1, <2>2 DEF ReadPendingAgain, Tell, To, PhoneTyped, Choosing
  <2>3. CASE ReadCatalogLast(r)
    BY <1>1, <2>3 DEF ReadCatalogLast, ToLane, To, PhoneTyped, Choosing
  <2>4. CASE ReadFails(r) BY <1>1, <2>4 DEF ReadFails, Tell, To, PhoneTyped, Choosing
  <2> QED BY <2>1, <2>2, <2>3, <2>4
<1>7. stage[r] # "off" => pick[r].id \in Courses /\ pick[r].name \in Names
  BY <1>1, <1>6 DEF ChoiceOf, Choosing
<1>8. stage'[r] # "done" => stage[r] # "off"
  BY <1>1 DEF ReadCatalogAgain, ReadPendingAgain, ReadCatalogLast, ReadFails, Tell, To, PhoneTyped
<1>9. ChoiceOf(r)' BY <1>1, <1>2, <1>3, <1>4, <1>5, <1>7, <1>8 DEF ChoiceOf, Choosing
<1> QED BY <1>2, <1>6, <1>9, ChoiceStep

\* What a run makes of the directories, once it looks for an id.
LEMMA BoxStep ==
  ASSUME PhoneInv, NEW r \in Runs, stage[r] \notin Choosing \cup {"done"},
         RunStep(r) \/ RunFault(r)
  PROVE  /\ \A j \in Jobs: Published(j) => box'[j] = box[j]
         /\ \/ \A j \in Jobs: box'[j] = box[j] \/ box'[j].at \notin Lanes
            \/ stage[r] = "move" /\ Moved(r)
         /\ pick' = pick /\ lane' = lane /\ offered' = offered
         /\ \A q \in Runs \ {r}: stage'[q] = stage[q]
         /\ stage'[r] \notin Choosing
<1>1. PhoneTyped /\ LeaseOf(r) /\ CopyOf(r) BY DEF PhoneInv, RunInv
<1>2. lease[r] \in Jobs \/ stage[r] = "lease" BY <1>1 DEF LeaseOf
<1>3. \/ LookAtId(r) \/ Reserve(r) \/ MakeDirectory(r) \/ LeaseThrows(r)
      \/ Snapshot(r) \/ CopySource(r) \/ CheckSource(r) \/ Manifest(r) \/ Move(r) \/ WriteThrows(r)
      \/ Look(r) \/ LookFails(r) \/ Tidy(r) \/ TidyFails(r) \/ Kill(r)
  BY DEF RunStep, RunFault, ReadCatalogAgain, ReadPendingAgain, ReadCatalogLast, ReadFails, Choosing
<1>4. pick' = pick /\ lane' = lane /\ offered' = offered
  BY <1>3 DEF LookAtId, Reserve, MakeDirectory, LeaseThrows, Snapshot, CopySource, CheckSource,
              Manifest, Move, WriteThrows, Look, LookFails, Tidy, TidyFails, Kill
<1>5. /\ \A q \in Runs \ {r}: stage'[q] = stage[q]
      /\ stage'[r] \notin Choosing
  <2>1. CASE LookAtId(r) \/ Reserve(r) \/ MakeDirectory(r) \/ LeaseThrows(r)
    BY <1>1, <2>1 DEF LookAtId, Reserve, MakeDirectory, LeaseThrows, NextTry, Tell, To,
                      PhoneTyped, Choosing
  <2>2. CASE Snapshot(r) \/ CopySource(r) \/ CheckSource(r)
    BY <1>1, <2>2 DEF Snapshot, CopySource, CheckSource, Advance, To, PhoneTyped, Choosing
  <2>3. CASE Manifest(r) \/ Move(r) \/ WriteThrows(r) \/ Look(r) \/ LookFails(r)
    BY <1>1, <2>3 DEF Manifest, Move, WriteThrows, Look, LookFails, Tell, To, PhoneTyped, Choosing
  <2>4. CASE Tidy(r) \/ TidyFails(r) \/ Kill(r)
    BY <1>1, <2>4 DEF Tidy, TidyFails, Kill, Tell, To, PhoneTyped, Choosing
  <2> QED BY <1>3, <2>1, <2>2, <2>3, <2>4
<1>6. \/ \A j \in Jobs: box'[j] = box[j]
      \/ /\ lease[r] \in Jobs /\ ~Published(lease[r])
         /\ \A j \in Jobs \ {lease[r]}: box'[j] = box[j]
         /\ box'[lease[r]].at \notin Lanes \/ (stage[r] = "move" /\ Moved(r))
  <2>1. CASE box' = box BY <2>1
  <2>2. CASE box' # box /\ (MakeDirectory(r) \/ LeaseThrows(r))
    <3>1. stage[r] = "mkdir" /\ box' = [box EXCEPT ![lease[r]] = [NoBundle EXCEPT !.at = "hidden"]]
      BY <2>2 DEF MakeDirectory, LeaseThrows
    <3>2. lease[r] \in Jobs /\ ~Published(lease[r])
      BY <1>2, <3>1, NotYetPublished DEF After
    <3>3. /\ box'[lease[r]] = [NoBundle EXCEPT !.at = "hidden"]
          /\ \A j \in Jobs \ {lease[r]}: box'[j] = box[j]
      BY <1>1, <3>1, <3>2 DEF PhoneTyped
    <3>4. box'[lease[r]].at \notin Lanes BY <3>3 DEF NoBundle, Lanes
    <3> QED BY <3>2, <3>3, <3>4
  <2>3. CASE CopySource(r) /\ box' # box
    <3>1. stage[r] = "copy" /\ box' = [box EXCEPT ![lease[r]].copies[step[r]] = files[step[r]]]
      BY <2>3 DEF CopySource
    <3>2. lease[r] \in Jobs /\ box[lease[r]].at = "hidden" /\ box[lease[r]] \in Bundle
      BY <1>1, <1>2, <3>1 DEF CopyOf, Writing, PhoneTyped
    <3>3. box'[lease[r]].at = "hidden" /\ \A j \in Jobs \ {lease[r]}: box'[j] = box[j]
      BY <1>1, <3>1, <3>2 DEF PhoneTyped, Bundle
    <3> QED BY <3>2, <3>3 DEF Published, Lanes
  <2>4. CASE Manifest(r)
    <3>1. stage[r] = "manifest" /\ box' = [box EXCEPT ![lease[r]] = WithManifest(box[lease[r]], r)]
      BY <2>4 DEF Manifest
    <3>2. lease[r] \in Jobs /\ box[lease[r]].at = "hidden" /\ box[lease[r]] \in Bundle
      BY <1>1, <1>2, <3>1 DEF CopyOf, Writing, PhoneTyped
    <3>3. WithManifest(box[lease[r]], r).at = "hidden" BY <3>2 DEF WithManifest, Bundle
    <3>4. /\ box'[lease[r]] = WithManifest(box[lease[r]], r)
          /\ \A j \in Jobs \ {lease[r]}: box'[j] = box[j]
      BY <1>1, <3>1, <3>2 DEF PhoneTyped
    <3> QED BY <3>2, <3>3, <3>4 DEF Published, Lanes
  <2>5. CASE (Move(r) \/ WriteThrows(r)) /\ box' # box
    <3>1. stage[r] = "move" /\ Moved(r) BY <2>5 DEF Move, WriteThrows
    <3>2. lease[r] \in Jobs /\ box[lease[r]].at = "hidden"
      BY <1>1, <1>2, <3>1 DEF CopyOf, Writing
    <3>3. \A j \in Jobs \ {lease[r]}: box'[j] = box[j] BY <3>1, MovedIsWhole
    <3> QED BY <3>1, <3>2, <3>3 DEF Published, Lanes
  <2>6. CASE Tidy(r)
    <3>1. lease[r] \in Jobs BY <1>2, <2>6 DEF Tidy
    <3>2. box' = [box EXCEPT ![lease[r]] = IF box[lease[r]].at = "hidden" THEN NoBundle
                                           ELSE box[lease[r]]]
      BY <1>1, <2>6, <3>1 DEF Tidy, PhoneTyped
    <3>3. /\ box'[lease[r]] = IF box[lease[r]].at = "hidden" THEN NoBundle ELSE box[lease[r]]
          /\ \A j \in Jobs \ {lease[r]}: box'[j] = box[j]
      BY <1>1, <3>1, <3>2 DEF PhoneTyped
    <3>4. NoBundle.at \notin Lanes BY DEF NoBundle, Lanes
    <3> QED BY <3>1, <3>3, <3>4 DEF Published, Lanes
  <2>7. \/ box' = box \/ MakeDirectory(r) \/ LeaseThrows(r) \/ CopySource(r) \/ Manifest(r)
        \/ Move(r) \/ WriteThrows(r) \/ Tidy(r)
    BY <1>3 DEF LookAtId, Reserve, Snapshot, CheckSource, Look, LookFails, TidyFails, Kill
  <2> QED BY <2>1, <2>2, <2>3, <2>4, <2>5, <2>6, <2>7
<1>7. \A j \in Jobs: Published(j) => box'[j] = box[j] BY <1>6
<1>8. \/ \A j \in Jobs: box'[j] = box[j] \/ box'[j].at \notin Lanes
      \/ stage[r] = "move" /\ Moved(r)
  BY <1>6
<1> QED BY <1>4, <1>5, <1>7, <1>8

LEMMA PhoneKeeps ==
  ASSUME CoursesInv, PhoneInv, ChoiceInv, NEW r \in Runs, Choose(r) \/ RunStep(r) \/ RunFault(r),
         UNCHANGED <<rows, op, pc, catalog>>
  PROVE  PhoneInv' /\ ChoiceInv' /\ \A j \in Jobs: Published(j) => box'[j] = box[j]
<1>1. CASE Choose(r) BY <1>1, ChoosesChosen DEF Choose
<1>2. CASE ReadCatalogAgain(r) \/ ReadPendingAgain(r) \/ ReadCatalogLast(r) \/ ReadFails(r)
  <2>1. PhoneInv' /\ ChoiceInv' BY <1>2, ChoicesKeep, ChoicesChosen
  <2>2. box' = box
    BY <1>2 DEF ReadCatalogAgain, ReadPendingAgain, ReadCatalogLast, ReadFails
  <2> QED BY <2>1, <2>2
<1>3. CASE Kill(r) /\ stage[r] \in Choosing
  <2>1. PhoneInv' BY <1>3, KillKeeps
  <2>2. ChoiceInv'
    <3>1. PhoneTyped /\ ChoiceOf(r) BY DEF PhoneInv, ChoiceInv
    <3>2. stage' = [stage EXCEPT ![r] = "done"] /\ UNCHANGED <<pick, lane, box, offered>>
      BY <1>3 DEF Kill, To
    <3>3. stage'[r] = "done" /\ \A q \in Runs \ {r}: stage'[q] = stage[q] BY <3>1, <3>2 DEF PhoneTyped
    <3>4. ChoiceOf(r)' BY <3>1, <3>2, <3>3 DEF ChoiceOf
    <3> QED BY <3>2, <3>3, <3>4, ChoiceStep
  <2> QED BY <1>3, <2>1, <2>2 DEF Kill
<1>4. CASE /\ RunStep(r) \/ RunFault(r)
           /\ ~(ReadCatalogAgain(r) \/ ReadPendingAgain(r) \/ ReadCatalogLast(r) \/ ReadFails(r))
           /\ ~(Kill(r) /\ stage[r] \in Choosing)
  <2>1. \/ LookAtId(r) \/ Reserve(r) \/ MakeDirectory(r) \/ LeaseThrows(r)
        \/ Snapshot(r) \/ CopySource(r) \/ CheckSource(r) \/ Manifest(r) \/ Move(r) \/ WriteThrows(r)
        \/ Look(r) \/ LookFails(r) \/ Tidy(r) \/ TidyFails(r) \/ Kill(r)
    BY <1>4 DEF RunStep, RunFault
  <2>2. stage[r] \notin Choosing \cup {"done"}
    BY <1>4, <2>1 DEF LookAtId, Reserve, MakeDirectory, LeaseThrows, Snapshot, CopySource,
                      CheckSource, Manifest, Move, WriteThrows, Look, LookFails, Tidy, TidyFails,
                      Kill, Choosing
  <2>3. /\ \A j \in Jobs: Published(j) => box'[j] = box[j]
        /\ \/ \A j \in Jobs: box'[j] = box[j] \/ box'[j].at \notin Lanes
           \/ stage[r] = "move" /\ Moved(r)
        /\ pick' = pick /\ lane' = lane /\ offered' = offered
        /\ \A q \in Runs \ {r}: stage'[q] = stage[q]
        /\ stage'[r] \notin Choosing
    BY <1>4, <2>2, BoxStep
  <2>4. ChoiceInv' BY <2>2, <2>3, LaterStep
  <2>5. pick[r].id \in Courses /\ pick[r].name \in Names
    BY <2>2 DEF ChoiceInv, ChoiceOf, Choosing
  <2>6. PhoneInv'
    BY <2>1, <2>5, LookAtIdKeeps, ReserveKeeps, MakeDirectoryKeeps, LeaseThrowsKeeps,
       SnapshotKeeps, CopySourceKeeps, CheckSourceKeeps, ManifestKeeps, MoveKeeps,
       WriteThrowsKeeps, LookKeeps, TidyKeeps, KillKeeps
  <2> QED BY <2>3, <2>4, <2>6
<1> QED BY <1>1, <1>2, <1>3, <1>4

-----------------------------------------------------------------------------
(* The initial state.                                                       *)

LEMMA CoursesStart == ASSUME Init PROVE CoursesInv /\ Active = {} /\ Known = {}
<1>1. /\ rows = [c \in Courses |-> NoRow] /\ note = [f \in Folders |-> NoNote]
      /\ catalog = {} /\ issues = {} /\ op = NoOp /\ pc = "idle" /\ answer = "ok" /\ loose = FALSE
  BY DEF Init, ServiceInit
<1>2. CoursesTyped
  <2>1. rows \in [Courses -> Row] /\ op \in Op BY <1>1, NoRowTyped
  <2>2. note \in [Folders -> {NoNote, Broken} \cup CourseNotes] BY <1>1
  <2>3. catalog \subseteq Courses \X Names BY <1>1
  <2>4. issues \subseteq {"course-note", "indexes"} \X (Courses \cup {None}) BY <1>1
  <2> QED BY <1>1, <2>1, <2>2, <2>3, <2>4 DEF CoursesTyped, Places, Codes
<1>3. \A c \in Courses: rows[c] = NoRow /\ rows[c].state = "none" BY <1>1 DEF NoRow
<1>4. Active = {} /\ Known = {} BY <1>3 DEF Active, Known
<1>5. RowsInv BY <1>3 DEF RowsInv
<1>6. OpInv BY <1>1 DEF OpInv, OfNote, NoOp
<1>7. \A f \in Folders: note[f].kind # "course" BY <1>1 DEF NoNote
<1>8. NotesInv BY <1>1, <1>7 DEF NotesInv, Deleting, NoOp
<1>9. CatalogInv BY <1>1, <1>4 DEF CatalogInv, OfNote
<1> QED BY <1>2, <1>4, <1>5, <1>6, <1>8, <1>9 DEF CoursesInv

LEMMA PhoneStart == ASSUME NEW made, PhoneInit(made) PROVE PhoneInv
<1>1. PhoneTyped
  <2>1. Count \in Nat \ {0} /\ MaxTries \in Nat \ {0} /\ 1 \in Sources /\ 0 \in 0..MaxTries
    BY PhoneAssumption DEF Sources
  <2>2. NoBundle \in Bundle /\ NoPick \in Pick BY DEF NoBundle, Bundle, NoPick, Pick
  <2>3. stage \in [Runs -> Stages] BY DEF PhoneInit, Stages
  <2>4. /\ pick \in [Runs -> Pick] /\ box \in [Jobs -> Bundle]
        /\ step \in [Runs -> Sources] /\ tries \in [Runs -> 0..MaxTries]
    BY <2>1, <2>2 DEF PhoneInit
  <2>5. /\ lane \in [Runs -> Lanes] /\ lease \in [Runs -> Jobs \cup {None}]
        /\ told \in [Runs -> {"nothing", "queued", "failed", "unsure", "stale"}]
        /\ reserved \subseteq Jobs /\ files \in [Sources -> Nat] /\ offered \subseteq Courses \X Names
    BY DEF PhoneInit, Lanes
  <2>6. seen \in [Runs -> [Sources -> Nat]] /\ cut \in [Runs -> [Sources -> Nat]] BY DEF PhoneInit
  <2> QED BY <2>3, <2>4, <2>5, <2>6 DEF PhoneTyped
<1>2. \A r \in Runs: /\ stage[r] \in {"off", "done"} /\ lease[r] = None /\ told[r] = "nothing"
                     /\ tries[r] = 0
  BY DEF PhoneInit
<1>3. HeldOnce BY <1>2 DEF HeldOnce
<1>4. ASSUME NEW r \in Runs PROVE RunInv(r)
  <2>1. LeaseOf(r) BY <1>2, PhoneAssumption DEF LeaseOf, Choosing, Leasing
  <2>2. CopyOf(r) BY <1>2 DEF CopyOf, Writing
  <2>3. ToldOf(r) BY <1>2 DEF ToldOf
  <2> QED BY <2>1, <2>2, <2>3 DEF RunInv
<1>5. \A j \in Jobs: box[j].at = "none" BY DEF PhoneInit, NoBundle
<1>6. \A j \in Jobs: LaneOf(j) BY <1>5 DEF LaneOf, Published, Lanes
<1> QED BY <1>1, <1>3, <1>4, <1>6 DEF PhoneInv

THEOREM DeliveryStarts == Init => DeliveryInv
<1> SUFFICES ASSUME Init PROVE DeliveryInv OBVIOUS
<1>1. PICK w \in Workloads: PhoneInit(w.runs) /\ StatusInit(w.looks) BY DEF Init
<1>2. CoursesInv BY CoursesStart
<1>3. PhoneInv BY <1>1, PhoneStart
<1>4. /\ \A r \in Runs: stage[r] \in {"off", "done"} /\ pick[r] = NoPick
      /\ \A j \in Jobs: box[j] = NoBundle
      /\ offered = {} /\ refused = {} /\ catalog = {}
  BY <1>1 DEF PhoneInit, Init, ServiceInit
<1>5. ChoiceInv
  <2>1. IdsOf(catalog) \cup IdsOf(offered) = {} BY <1>4 DEF IdsOf
  <2>2. ASSUME NEW r \in Runs PROVE ChoiceOf(r)
    <3>1. None \notin Old BY CourseAssumption
    <3>2. pick[r].id = None BY <1>4 DEF NoPick
    <3> QED BY <1>4, <3>1, <3>2 DEF ChoiceOf, Choosing
  <2>3. \A j \in Jobs: MeantFor(j) BY <1>4 DEF MeantFor, NoBundle
  <2> QED BY <2>1, <2>2, <2>3 DEF ChoiceInv
<1>6. StatusInv BY <1>1 DEF StatusInit, StatusInv, Lanes
<1>7. VerdictInv BY <1>4 DEF Init, VerdictInv
<1>8. ClaimInv BY DEF Init, ClaimInv
<1> QED BY <1>2, <1>3, <1>5, <1>6, <1>7, <1>8 DEF DeliveryInv

-----------------------------------------------------------------------------
(* What a step leaves alone.                                                *)

LEMMA CoursesStay ==
  ASSUME CoursesInv, UNCHANGED <<rows, note, catalog, issues, op, pc, loose>>, answer' \in Codes
  PROVE  CoursesInv' /\ KeptStays
<1>1. Kept' = Kept /\ Known' = Known /\ Active' = Active /\ (Deleting' <=> Deleting)
  BY KeptUnchanged
<1>2. CoursesTyped' BY DEF CoursesInv, CoursesTyped
<1>3. RowsInv' /\ OpInv' BY <1>1 DEF CoursesInv, RowsInv, OpInv
<1>4. NotesInv' BY <1>1 DEF CoursesInv, NotesInv
<1>5. CatalogInv' BY <1>1 DEF CoursesInv, CatalogInv
<1> QED BY <1>1, <1>2, <1>3, <1>4, <1>5 DEF CoursesInv, KeptStays

LEMMA PhoneAside ==
  ASSUME CoursesInv, PhoneInv, ChoiceInv, KeptStays, catalog' = catalog \/ Publish,
         UNCHANGED <<stage, pick, lane, lease, tries, seen, step, cut, told, box, reserved, files, offered>>
  PROVE  PhoneInv' /\ ChoiceInv'
<1>1. offered' \subseteq Courses \X Names BY DEF PhoneInv, PhoneTyped
<1>2. PhoneInv' BY <1>1, PhoneStays
<1>3. IdsOf(catalog)' \subseteq Kept' BY CatalogIsKept
<1> QED BY <1>2, <1>3, ChoiceStays

LEMMA StatusAside ==
  ASSUME StatusInv, UNCHANGED statusVars,
         \A j \in Jobs: box[j].at = "CourseInbox" => box'[j] = box[j] \/ receipt[j] # "none"
  PROVE  StatusInv'
  BY DEF StatusInv, statusVars

LEMMA VerdictAside ==
  ASSUME VerdictInv, UNCHANGED <<verdict, refused, receipt>>, ready' \subseteq ready PROVE VerdictInv'
  BY DEF VerdictInv

LEMMA ClaimAside ==
  ASSUME ClaimInv, UNCHANGED <<rows, note, op, pc, answer, edited, claim, verdict>>,
         \A j \in Jobs: Published(j) /\ verdict[j] = "none" => box'[j] = box[j]
  PROVE  ClaimInv'
<1> SUFFICES ASSUME claim' # None PROVE ClaimInv' BY DEF ClaimInv
<1>1. claim \in Jobs /\ Published(claim) /\ verdict[claim] = "none" BY DEF ClaimInv
<1>2. box'[claim] = box[claim] BY <1>1
<1>3. Known' = Known /\ \A f: InFolder(f)' = InFolder(f) BY DEF Known, InFolder
<1>4. \A f, c: Unreadable(f, c)' <=> Unreadable(f, c) BY DEF Unreadable
<1> QED BY <1>2, <1>3, <1>4 DEF ClaimInv, Published

-----------------------------------------------------------------------------
(* The courses' steps, while a poll is at a bundle.                         *)

LEMMA ServiceKeepsCourses ==
  ASSUME CoursesInv, ServiceStep \/ Command \/ ChooseVault \/ Edit \/ Stop \/ Start
  PROVE  CoursesInv' /\ KeptStays /\ (catalog' = catalog \/ Publish)
<1>1. CASE Command
  <2>1. catalog' = catalog
    BY <1>1 DEF Command, Create, Activate, CreateWithId, Update, Archive, RestoreCourse, Begin, Refuse
  <2> QED BY <1>1, <2>1, CommandKeeps
<1>2. CASE ChooseVault
  <2>1. catalog' = catalog BY <1>2 DEF ChooseVault, Refuse
  <2> QED BY <1>2, <2>1, ChooseVaultKeeps
<1>3. CASE Edit BY <1>3, EditKeeps DEF Edit
<1>4. CASE Stop BY <1>4, StopKeeps DEF Stop
<1>5. CASE Start BY <1>5, StartKeeps DEF Start
<1>6. CASE ServiceStep
  <2>1. ReadNote => catalog' = catalog BY DEF ReadNote, NoteFails, NoteDone
  <2>2. WriteNote => catalog' = catalog BY DEF WriteNote, NoteFails, NoteDone
  <2>3. Undo => catalog' = catalog BY DEF Undo
  <2>4. ReadIndex => catalog' = catalog BY DEF ReadIndex
  <2>5. WriteIndex => catalog' = catalog BY DEF WriteIndex
  <2>6. Rebuild \/ RebuildAgain => catalog' = catalog BY DEF Rebuild, RebuildAgain
  <2> QED BY <1>6, <2>1, <2>2, <2>3, <2>4, <2>5, <2>6, ReadNoteKeeps, WriteNoteKeeps, UndoKeeps,
             ReadIndexKeeps, WriteIndexKeeps, PublishKeeps, RebuildKeeps, RebuildAgainKeeps
          DEF ServiceStep
<1> QED BY <1>1, <1>2, <1>3, <1>4, <1>5, <1>6

\* What a claim rests on, of the fields of an operation that leaves it the same.
LEMMA ClaimGoesOn ==
  ASSUME CoursesTyped, ClaimInv, claim # None, UNCHANGED <<rows, claim, verdict, box, edited>>,
         pc # "idle", pc' \in {"index", "writeIndex", "publish"} \cup OfNote,
         op'.id = op.id, op'.mode = op.mode, op'.undo = op.undo,
         pc' = "write" => ~op'.stale,
         pc' = "undo" /\ op.undo = "delete" /\ op'.code = "DUPLICATE_COURSE" =>
           rows[op.id].folder \in edited \/ Unreadable(rows[op.id].folder, op.id)',
         op' \in Op
  PROVE  ClaimInv'
<1>1. Known' = Known BY DEF Known
<1>2. claim \in Jobs /\ Published(claim) /\ verdict[claim] = "none" BY DEF ClaimInv
<1>3. Published(claim)' BY <1>2 DEF Published
<1>4. pc' # "idle" BY DEF OfNote
<1>5. LET c == box[claim].course
          f == FolderOf[box[claim].name] IN
      /\ op.id = c /\ c \in Known /\ op.mode = "required" /\ op.undo \in {"none", "delete"}
      /\ op.undo = "delete" => box[claim].at = "CourseInbox" /\ rows[c].folder = f
  BY DEF ClaimInv
<1>6. op'.stale \in BOOLEAN BY DEF Op
<1> QED BY <1>1, <1>2, <1>3, <1>4, <1>5, <1>6 DEF ClaimInv

\* An operation that ends, with nothing to be said of it but that it failed.
LEMMA ClaimFails ==
  ASSUME ClaimInv, UNCHANGED <<claim, verdict, box>>, pc' = "idle", answer' = "failed"
  PROVE  ClaimInv'
<1> SUFFICES ASSUME claim' # None PROVE ClaimInv' BY DEF ClaimInv
<1>1. claim \in Jobs /\ Published(claim) /\ verdict[claim] = "none" BY DEF ClaimInv
<1>2. Published(claim)' BY <1>1 DEF Published
<1> QED BY <1>1, <1>2 DEF ClaimInv

LEMMA NoteFailsClaim ==
  ASSUME CoursesInv, ClaimInv, claim # None, UNCHANGED <<claim, verdict, box, edited>>,
         pc \in {"note", "write"}, NEW code \in {"failed", "DUPLICATE_COURSE"}, NoteFails(code),
         code = "DUPLICATE_COURSE" =>
           /\ op.undo = "delete"
           /\ rows[op.id].folder \in edited \/ Unreadable(rows[op.id].folder, op.id)',
         CoursesTyped'
  PROVE  ClaimInv'
<1>1. CoursesTyped /\ OpInv BY DEF CoursesInv
<1>2. op.mode = "required" /\ op.undo \in {"none", "delete"} BY DEF ClaimInv
<1>3. op \in Op /\ op' \in Op BY <1>1 DEF CoursesTyped
<1>4. CASE op.undo = "delete"
  <2>1. pc' = "undo" /\ op' = [op EXCEPT !.code = code] /\ rows' = rows
    BY <1>2, <1>4 DEF NoteFails
  <2>2. op'.id = op.id /\ op'.mode = op.mode /\ op'.undo = op.undo /\ op'.code = code
    BY <1>3, <2>1 DEF Op
  <2> QED BY <1>1, <1>3, <2>1, <2>2, ClaimGoesOn DEF OfNote
<1>5. CASE op.undo = "none"
  <2>1. End(code) BY <1>2, <1>5 DEF NoteFails
  <2>2. pc' = "idle" /\ answer' = "failed" BY <1>5, <2>1 DEF End
  <2> QED BY <2>2, ClaimFails
<1> QED BY <1>2, <1>4, <1>5

LEMMA NoteDoneClaim ==
  ASSUME CoursesInv, ClaimInv, claim # None, UNCHANGED <<claim, verdict, box, edited>>,
         pc \in {"note", "write"}, NoteDone, CoursesTyped'
  PROVE  ClaimInv'
<1>1. CoursesTyped /\ OpInv BY DEF CoursesInv
<1>2. op.mode = "required" BY DEF ClaimInv
<1>3. op.rest = {} BY <1>1, <1>2 DEF OpInv
<1>4. pc' = "index" /\ op' = op /\ rows' = rows BY <1>3 DEF NoteDone
<1>5. op' \in Op BY DEF CoursesTyped
<1> QED BY <1>1, <1>4, <1>5, ClaimGoesOn

LEMMA ReadNoteClaim ==
  ASSUME CoursesInv, ClaimInv, claim # None, UNCHANGED <<claim, verdict, box>>, ReadNote, CoursesTyped'
  PROVE  ClaimInv'
<1>1. CoursesTyped /\ OpInv /\ NotesInv BY DEF CoursesInv
<1>2. pc = "note" /\ note' = note /\ edited' = edited BY DEF ReadNote
<1>3. op.id \in Courses /\ rows[op.id].folder \in Folders
  <2>1. op.id \in Known BY <1>1, <1>2 DEF OpInv, OfNote
  <2> QED BY <2>1, CourseTyped DEF CoursesInv, Known
<1>4. CASE NoteFails("failed") BY <1>1, <1>2, <1>4, NoteFailsClaim
<1>5. CASE /\ op.undo = "delete" /\ note[rows[op.id].folder] # NoNote
           /\ NoteFails("DUPLICATE_COURSE")
  <2>1. Deleting BY <1>2, <1>5 DEF Deleting, OfNote
  <2>2. note[rows[op.id].folder].kind = "course" => note[rows[op.id].folder].id # op.id
    BY <1>1, <1>3, <2>1 DEF NotesInv
  <2>3. op.mode = "required" BY <1>2 DEF ClaimInv
  <2>4. Unreadable(rows[op.id].folder, op.id)' <=> Unreadable(rows[op.id].folder, op.id)
    <3>1. rows' = rows /\ op' = [op EXCEPT !.code = "DUPLICATE_COURSE"]
      BY <1>5, <2>3 DEF NoteFails
    <3>2. op'.id = op.id BY <1>1, <3>1 DEF CoursesTyped, Op
    <3> QED BY <1>2, <3>1, <3>2 DEF Unreadable
  <2>5. Unreadable(rows[op.id].folder, op.id)' BY <1>5, <2>2, <2>4 DEF Unreadable
  <2> QED BY <1>1, <1>2, <1>5, <2>5, NoteFailsClaim
<1>6. CASE NoteDone BY <1>2, <1>6, NoteDoneClaim
<1>7. CASE /\ pc' = "write" /\ op' = [op EXCEPT !.stale = FALSE]
           /\ UNCHANGED <<rows, index, catalog, issues, answer, loose>>
  <2>1. op'.id = op.id /\ op'.mode = op.mode /\ op'.undo = op.undo /\ op'.stale = FALSE /\ op' \in Op
    BY <1>1, <1>7 DEF CoursesTyped, Op
  <2> QED BY <1>1, <1>2, <1>7, <2>1, ClaimGoesOn DEF OfNote
<1> QED BY <1>4, <1>5, <1>6, <1>7 DEF ReadNote

LEMMA WriteNoteClaim ==
  ASSUME CoursesInv, ClaimInv, claim # None, UNCHANGED <<claim, verdict, box>>, WriteNote, CoursesTyped'
  PROVE  ClaimInv'
<1>1. pc = "write" /\ edited' = edited BY DEF WriteNote
<1>2. CASE NoteDone BY <1>1, <1>2, NoteDoneClaim
<1>3. CASE NoteFails("failed") BY <1>1, <1>3, NoteFailsClaim
<1>4. CASE op.stale /\ op.undo = "delete" /\ NoteFails("DUPLICATE_COURSE")
  <2>1. rows[op.id].folder \in edited BY <1>1, <1>4 DEF ClaimInv
  <2> QED BY <1>1, <1>4, <2>1, NoteFailsClaim
<1> QED BY <1>2, <1>3, <1>4 DEF WriteNote

LEMMA UndoClaim ==
  ASSUME CoursesInv, ClaimInv, claim # None, UNCHANGED <<claim, verdict, box>>, Undo
  PROVE  ClaimInv'
<1>1. CoursesTyped /\ OpInv BY DEF CoursesInv
<1>2. pc = "undo" /\ note' = note /\ edited' = edited /\ pc' = "idle" BY DEF Undo, End
<1>3. op.undo = "delete" /\ op.code \in {"failed", "DUPLICATE_COURSE"}
  BY <1>1, <1>2 DEF OpInv, ClaimInv
<1>4. CASE answer' = "failed" BY <1>2, <1>4, ClaimFails
<1>5. CASE answer' # "failed"
  <2>1. answer' = "DUPLICATE_COURSE" /\ op.code = "DUPLICATE_COURSE" /\ rows' = [rows EXCEPT ![op.id] = NoRow]
    BY <1>3, <1>5 DEF Undo, End
  <2>2. claim \in Jobs /\ Published(claim)' /\ verdict'[claim] = "none"
    BY DEF ClaimInv, Published
  <2>3. LET c == box[claim].course
            f == FolderOf[box[claim].name] IN
        /\ c = op.id /\ c \in Known /\ box[claim].at = "CourseInbox"
        /\ f \in edited \/ Unreadable(f, c)
    BY <1>2, <1>3, <2>1 DEF ClaimInv
  <2>4. box[claim].course \notin Known'
    <3>1. op.id \in Courses BY <2>3 DEF Known
    <3>2. rows'[op.id] = NoRow BY <1>1, <2>1, <3>1 DEF CoursesTyped
    <3> QED BY <2>3, <3>2 DEF Known, NoRow
  <2>5. \A f, c: Unreadable(f, c)' <=> Unreadable(f, c) BY <1>2 DEF Unreadable
  <2> QED BY <1>2, <2>1, <2>2, <2>3, <2>4, <2>5 DEF ClaimInv
<1> QED BY <1>4, <1>5

LEMMA IndexClaim ==
  ASSUME CoursesInv, ClaimInv, claim # None, UNCHANGED <<claim, verdict, box>>,
         ReadIndex \/ WriteIndex \/ Publish, CoursesTyped'
  PROVE  ClaimInv'
<1>1. CoursesTyped /\ OpInv BY DEF CoursesInv
<1>2. pc \in {"index", "writeIndex", "publish"} BY DEF ReadIndex, WriteIndex, Publish
<1>3. op.mode = "required" BY <1>2 DEF ClaimInv
<1>4. ~op.boot BY <1>1, <1>3 DEF OpInv
<1>5. edited' = edited /\ rows' = rows BY DEF ReadIndex, WriteIndex, Publish, IndexFails
<1>6. CASE IndexFails
  <2>1. pc' = "idle" /\ answer' = "failed" BY <1>3, <1>6 DEF IndexFails, End
  <2> QED BY <2>1, ClaimFails
<1>7. CASE pc' \in {"writeIndex", "publish"} /\ (op' = op \/ op' = [op EXCEPT !.stale = FALSE])
  <2>1. op'.id = op.id /\ op'.mode = op.mode /\ op'.undo = op.undo /\ op' \in Op
    BY <1>1, <1>7 DEF CoursesTyped, Op
  <2> QED BY <1>1, <1>2, <1>5, <1>7, <2>1, ClaimGoesOn
<1>8. CASE End("ok")
  <2>1. pc' = "idle" /\ answer' = "ok" BY <1>8 DEF End
  <2>2. claim \in Jobs /\ Published(claim)' /\ verdict'[claim] = "none"
    BY DEF ClaimInv, Published
  <2>3. box[claim].course \in Known' BY <1>2, <1>5 DEF ClaimInv, Known
  <2> QED BY <2>1, <2>2, <2>3 DEF ClaimInv
<1> QED BY <1>4, <1>6, <1>7, <1>8 DEF ReadIndex, WriteIndex, Publish

LEMMA ServiceKeepsClaim ==
  ASSUME CoursesInv, ClaimInv, UNCHANGED <<claim, verdict, box>>, ServiceStep, CoursesTyped'
  PROVE  ClaimInv'
<1>1. CASE claim = None BY <1>1 DEF ClaimInv
<1>2. CASE claim # None
  <2>1. pc \notin {"rebuild", "rebuildAgain"} BY <1>2 DEF ClaimInv, OfNote
  <2> QED BY <1>2, <2>1, ReadNoteClaim, WriteNoteClaim, UndoClaim, IndexClaim
          DEF ServiceStep, Rebuild, RebuildAgain
<1> QED BY <1>1, <1>2

LEMMA EditKeepsClaim ==
  ASSUME CoursesInv, ClaimInv, UNCHANGED <<claim, verdict, box>>, Edit
  PROVE  ClaimInv'
<1> SUFFICES ASSUME claim # None PROVE ClaimInv' BY DEF ClaimInv
<1>1. CoursesTyped BY DEF CoursesInv
<1>2. UNCHANGED <<rows, pc, answer>> /\ edited \subseteq edited' BY DEF Edit
<1>3. Known' = Known /\ \A f: InFolder(f)' = InFolder(f) BY <1>2 DEF Known, InFolder
<1>4. /\ op'.id = op.id /\ op'.mode = op.mode /\ op'.undo = op.undo /\ op'.code = op.code
      /\ pc = "write" /\ op'.stale => op.stale \/ rows[op.id].folder \in edited'
  <2>1. CASE \E f \in Folders: /\ edited' = edited \cup {f}
                               /\ op' = [op EXCEPT !.stale = @ \/ (pc = "write" /\ rows[op.id].folder = f)]
    BY <1>1, <2>1 DEF CoursesTyped, Op
  <2>2. CASE op' = [op EXCEPT !.stale = @ \/ pc = "writeIndex"]
    BY <1>1, <2>2 DEF CoursesTyped, Op
  <2> QED BY <2>1, <2>2 DEF Edit
<1>5. ASSUME NEW f, f \notin edited', NEW c, Unreadable(f, c) PROVE Unreadable(f, c)'
  <2>1. note'[f] = note[f]
    <3>1. CASE note' = note BY <3>1
    <3>2. CASE note' # note
      <4>1. PICK g \in Folders: /\ edited' = edited \cup {g}
                                /\ \E v: note' = [note EXCEPT ![g] = v]
        BY <3>2 DEF Edit
      <4>2. f # g BY <1>5, <4>1
      <4>3. \A v: [note EXCEPT ![g] = v][f] = note[f]
        BY <4>2
      <4> QED BY <4>1, <4>3
    <3> QED BY <3>1, <3>2
  <2> QED BY <1>5, <2>1 DEF Unreadable
<1>6. claim \in Jobs /\ Published(claim)' /\ verdict'[claim] = "none" BY DEF ClaimInv, Published
<1>7. pc' = "idle" =>
        LET c == box[claim].course
            f == FolderOf[box[claim].name] IN
        /\ answer' = "ok" => c \in Known'
        /\ answer' = "COURSE_NOT_FOUND" => rows'[c].state = "archived"
        /\ answer' = "DUPLICATE_COURSE" =>
             /\ box[claim].at = "CourseInbox" /\ c \notin Known'
             /\ InFolder(f)' # {} \/ f \in edited' \/ Unreadable(f, c)'
  BY <1>2, <1>3, <1>5 DEF ClaimInv
<1>8. pc' # "idle" =>
        LET c == box[claim].course
            f == FolderOf[box[claim].name] IN
         /\ op'.id = c /\ c \in Known' /\ op'.mode = "required" /\ op'.undo \in {"none", "delete"}
         /\ op'.undo = "delete" => /\ box[claim].at = "CourseInbox" /\ rows'[c].folder = f
                                   /\ pc' = "write" /\ op'.stale => f \in edited'
                                   /\ pc' = "undo" /\ op'.code = "DUPLICATE_COURSE" =>
                                        f \in edited' \/ Unreadable(f, c)'
  BY <1>2, <1>3, <1>4, <1>5 DEF ClaimInv
<1>9. pc' \in {"idle", "index", "writeIndex", "publish"} \cup OfNote BY <1>2 DEF ClaimInv
<1> QED BY <1>6, <1>7, <1>8, <1>9 DEF ClaimInv

-----------------------------------------------------------------------------
(* Every step.                                                              *)

LEMMA CoursesStep ==
  ASSUME DeliveryInv, ServiceStep \/ Command \/ ChooseVault \/ Edit \/ Stop \/ Start,
         UNCHANGED <<phoneVars, statusVars, verdict>>, ready' \subseteq ready, ClaimInv'
  PROVE  DeliveryInv'
<1>1. CoursesInv /\ PhoneInv /\ ChoiceInv /\ StatusInv /\ VerdictInv BY DEF DeliveryInv
<1>2. CoursesInv' /\ KeptStays /\ (catalog' = catalog \/ Publish) BY <1>1, ServiceKeepsCourses
<1>3. PhoneInv' /\ ChoiceInv' BY <1>1, <1>2, PhoneAside DEF phoneVars
<1>4. StatusInv' BY <1>1, StatusAside DEF phoneVars
<1>5. VerdictInv' BY <1>1, VerdictAside DEF phoneVars, statusVars
<1> QED BY <1>2, <1>3, <1>4, <1>5 DEF DeliveryInv

LEMMA TakeKeepsClaim ==
  ASSUME DeliveryInv, NEW j \in Jobs, Take(j), CoursesInv'
  PROVE  ClaimInv'
<1>1. /\ pc = "idle" /\ claim' = j /\ Published(j) /\ verdict[j] = "none"
      /\ verdict' = verdict /\ box' = box
  BY DEF Take, ItsTurn, phoneVars
<1>2. CoursesTyped /\ RowsInv /\ MeantFor(j) /\ Published(j)'
  BY <1>1 DEF DeliveryInv, CoursesInv, ChoiceInv, Published
<1> DEFINE c == box[j].course
           f == FolderOf[box[j].name]
<1>3. CASE box[j].at = "Inbox"
  <2>1. rows' = rows /\ pc' = "idle" /\ answer' = "ok" BY <1>1, <1>3 DEF Take, Refuse
  <2>2. c \in Known' BY <1>2, <1>3, <2>1 DEF MeantFor, Kept, Known
  <2> QED BY <1>1, <1>2, <2>1, <2>2 DEF ClaimInv
<1>4. CASE box[j].at = "CourseInbox"
  <2>1. Provision(c, box[j].name) BY <1>4 DEF Take
  <2>2. c \in Courses BY <1>2, <1>4 DEF MeantFor
  <2>3. ASSUME NEW row, NEW undo \in {"none", "delete"}, Begin(c, row, undo, "required"),
               row.state # "none", undo = "delete" => row.folder = f
        PROVE  ClaimInv'
    <3>1. CASE Refuse("failed")
      BY <1>1, <1>2, <3>1 DEF Refuse, ClaimInv
    <3>2. CASE ~Refuse("failed")
      <4>1. /\ rows' = [rows EXCEPT ![c] = row] /\ pc' = "note"
            /\ op' = [NoOp EXCEPT !.id = c, !.undo = undo, !.mode = "required", !.before = rows[c]]
        BY <2>3, <3>2 DEF Begin
      <4>2. rows'[c] = row BY <1>2, <2>2, <4>1 DEF CoursesTyped
      <4>3. c \in Known' BY <2>2, <2>3, <4>2 DEF Known
      <4>4. op'.id = c /\ op'.undo = undo /\ op'.mode = "required" BY <4>1 DEF NoOp
      <4> QED BY <1>1, <1>2, <1>4, <2>3, <4>1, <4>2, <4>3, <4>4 DEF ClaimInv, OfNote
    <3> QED BY <3>1, <3>2
  <2>4. CASE rows[c].state = "archived"
    <3>1. rows' = rows /\ pc' = "idle" /\ answer' = "COURSE_NOT_FOUND"
      BY <1>1, <2>1, <2>4 DEF Provision, Refuse
    <3> QED BY <1>1, <1>2, <2>4, <3>1 DEF ClaimInv
  <2>5. CASE rows[c].state = "active"
    <3>1. Begin(c, rows[c], "none", "required") BY <2>1, <2>5 DEF Provision
    <3> QED BY <2>3, <2>5, <3>1
  <2>6. CASE rows[c].state \notin {"active", "archived"}
    <3>1. CreateWithId(c, box[j].name, "required") BY <2>1, <2>6 DEF Provision
    <3>2. c \notin Known BY <1>2, <2>2, <2>6, CourseTyped
    <3>3. CASE InFolder(f) # {}
      <4>1. rows' = rows /\ pc' = "idle" /\ answer' = "DUPLICATE_COURSE"
        BY <1>1, <3>1, <3>3 DEF CreateWithId, Refuse
      <4>2. Known' = Known /\ InFolder(f)' = InFolder(f) BY <1>1, <4>1 DEF Known, InFolder
      <4>3. box'[j].at = "CourseInbox" /\ box'[j] = box[j] BY <1>1, <1>4
      <4> QED BY <1>1, <1>2, <3>2, <3>3, <4>1, <4>2, <4>3 DEF ClaimInv
    <3>4. CASE InFolder(f) = {}
      <4>1. Begin(c, NewRow(box[j].name), "delete", "required") BY <3>1, <3>4 DEF CreateWithId
      <4>2. NewRow(box[j].name).state = "active" /\ NewRow(box[j].name).folder = f BY DEF NewRow
      <4> QED BY <2>3, <4>1, <4>2
    <3> QED BY <3>3, <3>4
  <2> QED BY <2>4, <2>5, <2>6
<1> QED BY <1>1, <1>3, <1>4 DEF Published, Lanes

LEMMA TakeKeeps == ASSUME DeliveryInv, NEW j \in Jobs, Take(j) PROVE DeliveryInv'
<1>1. /\ CoursesInv /\ PhoneInv /\ ChoiceInv /\ StatusInv /\ VerdictInv
      /\ pc = "idle" /\ Published(j) /\ MeantFor(j)
  BY DEF DeliveryInv, Take, ItsTurn, ChoiceInv
<1>2. CoursesInv' /\ KeptStays
  <2>1. CASE box[j].at = "CourseInbox"
    BY <1>1, <2>1, ProvisionKeeps DEF Take, MeantFor
  <2>2. CASE box[j].at # "CourseInbox"
    <3>1. UNCHANGED <<rows, note, catalog, issues, op, pc, loose>> /\ answer' = "ok"
      BY <2>2 DEF Take, Refuse
    <3> QED BY <1>1, <3>1, CoursesStay DEF Codes
  <2> QED BY <2>1, <2>2
<1>3. catalog' = catalog BY DEF Take, Provision, CreateWithId, Begin, Refuse
<1>4. PhoneInv' /\ ChoiceInv' BY <1>1, <1>2, <1>3, PhoneAside DEF Take, phoneVars
<1>5. StatusInv' BY <1>1, StatusAside DEF Take, phoneVars
<1>6. VerdictInv' BY <1>1, VerdictAside DEF Take, ItsTurn, phoneVars, statusVars
<1>7. ClaimInv' BY <1>2, TakeKeepsClaim
<1> QED BY <1>2, <1>4, <1>5, <1>6, <1>7 DEF DeliveryInv

\* The list of a poll, and the bundles it passes over.
LEMMA ListKept == ASSUME DeliveryInv, Scan \/ \E j \in Jobs: Skip(j) PROVE DeliveryInv'
<1>1. /\ CoursesInv /\ PhoneInv /\ ChoiceInv /\ StatusInv /\ VerdictInv /\ ClaimInv
      /\ answer \in Codes
  BY DEF DeliveryInv, CoursesInv, CoursesTyped
<1>2. /\ UNCHANGED <<rows, note, catalog, issues, op, pc, answer, edited, loose>>
      /\ UNCHANGED <<phoneVars, statusVars, claim, verdict>>
  BY DEF Scan, Skip, serviceVars
<1>3. ready' \subseteq Jobs
  <2>1. ready \subseteq Jobs BY <1>1 DEF VerdictInv
  <2>2. CASE Scan BY <2>2 DEF Scan, Foremost, Listed
  <2>3. CASE \E j \in Jobs: Skip(j) BY <2>1, <2>3 DEF Skip, ItsTurn
  <2> QED BY <2>2, <2>3
<1>4. CoursesInv' /\ KeptStays BY <1>1, <1>2, CoursesStay
<1>5. PhoneInv' /\ ChoiceInv' BY <1>1, <1>2, <1>4, PhoneAside DEF phoneVars
<1>6. StatusInv' BY <1>1, <1>2, StatusAside DEF phoneVars
<1>7. VerdictInv' BY <1>1, <1>2, <1>3 DEF VerdictInv, phoneVars, statusVars
<1>8. ClaimInv' BY <1>1, <1>2, ClaimAside DEF phoneVars
<1> QED BY <1>4, <1>5, <1>6, <1>7, <1>8 DEF DeliveryInv

\* The runner's verdicts, and what it says in the receipts.
LEMMA ReceiptsOnly ==
  ASSUME StatusInv, UNCHANGED <<asked, owed, listed, tally, unread, box>>,
         receipt' \in [Jobs -> Receipts \cup {"none"}],
         \A j \in Jobs: receipt'[j] = receipt[j] \/ receipt'[j] # "none"
  PROVE  StatusInv'
  BY DEF StatusInv

LEMMA JudgementIs ==
  ASSUME CoursesInv, ClaimInv, pc = "idle", claim # None
  PROVE  /\ Judgement(claim) \in {"none", "accepted"} \cup RejectionCodes
         /\ Judgement(claim) = "COURSE_NOT_FOUND" => rows[box[claim].course].state = "archived"
         /\ Judgement(claim) = "DUPLICATE_JOB" => Twins(claim) # {}
         /\ Judgement(claim) \notin {"none", "accepted", "COURSE_NOT_FOUND", "DUPLICATE_JOB"} =>
              answer = "DUPLICATE_COURSE" /\ Judgement(claim) = answer
<1>1. answer \in Codes /\ CoursesTyped /\ RowsInv BY DEF CoursesInv, CoursesTyped
<1>2. answer = "ok" => box[claim].course \in Courses /\ rows[box[claim].course].state # "none"
  BY DEF ClaimInv, Known
<1>3. answer = "ok" /\ rows[box[claim].course].state # "active" => rows[box[claim].course].state = "archived"
  BY <1>1, <1>2, CourseTyped
<1>4. answer = "COURSE_NOT_FOUND" => rows[box[claim].course].state = "archived" BY DEF ClaimInv
<1>5. CASE answer = "ok" BY <1>1, <1>3, <1>5 DEF Judgement, RejectionCodes, PermanentErrors
<1>6. CASE answer # "ok"
  <2>1. Judgement(claim) = IF answer \in PermanentErrors THEN answer ELSE "none" BY <1>6 DEF Judgement
  <2> QED BY <1>1, <1>4, <1>6, <2>1 DEF RejectionCodes, PermanentErrors, Codes
<1> QED BY <1>5, <1>6

LEMMA JudgeKeeps == ASSUME DeliveryInv, Judge PROVE DeliveryInv'
<1>1. /\ CoursesInv /\ PhoneInv /\ ChoiceInv /\ StatusInv /\ VerdictInv /\ ClaimInv
      /\ answer \in Codes
  BY DEF DeliveryInv, CoursesInv, CoursesTyped
<1>2. pc = "idle" /\ claim \in Jobs /\ verdict[claim] = "none" /\ claim # None
  BY <1>1 DEF Judge, ClaimInv
<1>3. /\ UNCHANGED <<rows, note, catalog, issues, op, pc, answer, loose>> /\ claim' = None
      /\ UNCHANGED <<stage, pick, lane, lease, tries, seen, step, cut, told, box, reserved, files, offered>>
      /\ UNCHANGED <<asked, owed, listed, tally, unread, ready>>
  BY DEF Judge
<1>4. CoursesInv' /\ KeptStays BY <1>1, <1>3, CoursesStay
<1>5. PhoneInv' /\ ChoiceInv' BY <1>1, <1>3, <1>4, PhoneAside
<1> DEFINE v == Judgement(claim)
           failed == [receipt EXCEPT ![claim] = IF v = "accepted" THEN @ ELSE "failed"]
<1>6. v \in {"none", "accepted"} \cup RejectionCodes BY <1>1, <1>2, JudgementIs
<1>7. receipt \in [Jobs -> Receipts \cup {"none"}] BY <1>1 DEF StatusInv
<1>8. /\ failed \in [Jobs -> Receipts \cup {"none"}]
      /\ \A j \in Jobs: failed[j] = receipt[j] \/ failed[j] = "failed"
      /\ v # "accepted" => failed[claim] = "failed"
  BY <1>2, <1>7 DEF Receipts
<1>9. receipt' \in {receipt, failed} BY DEF Judge
<1>10. StatusInv' BY <1>1, <1>3, <1>7, <1>8, <1>9, ReceiptsOnly
<1>11. VerdictInv'
  <2>1. claim \notin refused BY <1>1, <1>2 DEF VerdictInv, RejectionCodes, PermanentErrors
  <2>2. \A j \in refused: receipt'[j] = "failed" BY <1>1, <1>8, <1>9 DEF VerdictInv
  <2>3. CASE UNCHANGED <<verdict, refused>> BY <1>1, <1>3, <2>2, <2>3 DEF VerdictInv
  <2>4. CASE /\ verdict' = [verdict EXCEPT ![claim] = v]
             /\ refused' = IF v \in RejectionCodes THEN refused \cup {claim} ELSE refused
             /\ receipt' = failed
    <3>1. verdict' \in [Jobs -> {"none", "accepted"} \cup RejectionCodes]
      BY <1>1, <1>6, <2>4 DEF VerdictInv
    <3>2. verdict'[claim] = v /\ \A j \in Jobs \ {claim}: verdict'[j] = verdict[j]
      BY <1>1, <1>2, <2>4 DEF VerdictInv
    <3>3. v \in RejectionCodes => receipt'[claim] = "failed"
      BY <1>8, <2>4 DEF RejectionCodes, PermanentErrors
    <3> QED BY <1>1, <1>2, <1>3, <2>1, <2>2, <2>4, <3>1, <3>2, <3>3 DEF VerdictInv
  <2> QED BY <2>3, <2>4 DEF Judge
<1>12. ClaimInv' BY <1>3 DEF ClaimInv
<1> QED BY <1>4, <1>5, <1>10, <1>11, <1>12 DEF DeliveryInv

LEMMA WorkKeeps == ASSUME DeliveryInv, NEW j \in Jobs, Work(j) PROVE DeliveryInv'
<1>1. /\ CoursesInv /\ PhoneInv /\ ChoiceInv /\ StatusInv /\ VerdictInv /\ ClaimInv
      /\ answer \in Codes
  BY DEF DeliveryInv, CoursesInv, CoursesTyped
<1>2. /\ verdict[j] = "accepted" /\ UNCHANGED <<phoneVars, deliveryVars>>
      /\ UNCHANGED <<rows, note, catalog, issues, op, pc, answer, edited, loose>>
      /\ \E status \in Receipts: Say(j, status)
  BY DEF Work, Receipts
<1>3. PICK status \in Receipts: Say(j, status) BY <1>2
<1>4. /\ receipt' \in [Jobs -> Receipts \cup {"none"}] /\ receipt'[j] = status
      /\ \A k \in Jobs \ {j}: receipt'[k] = receipt[k]
  BY <1>1, <1>3 DEF Say, StatusInv
<1>5. status # "none" BY DEF Receipts
<1>6. CoursesInv' /\ KeptStays BY <1>1, <1>2, CoursesStay
<1>7. PhoneInv' /\ ChoiceInv' BY <1>1, <1>2, <1>6, PhoneAside DEF phoneVars
<1>8. StatusInv' BY <1>1, <1>2, <1>3, <1>4, <1>5, ReceiptsOnly DEF Say, phoneVars
<1>9. VerdictInv'
  <2>1. j \notin refused BY <1>1, <1>2 DEF VerdictInv, RejectionCodes, PermanentErrors
  <2>2. UNCHANGED <<refused, verdict, ready>> BY <1>2 DEF phoneVars, deliveryVars
  <2> QED BY <1>1, <1>4, <2>1, <2>2 DEF VerdictInv
<1>10. ClaimInv' BY <1>1, <1>2, ClaimAside DEF phoneVars, deliveryVars
<1> QED BY <1>6, <1>7, <1>8, <1>9, <1>10 DEF DeliveryInv

LEMMA CompleteAll == ASSUME DeliveryInv, NEW j \in Jobs, Complete(j) PROVE DeliveryInv'
<1>1. /\ CoursesInv /\ PhoneInv /\ ChoiceInv /\ StatusInv /\ VerdictInv /\ ClaimInv
      /\ answer \in Codes /\ box \in [Jobs -> Bundle]
  BY DEF DeliveryInv, CoursesInv, CoursesTyped, PhoneInv, PhoneTyped
<1>2. /\ verdict[j] = "accepted" /\ receipt[j] = "completed"
      /\ UNCHANGED <<serviceVars, statusVars, deliveryVars, refused>>
      /\ UNCHANGED <<stage, pick, lane, offered>>
      /\ box' = [box EXCEPT ![j].at = "gone"]
  BY DEF Complete
<1>3. \A k \in Jobs \ {j}: box'[k] = box[k] BY <1>1, <1>2
<1>4. box'[j].at = "gone" BY <1>1, <1>2 DEF Bundle
<1>5. CoursesInv' /\ KeptStays BY <1>1, <1>2, CoursesStay DEF serviceVars
<1>6. PhoneInv' BY <1>1, CompleteKeeps
<1>7. ChoiceInv'
  <2>1. catalog' = catalog BY <1>2 DEF serviceVars
  <2>2. IdsOf(catalog)' \subseteq Kept' BY <1>1, <1>5, <2>1, CatalogIsKept
  <2> QED BY <1>1, <1>2, <1>3, <1>4, <1>5, <2>2, ChoiceStays
<1>8. StatusInv'
  <2>1. \A k \in Jobs: box'[k] = box[k] \/ receipt[k] # "none" BY <1>2, <1>3
  <2> QED BY <1>1, <1>2, <2>1, StatusAside
<1>9. VerdictInv' BY <1>1, <1>2, VerdictAside DEF deliveryVars, statusVars
<1>10. \A k \in Jobs: Published(k) /\ verdict[k] = "none" => box'[k] = box[k] BY <1>2, <1>3
<1>11. ClaimInv' BY <1>1, <1>2, <1>10, ClaimAside DEF serviceVars, deliveryVars
<1> QED BY <1>5, <1>6, <1>7, <1>8, <1>9, <1>11 DEF DeliveryInv

\* A look at a lane, and at the receipts.
LEMMA ListKeeps == ASSUME StatusInv, PhoneInv, NEW missed, List(missed), box' = box PROVE StatusInv'
<1>1. /\ receipt' = receipt /\ tally' = tally /\ unread' = unread
      /\ owed' \subseteq Jobs /\ listed' \subseteq Jobs
  BY DEF List, StatusInv, In
<1>2. CASE asked = "Inbox"
  <2>1. /\ asked' = "CourseInbox" /\ listed' = listed \cup (In("Inbox") \ missed)
        /\ owed' = (In("Inbox") \cup In("CourseInbox")) \ missed
    BY <1>2 DEF List
  <2>2. \A j \in owed': j \in listed' \/ box'[j].at = "CourseInbox" BY <2>1 DEF In
  <2> QED BY <1>1, <2>1, <2>2 DEF StatusInv, Lanes
<1>3. CASE asked = "CourseInbox"
  <2>1. /\ asked' = "receipts" /\ listed' = listed \cup (In("CourseInbox") \ missed)
        /\ owed' = owed \ missed
    BY <1>3 DEF List
  <2>2. \A j \in owed': j \in listed' \/ receipt'[j] # "none"
    BY <1>1, <1>3, <2>1 DEF StatusInv, In
  <2> QED BY <1>1, <2>1, <2>2 DEF StatusInv
<1> QED BY <1>2, <1>3 DEF List, Lanes

LEMMA ReadReceiptsKeeps ==
  ASSUME StatusInv, NEW bad \in SUBSET Jobs, ReadReceipts(bad)
  PROVE  StatusInv'
<1>1. /\ asked = "receipts" /\ asked' = "shown" /\ unread' = bad
      /\ tally' = [j \in Jobs |-> CountedAs(j, bad)] /\ UNCHANGED <<receipt, owed, listed>>
  BY DEF ReadReceipts
<1>2. \A j \in Jobs: CountedAs(j, bad) \in Receipts \cup {"none", "queued"}
  BY DEF CountedAs, StatusInv
<1>3. ASSUME NEW j \in owed PROVE tally'[j] # "none" \/ j \in unread'
  <2>1. j \in Jobs /\ (j \in listed \/ receipt[j] # "none") BY <1>1 DEF StatusInv
  <2> QED BY <1>1, <2>1 DEF CountedAs
<1> QED BY <1>1, <1>2, <1>3 DEF StatusInv

LEMMA AskStatusKeeps == ASSUME DeliveryInv, AskStatus PROVE DeliveryInv'
<1>1. /\ CoursesInv /\ PhoneInv /\ ChoiceInv /\ StatusInv /\ VerdictInv /\ ClaimInv
      /\ answer \in Codes
  BY DEF DeliveryInv, CoursesInv, CoursesTyped
<1>2. /\ UNCHANGED <<phoneVars, deliveryVars>>
      /\ UNCHANGED <<rows, note, catalog, issues, op, pc, answer, edited, loose>>
  BY DEF AskStatus
<1>3. CoursesInv' /\ KeptStays BY <1>1, <1>2, CoursesStay
<1>4. PhoneInv' /\ ChoiceInv' BY <1>1, <1>2, <1>3, PhoneAside DEF phoneVars
<1>5. receipt' = receipt BY DEF AskStatus, ShowStatus, StatusFault, List, ReadReceipts
<1>6. StatusInv'
  <2>1. box' = box BY <1>2 DEF phoneVars
  <2>2. ASSUME NEW missed, List(missed) PROVE StatusInv' BY <1>1, <2>1, <2>2, ListKeeps
  <2>3. ASSUME NEW bad \in SUBSET Jobs, ReadReceipts(bad) PROVE StatusInv'
    BY <1>1, <2>3, ReadReceiptsKeeps
  <2>4. CASE asked' = "partial" /\ UNCHANGED <<receipt, owed, listed, tally, unread>>
    BY <1>1, <2>4 DEF StatusInv
  <2> QED BY <2>2, <2>3, <2>4 DEF AskStatus, ShowStatus, StatusFault
<1>7. VerdictInv' BY <1>1, <1>2, <1>5, VerdictAside DEF phoneVars, deliveryVars
<1>8. ClaimInv' BY <1>1, <1>2, ClaimAside DEF phoneVars, deliveryVars
<1> QED BY <1>3, <1>4, <1>6, <1>7, <1>8 DEF DeliveryInv

LEMMA BringCatalogKeeps == ASSUME DeliveryInv, BringCatalog PROVE DeliveryInv'
<1>1. /\ CoursesInv /\ PhoneInv /\ ChoiceInv /\ StatusInv /\ VerdictInv /\ ClaimInv
      /\ answer \in Codes
  BY DEF DeliveryInv, CoursesInv, CoursesTyped
<1>2. /\ offered' = catalog /\ UNCHANGED <<serviceVars, statusVars, deliveryVars, refused>>
      /\ UNCHANGED <<stage, pick, lane, lease, tries, seen, step, cut, told, box, reserved, files>>
  BY DEF BringCatalog
<1>3. CoursesInv' /\ KeptStays BY <1>1, <1>2, CoursesStay DEF serviceVars
<1>4. PhoneInv'
  <2>1. offered' \subseteq Courses \X Names BY <1>1, <1>2 DEF CoursesInv, CoursesTyped
  <2> QED BY <1>1, <1>2, <2>1, PhoneStays
<1>5. ChoiceInv'
  <2>1. Kept' = Kept /\ catalog' = catalog BY <1>2, KeptUnchanged DEF serviceVars
  <2>2. (IdsOf(catalog) \cup IdsOf(offered))' \subseteq Kept'
    BY <1>1, <1>2, <2>1 DEF ChoiceInv, IdsOf
  <2>3. (\A r \in Runs: ChoiceOf(r)') /\ \A j \in Jobs: MeantFor(j)'
    BY <1>1, <1>2, <2>1 DEF ChoiceInv, ChoiceOf, MeantFor
  <2> QED BY <2>2, <2>3 DEF ChoiceInv
<1>6. StatusInv' BY <1>1, <1>2, StatusAside
<1>7. VerdictInv' BY <1>1, <1>2, VerdictAside DEF deliveryVars, statusVars
<1>8. ClaimInv' BY <1>1, <1>2, ClaimAside DEF serviceVars, deliveryVars
<1> QED BY <1>3, <1>4, <1>5, <1>6, <1>7, <1>8 DEF DeliveryInv

LEMMA EditSourceAll == ASSUME DeliveryInv, NEW s \in Sources, EditSource(s) PROVE DeliveryInv'
<1>1. /\ CoursesInv /\ PhoneInv /\ ChoiceInv /\ StatusInv /\ VerdictInv /\ ClaimInv
      /\ answer \in Codes
  BY DEF DeliveryInv, CoursesInv, CoursesTyped
<1>2. /\ UNCHANGED <<rows, note, catalog, issues, op, pc, answer, edited, loose>>
      /\ UNCHANGED <<stage, pick, lane, box, offered, refused, statusVars, deliveryVars>>
  BY DEF EditSource
<1>3. CoursesInv' /\ KeptStays BY <1>1, <1>2, CoursesStay
<1>4. PhoneInv' BY <1>1, EditSourceKeeps
<1>5. ChoiceInv'
  <2>1. IdsOf(catalog)' \subseteq Kept' BY <1>1, <1>2, <1>3, CatalogIsKept
  <2> QED BY <1>1, <1>2, <1>3, <2>1, ChoiceStays
<1>6. StatusInv' BY <1>1, <1>2, StatusAside
<1>7. VerdictInv' BY <1>1, <1>2, VerdictAside DEF deliveryVars, statusVars
<1>8. ClaimInv' BY <1>1, <1>2, ClaimAside DEF deliveryVars
<1> QED BY <1>3, <1>4, <1>5, <1>6, <1>7, <1>8 DEF DeliveryInv

LEMMA PhoneAll == ASSUME DeliveryInv, NEW r \in Runs, Phone(r) PROVE DeliveryInv'
<1>1. /\ CoursesInv /\ PhoneInv /\ ChoiceInv /\ StatusInv /\ VerdictInv /\ ClaimInv
      /\ answer \in Codes
  BY DEF DeliveryInv, CoursesInv, CoursesTyped
<1>2. /\ Choose(r) \/ RunStep(r) \/ RunFault(r)
      /\ UNCHANGED <<rows, note, catalog, issues, op, pc, answer, edited, loose>>
      /\ UNCHANGED <<statusVars, deliveryVars>>
  BY DEF Phone, serviceVars
<1>3. CoursesInv' /\ KeptStays BY <1>1, <1>2, CoursesStay
<1>4. PhoneInv' /\ ChoiceInv' /\ \A j \in Jobs: Published(j) => box'[j] = box[j]
  BY <1>1, <1>2, PhoneKeeps
<1>5. StatusInv'
  <2>1. \A j \in Jobs: box[j].at = "CourseInbox" => box'[j] = box[j]
    BY <1>4 DEF Published, Lanes
  <2> QED BY <1>1, <1>2, <2>1, StatusAside
<1>6. refused' = refused
  <2>1. Choose(r) => refused' = refused BY DEF Choose
  <2>2. RunStep(r) => refused' = refused
    BY DEF RunStep, ReadCatalogAgain, ReadPendingAgain, ReadCatalogLast, LookAtId, Reserve,
           MakeDirectory, Snapshot, CopySource, CheckSource, Manifest, Move, Look, Tidy
  <2>3. RunFault(r) => refused' = refused
    BY DEF RunFault, ReadFails, LeaseThrows, WriteThrows, LookFails, TidyFails, Kill
  <2> QED BY <1>2, <2>1, <2>2, <2>3
<1>7. VerdictInv' BY <1>1, <1>2, <1>6, VerdictAside DEF deliveryVars, statusVars
<1>8. ClaimInv' BY <1>1, <1>2, <1>4, ClaimAside DEF deliveryVars
<1> QED BY <1>3, <1>4, <1>5, <1>7, <1>8 DEF DeliveryInv

LEMMA NothingHappens == ASSUME DeliveryInv, UNCHANGED vars PROVE DeliveryInv'
<1>1. /\ CoursesInv /\ PhoneInv /\ ChoiceInv /\ StatusInv /\ VerdictInv /\ ClaimInv
      /\ answer \in Codes
  BY DEF DeliveryInv, CoursesInv, CoursesTyped
<1>2. /\ UNCHANGED <<rows, note, catalog, issues, op, pc, answer, edited, loose>>
      /\ UNCHANGED <<phoneVars, statusVars, deliveryVars>>
  BY DEF vars, serviceVars
<1>3. CoursesInv' /\ KeptStays BY <1>1, <1>2, CoursesStay
<1>4. PhoneInv' /\ ChoiceInv' BY <1>1, <1>2, <1>3, PhoneAside DEF phoneVars
<1>5. StatusInv' BY <1>1, <1>2, StatusAside DEF phoneVars
<1>6. VerdictInv' BY <1>1, <1>2, VerdictAside DEF phoneVars, statusVars, deliveryVars
<1>7. ClaimInv' BY <1>1, <1>2, ClaimAside DEF phoneVars, deliveryVars
<1> QED BY <1>3, <1>4, <1>5, <1>6, <1>7 DEF DeliveryInv

\* A step of the courses, with a bundle claimed or not.
LEMMA CoursesAll ==
  ASSUME DeliveryInv, Service \/ ByCommand \/ ByUser \/ Crash \/ Open
  PROVE  DeliveryInv'
<1>1. CoursesInv /\ ClaimInv BY DEF DeliveryInv
<1>2. CASE Service
  <2>1. ServiceStep /\ UNCHANGED <<phoneVars, statusVars, claim, verdict, ready>>
    BY <1>2 DEF Service, deliveryVars
  <2>2. CoursesTyped' BY <1>1, <2>1, ServiceKeepsCourses DEF CoursesInv
  <2>3. ClaimInv' BY <1>1, <2>1, <2>2, ServiceKeepsClaim DEF phoneVars
  <2> QED BY <2>1, <2>3, CoursesStep
<1>3. CASE ByCommand
  <2>1. /\ claim' = None
        /\ Command \/ ChooseVault
        /\ UNCHANGED <<phoneVars, statusVars, verdict, ready>>
    BY <1>3 DEF ByCommand, deliveryVars
  <2>2. ClaimInv' BY <2>1 DEF ClaimInv
  <2> QED BY <2>1, <2>2, CoursesStep
<1>4. CASE ByUser
  <2>1. Edit /\ UNCHANGED <<phoneVars, statusVars, claim, verdict, ready>> BY <1>4 DEF ByUser, deliveryVars
  <2>2. ClaimInv' BY <1>1, <2>1, EditKeepsClaim DEF phoneVars
  <2> QED BY <2>1, <2>2, CoursesStep
<1>5. CASE Crash
  <2>1. Stop /\ claim' = None /\ ready' = {} /\ UNCHANGED <<phoneVars, statusVars, verdict>> BY <1>5 DEF Crash
  <2>2. ClaimInv' BY <2>1 DEF ClaimInv
  <2> QED BY <2>1, <2>2, CoursesStep
<1>6. CASE Open
  <2>1. Start /\ UNCHANGED <<phoneVars, statusVars, claim, verdict, ready>> BY <1>6 DEF Open, deliveryVars
  <2>2. claim = None BY <1>1, <2>1 DEF Start, ClaimInv, OfNote
  <2>3. ClaimInv' BY <2>1, <2>2 DEF ClaimInv
  <2> QED BY <2>1, <2>3, CoursesStep
<1> QED BY <1>1, <1>2, <1>3, <1>4, <1>5, <1>6

THEOREM DeliveryStep == DeliveryInv /\ [Next]_vars => DeliveryInv'
<1> SUFFICES ASSUME DeliveryInv, [Next]_vars PROVE DeliveryInv' OBVIOUS
<1>1. ASSUME NEW j \in Jobs, Skip(j) \/ Take(j) \/ Work(j) \/ Complete(j) PROVE DeliveryInv'
  BY <1>1, ListKept, TakeKeeps, WorkKeeps, CompleteAll
<1>2. CASE AskStatus BY <1>2, AskStatusKeeps
<1>3. CASE Scan \/ Judge BY <1>3, ListKept, JudgeKeeps
<1>4. CASE Service \/ ByCommand \/ ByUser \/ Crash \/ Open BY <1>4, CoursesAll
<1>5. CASE BringCatalog BY <1>5, BringCatalogKeeps
<1>6. ASSUME NEW s \in Sources, EditSource(s) PROVE DeliveryInv' BY <1>6, EditSourceAll
<1>7. ASSUME NEW r \in Runs, Phone(r) PROVE DeliveryInv' BY <1>7, PhoneAll
<1>8. CASE UNCHANGED vars BY <1>8, NothingHappens
<1> QED BY <1>1, <1>2, <1>3, <1>4, <1>5, <1>6, <1>7, <1>8 DEF Next

\* Every reachable state satisfies the inductive invariant of courses, phone and poll.
THEOREM DeliveryInvHolds == Spec => []DeliveryInv
<1>1. Init => DeliveryInv BY DeliveryStarts
<1>2. DeliveryInv /\ [Next]_vars => DeliveryInv' BY DeliveryStep
<1> QED BY <1>1, <1>2, PTL DEF Spec

-----------------------------------------------------------------------------
(* What the runs check, for any courses, runs, ids and workloads.           *)

(* While no operation is under way and the program shows no issue, the      *)
(* catalog the phone reads lists exactly the active courses by the names    *)
(* they have in the table (courseService.ts:306-660).                       *)
THEOREM CatalogDoesTellRows == Spec => []CatalogTellsRows
<1>1. DeliveryInv => CatalogTellsRows
  BY DEF DeliveryInv, CoursesInv, CatalogInv, CatalogTellsRows
<1> QED BY <1>1, DeliveryInvHolds, PTL

(* What a run has moved into a lane has its manifest, and the copies in it  *)
(* are the sources of one moment, however many runs of the script share the *)
(* directory and whatever the user edits meanwhile (StudyAssistant.js:      *)
(* 2214-2258).                                                              *)
THEOREM PublishedWhole == Spec => []PublishedIsACut
<1>1. DeliveryInv => PublishedIsACut
  BY DEF DeliveryInv, PhoneInv, LaneOf, PublishedIsACut
<1> QED BY <1>1, DeliveryInvHolds, PTL

(* What the script shows of a bundle and of the lectures under way is so,   *)
(* and a refusal is written in the receipt before it takes effect           *)
(* (StudyAssistant.js:1327-1391, 2259-2289; jobRunner.ts:557-578).          *)
THEOREM TruthIsTold == Spec => []TellsTruth
<1>1. ASSUME DeliveryInv PROVE TellsTruth
  <2>1. \A r \in Runs: ToldOf(r) BY <1>1 DEF DeliveryInv, PhoneInv, RunInv
  <2>2. \A r \in Runs:
          /\ told[r] = "queued" => box[lease[r]].at \in Lanes \cup {"gone"}
          /\ told[r] = "failed" /\ lease[r] # None => ~Published(lease[r])
    BY <2>1 DEF ToldOf
  <2>3. asked = "shown" => \A j \in owed: tally[j] # "none" \/ j \in unread
    BY <1>1 DEF DeliveryInv, StatusInv
  <2>4. \A j \in refused: receipt[j] = "failed" BY <1>1 DEF DeliveryInv, VerdictInv
  <2> QED BY <2>2, <2>3, <2>4 DEF TellsTruth
<1> QED BY <1>1, DeliveryInvHolds, PTL

(* A bundle is refused for good only where its course is archived, where a  *)
(* course it would make finds its folder another's, or where another bundle *)
(* of the same course and sources has become a job; neither a passing       *)
(* failure nor what an earlier try left refuses it (jobRunner.ts:258-331).  *)
THEOREM RefusalsAreDeserved == Spec => RefusalsAreEarned
<1> DEFINE Deserved ==
      \A j \in Jobs: verdict[j] = "none" /\ verdict'[j] \notin {"none", "accepted"} =>
        Earned(j, verdict'[j])
<1>1. ASSUME DeliveryInv, [Next]_vars PROVE Deserved
  <2>1. CoursesInv /\ ClaimInv /\ verdict \in [Jobs -> {"none", "accepted"} \cup RejectionCodes]
    BY <1>1 DEF DeliveryInv, VerdictInv
  <2>2. CASE verdict' = verdict BY <2>2
  <2>3. CASE Judge /\ verdict' # verdict
    <3>1. /\ pc = "idle" /\ claim # None /\ claim \in Jobs /\ verdict[claim] = "none"
          /\ verdict' = [verdict EXCEPT ![claim] = Judgement(claim)]
      BY <2>1, <2>3 DEF Judge, ClaimInv
    <3>2. verdict'[claim] = Judgement(claim) /\ \A j \in Jobs \ {claim}: verdict'[j] = verdict[j]
      BY <2>1, <3>1
    <3>3. ASSUME Judgement(claim) = "COURSE_NOT_FOUND"
          PROVE  Earned(claim, Judgement(claim))
      BY <2>1, <3>1, <3>3, JudgementIs DEF Earned
    <3>4. ASSUME Judgement(claim) = "DUPLICATE_JOB"
          PROVE  Earned(claim, Judgement(claim))
      <4>1. PICK k \in Jobs: /\ verdict[k] = "accepted" /\ box[k].course = box[claim].course
                             /\ box[k].copies = box[claim].copies
        BY <2>1, <3>1, <3>4, JudgementIs DEF Twins
      <4>2. k \in Jobs \ {claim} BY <3>1, <4>1
      <4>3. Earned(claim, "DUPLICATE_JOB") BY <4>1, <4>2 DEF Earned
      <4> QED BY <3>4, <4>3
    <3>5. ASSUME Judgement(claim) \notin {"none", "accepted", "COURSE_NOT_FOUND", "DUPLICATE_JOB"}
          PROVE  Earned(claim, Judgement(claim))
      <4>1. answer = "DUPLICATE_COURSE" /\ Judgement(claim) = answer BY <2>1, <3>1, <3>5, JudgementIs
      <4>2. /\ box[claim].course \notin Known
            /\ \/ InFolder(FolderOf[box[claim].name]) # {}
               \/ FolderOf[box[claim].name] \in edited
               \/ Unreadable(FolderOf[box[claim].name], box[claim].course)
        BY <2>1, <3>1, <4>1 DEF ClaimInv
      <4>3. Earned(claim, "DUPLICATE_COURSE") BY <4>2 DEF Earned
      <4> QED BY <4>1, <4>3
    <3>6. Judgement(claim) \notin {"none", "accepted"} => Earned(claim, Judgement(claim))
      BY <3>3, <3>4, <3>5
    <3> QED BY <3>2, <3>6
  <2>4. Judge \/ verdict' = verdict
    BY <1>1 DEF Next, Scan, Skip, Take, Work, Complete, AskStatus, Service, ByCommand, ByUser, Crash,
                Open, BringCatalog, EditSource, Phone, deliveryVars, vars
  <2> QED BY <2>2, <2>3, <2>4
<1>2. DeliveryInv /\ [Next]_vars => [Deserved]_vars
  <2>1. ASSUME DeliveryInv, [Next]_vars PROVE [Deserved]_vars
    <3>1. Deserved BY <1>1, <2>1
    <3> HIDE DEF Deserved
    <3> QED BY <3>1
  <2> QED BY <2>1
<1> QED BY <1>2, DeliveryInvHolds, PTL DEF Spec, RefusalsAreEarned

\* Every variable of the phone, the courses and the poll keeps to its values.
THEOREM TypesHold == Spec => []TypeOK
<1>1. ASSUME DeliveryInv PROVE TypeOK
  <2>1. CoursesTyped /\ PhoneTyped /\ StatusInv /\ VerdictInv
    BY <1>1 DEF DeliveryInv, CoursesInv, PhoneInv
  <2>2. claim \in Jobs \cup {None} BY <1>1 DEF DeliveryInv, ClaimInv
  <2>3. DOMAIN note = Folders BY <2>1 DEF CoursesTyped
  <2>4. pc \in {"off", "idle", "note", "write", "undo", "index", "writeIndex", "publish", "rebuild",
               "rebuildAgain"}
    BY <2>1 DEF CoursesTyped, Places
  <2>5. owed \cup listed \cup unread \subseteq Jobs BY <2>1 DEF StatusInv
  <2> QED BY <2>1, <2>2, <2>3, <2>4, <2>5
          DEF TypeOK, CoursesTyped, Row, PhoneTyped, StatusInv, VerdictInv
<1> QED BY <1>1, DeliveryInvHolds, PTL
=============================================================================
