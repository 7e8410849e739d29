--------------------------- MODULE CourseDelivery ---------------------------
(***************************************************************************)
(* The phone and the courses of the PC put together: the catalog goes to the *)
(* phone through iCloud, bundles for known and for new courses come back,    *)
(* and a poll of the job runner (application/jobs/jobRunner.ts) claims them, *)
(* has new courses provisioned and makes a job of a bundle or refuses it.    *)
(* What becomes of a job afterwards is JobRunner's.                         *)
(***************************************************************************)
EXTENDS PhoneStatus

CONSTANTS
  Place,                  \* [Jobs -> Nat]: where a bundle comes in the listing of its lane
  MaxReadyJobsPerPoll,    \* MAX_READY_JOBS_PER_POLL, 5
  Workloads               \* the initial states: what runs, and the bounds

VARIABLES
  ready,        \* what is left of the list that pollOnce works off
  claim,        \* the bundle it is at
  verdict       \* job id -> "none", "accepted" or the code of its rejection

deliveryVars == <<ready, claim, verdict>>
vars == <<serviceVars, phoneVars, statusVars, deliveryVars>>

Init ==
  /\ ServiceInit
  /\ ready = {} /\ claim = None /\ verdict = [j \in Jobs |-> "none"]
  /\ \E w \in Workloads:
       PhoneInit(w.runs) /\ StatusInit(w.looks) /\ edits = w.edits /\ faults = w.faults /\ commands = w.commands

-----------------------------------------------------------------------------
(* pollOnce: the list of the first ready bundles, and one of them after the *)
(* other.                                                                   *)

\* scanReady looks through CourseInbox before Inbox, and passes over what was refused.
Listed == {j \in Jobs: Published(j) /\ j \notin refused}
Before(k, j) ==
  \/ box[k].at = "CourseInbox" /\ box[j].at = "Inbox"
  \/ box[k].at = box[j].at /\ Place[k] < Place[j]
Foremost(js, n) == {j \in js: Cardinality({k \in js: Before(k, j)}) < n}

\* Some bundles may not be whole, or not readable, just now.
Scan ==
  /\ pc = "idle" /\ claim = None /\ ready = {}
  /\ \E some \in SUBSET Listed:
       /\ (some = Listed /\ NoFault) \/ (some # Listed /\ Fault)
       /\ ready' = Foremost(some, MaxReadyJobsPerPoll)
  /\ UNCHANGED <<rows, note, index, catalog, issues, op, pc, answer, edited, loose, edits, commands>>
  /\ UNCHANGED <<phoneVars, statusVars, claim, verdict>>

ItsTurn(j) == pc = "idle" /\ claim = None /\ j \in Foremost(ready, 1) /\ ready' = ready \ {j}

\* A bundle whose job is there already, or that is gone, takes its place in the list.
Skip(j) ==
  /\ ItsTurn(j)
  /\ verdict[j] # "none" \/ ~Published(j)
  /\ UNCHANGED <<serviceVars, phoneVars, statusVars, claim, verdict>>

Take(j) ==
  /\ ItsTurn(j)
  /\ Published(j) /\ verdict[j] = "none"
  /\ claim' = j
  /\ IF box[j].at = "CourseInbox" THEN Provision(box[j].course, box[j].name)
     ELSE NoFault /\ Refuse("ok")
  /\ UNCHANGED <<phoneVars, statusVars, verdict, commands>>

\* A slip: a folder that is another's may become free.
PermanentErrorsSlip == {"INVALID_COURSE", "COURSE_NOT_FOUND"}

PermanentErrors == {"INVALID_COURSE", "DUPLICATE_COURSE", "COURSE_NOT_FOUND"}

\* Every code a claim may be refused for good with.
RejectionCodes == PermanentErrors \cup {"DUPLICATE_JOB"}

\* A slip: the course is not compared.
TwinsSlip(j) == {k \in Jobs: verdict[k] = "accepted" /\ box[k].copies = box[j].copies}

\* findByFingerprint: the jobs of the same course with the same sources.  A row
\* stays when its job is completed and the bundle is gone.
Twins(j) ==
  {k \in Jobs: verdict[k] = "accepted" /\ box[k].course = box[j].course /\ box[k].copies = box[j].copies}

\* What the runner makes of the claim; "none" leaves it to a later poll.
Judgement(j) ==
  CASE answer # "ok" -> IF answer \in PermanentErrors THEN answer ELSE "none"
    [] answer = "ok" /\ rows[box[j].course].state # "active" -> "COURSE_NOT_FOUND"
    [] answer = "ok" /\ rows[box[j].course].state = "active" ->
         IF Twins(j) # {} THEN "DUPLICATE_JOB" ELSE "accepted"

\* A failure is told in the receipt, and only then is the bundle rejected.  Each
\* write, the insert or the cleanup before them may fail.
Judge ==
  /\ pc = "idle" /\ claim # None
  /\ LET j == claim
         failed == [receipt EXCEPT ![j] = IF Judgement(j) = "accepted" THEN @ ELSE "failed"] IN
     \/ /\ NoFault
        /\ verdict' = [verdict EXCEPT ![j] = Judgement(j)]
        /\ refused' = IF Judgement(j) \in RejectionCodes THEN refused \cup {j} ELSE refused
        /\ receipt' = failed
     \/ Fault /\ receipt' \in {receipt, failed} /\ UNCHANGED <<verdict, refused>>
  /\ claim' = None
  /\ UNCHANGED <<rows, note, index, catalog, issues, op, pc, answer, edited, loose, edits, commands>>
  /\ UNCHANGED <<stage, pick, lane, lease, tries, seen, step, cut, told, box, reserved, files, offered>>
  /\ UNCHANGED <<asked, owed, listed, tally, unread, ready>>

\* The runner works on a job and says so; it is done when its receipt is written.
Work(j) ==
  /\ verdict[j] = "accepted" /\ Published(j) /\ pc # "off"
  /\ \/ receipt[j] \in {"none", "failed"} /\ Say(j, "processing") /\ NoFault
     \/ receipt[j] = "processing" /\ Say(j, "completed") /\ NoFault
     \/ receipt[j] \in {"processing", "completed"} /\ Say(j, "failed") /\ Fault
  /\ UNCHANGED <<rows, note, index, catalog, issues, op, pc, answer, edited, loose, edits, commands>>
  /\ UNCHANGED <<phoneVars, deliveryVars>>

\* The job is completed and its bundle removed.
Complete(j) ==
  /\ verdict[j] = "accepted" /\ Published(j) /\ receipt[j] = "completed"
  /\ box' = [box EXCEPT ![j].at = "gone"]
  /\ UNCHANGED <<serviceVars, statusVars, deliveryVars>>
  /\ UNCHANGED <<stage, pick, lane, lease, tries, seen, step, cut, told, reserved, files, offered, refused>>

-----------------------------------------------------------------------------
(* iCloud brings the catalog; the user edits a source.                      *)

BringCatalog ==
  /\ offered # catalog /\ offered' = catalog
  /\ UNCHANGED <<serviceVars, statusVars, deliveryVars>>
  /\ UNCHANGED <<stage, pick, lane, lease, tries, seen, step, cut, told, box, reserved, files, refused>>

EditSource(s) ==
  /\ \E r \in Runs: stage[r] \in {"snapshot", "copy", "check", "manifest", "move"}
  /\ edits > 0 /\ edits' = edits - 1
  /\ files' = [files EXCEPT ![s] = @ + 1]
  /\ UNCHANGED <<rows, note, index, catalog, issues, op, pc, answer, edited, loose, faults, commands>>
  /\ UNCHANGED <<stage, pick, lane, lease, tries, seen, step, cut, told, box, reserved, offered, refused>>
  /\ UNCHANGED <<statusVars, deliveryVars>>

Service == ServiceStep /\ UNCHANGED <<phoneVars, statusVars, deliveryVars>>

\* The program's own queue lets the user's commands in between two polls.
ByCommand ==
  /\ claim = None /\ ready = {}
  /\ Command \/ ChooseVault
  /\ UNCHANGED <<phoneVars, statusVars, deliveryVars>>

ByUser == Edit /\ UNCHANGED <<phoneVars, statusVars, deliveryVars>>

Crash == Stop /\ ready' = {} /\ claim' = None /\ UNCHANGED <<phoneVars, statusVars, verdict, commands>>

Open == Start /\ UNCHANGED <<phoneVars, statusVars, deliveryVars>>

Phone(r) ==
  \/ /\ Choose(r) \/ RunStep(r)
     /\ UNCHANGED <<serviceVars, statusVars, deliveryVars>>
  \/ /\ RunFault(r) /\ Fault
     /\ UNCHANGED <<rows, note, index, catalog, issues, op, pc, answer, edited, loose, edits, commands>>
     /\ UNCHANGED <<statusVars, deliveryVars>>

AskStatus ==
  /\ (ShowStatus /\ NoFault) \/ (StatusFault /\ Fault)
  /\ UNCHANGED <<rows, note, index, catalog, issues, op, pc, answer, edited, loose, edits, commands>>
  /\ UNCHANGED <<phoneVars, deliveryVars>>

Next ==
  \/ \E j \in Jobs: Skip(j) \/ Take(j) \/ Work(j) \/ Complete(j)
  \/ Scan \/ AskStatus \/ Judge \/ Service \/ ByCommand \/ ByUser \/ Crash \/ Open \/ BringCatalog
  \/ \E s \in Sources: EditSource(s)
  \/ \E r \in Runs: Phone(r)

(* The timer is set again after every poll, a poll works its list off, and  *)
(* the program is opened again.  Nothing says that a list comes to every    *)
(* bundle; and the phone, its user and the jobs owe nothing.                *)
Spec ==
  /\ Init /\ [][Next]_vars
  /\ WF_vars(Service) /\ WF_vars(Judge) /\ WF_vars(Open)
  /\ WF_vars(Scan) /\ WF_vars(\E j \in Jobs: Skip(j) \/ Take(j))

-----------------------------------------------------------------------------

TypeOK ==
  /\ rows \in [Courses -> [state: {"none", "active", "archived"}, name: Names \cup {None},
                          folder: Folders \cup {None}, rev: Nat]]
  /\ DOMAIN note = Folders
  /\ catalog \subseteq Courses \X Names /\ offered \subseteq Courses \X Names
  /\ issues \subseteq {"course-note", "indexes"} \X (Courses \cup {None})
  /\ pc \in {"off", "idle", "note", "write", "undo", "index", "writeIndex", "publish", "rebuild",
             "rebuildAgain"}
  /\ lease \in [Runs -> Jobs \cup {None}] /\ tries \in [Runs -> 0..MaxTries]
  /\ step \in [Runs -> Sources] /\ lane \in [Runs -> Lanes]
  /\ told \in [Runs -> {"nothing", "queued", "failed", "unsure", "stale"}]
  /\ reserved \subseteq Jobs /\ refused \subseteq Jobs
  /\ receipt \in [Jobs -> Receipts \cup {"none"}]
  /\ tally \in [Jobs -> Receipts \cup {"none", "queued"}]
  /\ asked \in Lanes \cup {"off", "receipts", "shown", "partial"}
  /\ owed \cup listed \cup unread \subseteq Jobs
  /\ ready \subseteq Jobs /\ claim \in Jobs \cup {None}
  /\ verdict \in [Jobs -> {"none", "accepted"} \cup RejectionCodes]

(* With nothing under way and no issue shown, the catalog lists the active  *)
(* courses by their current names, whatever failed before, unless an undo   *)
(* failed or a course came back after the catalog was written (courseService*)
(* .ts:306-660, foundationApplication.ts:86-110).                           *)
CatalogTellsRows == pc = "idle" /\ issues = {} /\ ~loose => catalog = Active

(* A bundle is refused for good only for what stands against it: its course *)
(* is archived, its folder is another's, or another bundle of the same      *)
(* course and the same sources has become a job; never for a failure that   *)
(* may pass or for what an earlier try of its own left (jobRunner.ts:258-   *)
(* 331, courseService.ts:323-371).                                          *)
Earned(j, code) ==
  LET c == box[j].course
      f == FolderOf[box[j].name] IN
  CASE code = "COURSE_NOT_FOUND" -> rows[c].state = "archived"
    [] code = "DUPLICATE_JOB" ->
         \E k \in Jobs \ {j}: /\ verdict[k] = "accepted"
                              /\ box[k].course = c /\ box[k].copies = box[j].copies
    [] OTHER -> /\ c \notin Known
                /\ InFolder(f) # {} \/ f \in edited \/ Unreadable(f, c)
RefusalsAreEarned ==
  [][\A j \in Jobs: verdict[j] = "none" /\ verdict'[j] \notin {"none", "accepted"} =>
       Earned(j, verdict'[j])]_vars

(* "Queued" is shown only of a bundle that is in its lane, or was; a failure *)
(* only of one that is not, unless the lane could not be read (StudyAssistant*)
(* .js:2259-2289).  The status shown counts every lecture that was in a lane *)
(* when its run began, whatever the PC did with it meanwhile, or tells that a*)
(* receipt could not be read (1327-1391); and a refused lecture's receipt   *)
(* says so before the refusal hides its bundle (jobRunner.ts:557-578).      *)
TellsTruth ==
  /\ \A r \in Runs:
       /\ told[r] = "queued" => box[lease[r]].at \in Lanes \cup {"gone"}
       /\ told[r] = "failed" /\ lease[r] # None => ~Published(lease[r])
  /\ asked = "shown" => \A j \in owed: tally[j] # "none" \/ j \in unread
  /\ \A j \in refused: receipt[j] = "failed"

(* A bundle in a lane is whole, and its copies are the sources as they were *)
(* all at one moment, whatever the user edited meanwhile (StudyAssistant.js: *)
(* 2214-2258).                                                              *)
PublishedIsACut ==
  \A j \in Jobs: Published(j) =>
    box[j].manifest /\ \E r \in Runs: lease[r] = j /\ box[j].copies = cut[r]

(* Every bundle in a lane becomes a job or is refused, unless again and     *)
(* again the user keeps a note or the main note such that the program may   *)
(* not write it (courseService.ts:346-352, 553-561), or the list of a poll  *)
(* is full of bundles before it that stay: of unfinished jobs, or kept from *)
(* theirs by such notes (jobRunner.ts:246).  Those behind are starved, which *)
(* the code allows.                                                         *)
Obstructed(j) ==
  LET c == box[j].course IN
  index = Broken \/ (c \in Known /\ Unreadable(rows[c].folder, c))
Stays(j) == Published(j) /\ (verdict[j] = "accepted" \/ (verdict[j] = "none" /\ Obstructed(j)))
Crowded(j) == Cardinality({k \in Jobs: Stays(k) /\ Before(k, j)}) >= MaxReadyJobsPerPoll
DeliveriesSettle ==
  \A j \in Jobs: []<>(Obstructed(j) \/ Crowded(j)) \/ (Published(j) ~> verdict[j] # "none")
=============================================================================
