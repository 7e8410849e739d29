----------------------------- MODULE PhoneQueue -----------------------------
(***************************************************************************)
(* The script on the phone (mobile/scriptable/StudyAssistant.js): how one   *)
(* run of it chooses a course from the catalog and the bundles still waiting *)
(* in CourseInbox, leases a job id, copies the sources into a hidden        *)
(* directory and moves that into a lane.                                    *)
(*                                                                         *)
(* Several runs may be under way (share sheet, shortcuts).  A step is one   *)
(* look at, or one change of, the queue's directory; the other runs, the    *)
(* user's editing of the sources and the PC's part of the queue come between.*)
(***************************************************************************)
EXTENDS CourseService

CONSTANTS
  Runs,           \* invocations of the script with the action enqueue
  Jobs,           \* what UUID.string() may give
  Count,          \* the sources shared are 1..Count
  MaxTries        \* 3 ids are tried

Sources == 1..Count
Lanes == {"Inbox", "CourseInbox"}

ASSUME PhoneAssumption == Count \in Nat \ {0} /\ MaxTries \in Nat \ {0} /\ None \notin Jobs \cup Runs

VARIABLES
  stage,          \* where a run is
  pick,           \* the course it was told to use
  lane, lease,    \* directoryName and the leased job id
  tries,          \* candidates looked at
  seen,           \* sources: the version of each source in its snapshot
  step,           \* the source a loop is at
  cut,            \* the sources as they were when the last loop began
  told,           \* what the script showed
  box,            \* job id -> the directory in a lane, or hidden, or none
  reserved,       \* Rejected/.reservation-<id>
  files,          \* the sources on the phone: their versions
  offered,        \* the catalog as iCloud last brought it to the phone
  refused         \* Rejected/<id>.json

phoneVars == <<stage, pick, lane, lease, tries, seen, step, cut, told, box, reserved, files,
               offered, refused>>

NoBundle == [at |-> "none", copies |-> [s \in Sources |-> 0], course |-> None, name |-> None,
             manifest |-> FALSE]
NoPick == [id |-> None, name |-> None, kind |-> "none"]

\* The runs that will be made, the rest never happen.
PhoneInit(made) ==
  /\ stage = [r \in Runs |-> IF r \in made THEN "off" ELSE "done"] /\ pick = [r \in Runs |-> NoPick]
  /\ lane = [r \in Runs |-> "Inbox"] /\ lease = [r \in Runs |-> None]
  /\ tries = [r \in Runs |-> 0] /\ step = [r \in Runs |-> 1]
  /\ seen = [r \in Runs |-> [s \in Sources |-> 0]]
  /\ cut = [r \in Runs |-> [s \in Sources |-> 0]]
  /\ told = [r \in Runs |-> "nothing"]
  /\ box = [j \in Jobs |-> NoBundle] /\ reserved = {}
  /\ files = [s \in Sources |-> 1]
  /\ offered = {} /\ refused = {}

To(r, s) == stage' = [stage EXCEPT ![r] = s]
Tell(r, what) == To(r, "done") /\ told' = [told EXCEPT ![r] = what]

IdsOf(list) == {course[1]: course \in list}

\* readCatalog: the list as a whole, or the run fails.
CatalogIds == IdsOf(offered)
Canonical(r) == pick[r].id \in CatalogIds

-----------------------------------------------------------------------------
(* The choice of the course.                                                *)

(* discoverPendingCourses: what the bundles of CourseInbox ask for.  One    *)
(* that is not whole, or that iCloud does not have ready, is passed over;   *)
(* so is one that the PC has refused.                                       *)
Whole(j) == box[j].at = "CourseInbox" /\ box[j].manifest /\ \A s \in Sources: box[j].copies[s] # 0
Rejected(j) == j \in refused
Observable == {j \in Jobs: Whole(j) /\ ~Rejected(j)}
Definitions(js) == {<<box[j].course, box[j].name>>: j \in js}
Agreed(defs) == {d \in defs: \A e \in defs: e[1] = d[1] => e = d}

\* createCourseSelection: an id that nothing it has seen is named after.
Unused(used) == {c \in Courses \ used: Fresh(c) /\ \A q \in Runs: pick[q].id # c}

\* What the user may choose from, by the catalog and the bundles of CourseInbox.
OfCatalog == {[id |-> c[1], name |-> c[2], kind |-> "catalog"]: c \in offered}
OfPending(defs) ==
  {[id |-> d[1], name |-> d[2], kind |-> "pending"]: d \in {d \in Agreed(defs): d[1] \notin CatalogIds}}
NewlyMade(defs) ==
  [id: NewId(Unused(CatalogIds \cup IdsOf(defs))), name: Names, kind: {"create"}]
Selection(defs) == OfCatalog \cup OfPending(defs) \cup NewlyMade(defs)

\* readCourseState and selectCourse; the user takes any time.
Choose(r) ==
  /\ stage[r] = "off"
  /\ \E js \in SUBSET Observable: \E p \in Selection(Definitions(js)): pick' = [pick EXCEPT ![r] = p]
  /\ To(r, "again")
  /\ UNCHANGED <<lane, lease, tries, seen, step, cut, told, box, reserved, files, offered, refused>>

ToLane(r, l) == To(r, "lease") /\ lane' = [lane EXCEPT ![r] = l] /\ UNCHANGED told

ReadCatalogAgain(r) ==
  /\ stage[r] = "again"
  /\ CASE Canonical(r) -> ToLane(r, "Inbox")
       [] ~Canonical(r) /\ pick[r].kind = "catalog" ->
            Tell(r, "stale") /\ UNCHANGED lane
       [] OTHER -> To(r, "pending") /\ UNCHANGED <<told, lane>>
  /\ UNCHANGED <<pick, lease, tries, seen, step, cut, box, reserved, files, offered, refused>>

ReadPendingAgain(r) ==
  /\ stage[r] = "pending"
  /\ \E js \in SUBSET Observable:
       LET defs == Definitions(js)
           good == IF pick[r].kind = "pending" THEN <<pick[r].id, pick[r].name>> \in Agreed(defs)
                   ELSE pick[r].id \notin IdsOf(defs) IN
       IF good THEN To(r, "final") /\ UNCHANGED told ELSE Tell(r, "stale")
  /\ UNCHANGED <<pick, lane, lease, tries, seen, step, cut, box, reserved, files, offered, refused>>

ReadCatalogLast(r) ==
  /\ stage[r] = "final"
  /\ ToLane(r, IF Canonical(r) THEN "Inbox" ELSE "CourseInbox")
  /\ UNCHANGED <<pick, lease, tries, seen, step, cut, box, reserved, files, offered, refused>>

\* A source, the catalog or CourseInbox cannot be read.
ReadFails(r) ==
  /\ stage[r] \in {"off", "again", "pending", "final"}
  /\ Tell(r, "failed")
  /\ UNCHANGED <<pick, lane, lease, tries, seen, step, cut, box, reserved, files, offered, refused>>

-----------------------------------------------------------------------------
(* leaseQueueJobDirectory: an id nothing is named after, held by a copy of  *)
(* the owner marker that nobody makes twice.                                *)

NextTry(r) ==
  /\ tries' = [tries EXCEPT ![r] = @ + 1]
  /\ lease' = [lease EXCEPT ![r] = None]
  /\ IF tries[r] + 1 < MaxTries THEN To(r, "lease") /\ UNCHANGED told ELSE Tell(r, "failed")

Exists(j) == box[j].at \in Lanes \cup {"hidden"}

LookAtId(r) ==
  /\ stage[r] = "lease"
  /\ \E j \in Jobs:
       IF Exists(j) \/ j \in reserved THEN NextTry(r)
       ELSE To(r, "reserve") /\ lease' = [lease EXCEPT ![r] = j] /\ UNCHANGED <<tries, told>>
  /\ UNCHANGED <<pick, lane, seen, step, cut, box, reserved, files, offered, refused>>

Reserve(r) ==
  /\ stage[r] = "reserve"
  /\ IF lease[r] \in reserved THEN NextTry(r) /\ UNCHANGED reserved
     ELSE /\ reserved' = reserved \cup {lease[r]}
          /\ To(r, "mkdir") /\ UNCHANGED <<tries, lease, told>>
  /\ UNCHANGED <<pick, lane, seen, step, cut, box, files, offered, refused>>

MakeDirectory(r) ==
  /\ stage[r] = "mkdir"
  /\ IF Exists(lease[r]) THEN NextTry(r) /\ UNCHANGED <<box, step>>
     ELSE /\ box' = [box EXCEPT ![lease[r]] = [NoBundle EXCEPT !.at = "hidden"]]
          /\ To(r, "snapshot") /\ step' = [step EXCEPT ![r] = 1]
          /\ UNCHANGED <<tries, lease, told>>
  /\ UNCHANGED <<pick, lane, seen, cut, reserved, files, offered, refused>>

\* The copy of the marker fails, done or not: another id is tried.  A failure of
\* createDirectory ends the run, and what it may have made stays.
LeaseThrows(r) ==
  /\ \/ stage[r] = "reserve" /\ NextTry(r) /\ UNCHANGED box
        /\ reserved' \in {reserved, reserved \cup {lease[r]}}
     \/ stage[r] = "mkdir" /\ Tell(r, "failed") /\ UNCHANGED <<tries, lease, reserved>>
        /\ box' \in {box, IF Exists(lease[r]) THEN box
                          ELSE [box EXCEPT ![lease[r]] = [NoBundle EXCEPT !.at = "hidden"]]}
  /\ UNCHANGED <<pick, lane, seen, step, cut, files, offered, refused>>

-----------------------------------------------------------------------------
(* writeSourceBundle: three loops over the sources, the manifest, the move.  *)

\* A loop's next round, or what follows it.
Advance(r, after) ==
  IF step[r] < Count THEN step' = [step EXCEPT ![r] = @ + 1] /\ UNCHANGED stage
  ELSE step' = [step EXCEPT ![r] = 1] /\ To(r, after)

Snapshot(r) ==
  /\ stage[r] = "snapshot"
  /\ seen' = [seen EXCEPT ![r][step[r]] = files[step[r]]]
  /\ Advance(r, "copy")
  /\ UNCHANGED <<pick, lane, lease, tries, cut, told, box, reserved, files, offered, refused>>

StillMatches(r) == files[step[r]] = seen[r][step[r]]

\* The source is compared before and after: what was copied is what was seen.
CopySource(r) ==
  /\ stage[r] = "copy"
  /\ IF StillMatches(r)
     THEN /\ box' = [box EXCEPT ![lease[r]].copies[step[r]] = files[step[r]]]
          /\ Advance(r, "check")
     ELSE To(r, "catch") /\ UNCHANGED <<box, step>>
  /\ UNCHANGED <<pick, lane, lease, tries, seen, cut, told, reserved, files, offered, refused>>

\* A slip: the sources are not looked at once more.
CheckSourceSlip(r) ==
  /\ stage[r] = "check"
  /\ cut' = [cut EXCEPT ![r] = IF step[r] = 1 THEN files ELSE @]
  /\ Advance(r, "manifest")
  /\ UNCHANGED <<pick, lane, lease, tries, seen, told, box, reserved, files, offered, refused>>

CheckSource(r) ==
  /\ stage[r] = "check"
  /\ cut' = [cut EXCEPT ![r] = IF step[r] = 1 THEN files ELSE @]
  /\ IF StillMatches(r) THEN Advance(r, "manifest") ELSE To(r, "catch") /\ UNCHANGED step
  /\ UNCHANGED <<pick, lane, lease, tries, seen, told, box, reserved, files, offered, refused>>

\* Only a bundle for CourseInbox says how the course is called.
WithManifest(bundle, r) ==
  [bundle EXCEPT !.manifest = TRUE, !.course = pick[r].id,
                 !.name = IF lane[r] = "CourseInbox" THEN pick[r].name ELSE None]

Manifest(r) ==
  /\ stage[r] = "manifest"
  /\ box' = [box EXCEPT ![lease[r]] = WithManifest(@, r)]
  /\ To(r, "move")
  /\ UNCHANGED <<pick, lane, lease, tries, seen, step, cut, told, reserved, files, offered, refused>>

Moved(r) == box' = [box EXCEPT ![lease[r]].at = lane[r]]

Move(r) ==
  /\ stage[r] = "move"
  /\ Moved(r) /\ Tell(r, "queued")
  /\ UNCHANGED <<pick, lane, lease, tries, seen, step, cut, reserved, files, offered, refused>>

\* Any of these calls may throw; the move may have taken place all the same.
WriteThrows(r) ==
  /\ stage[r] \in {"snapshot", "copy", "check", "manifest", "move"}
  /\ To(r, IF stage[r] \in {"manifest", "move"} THEN "look" ELSE "catch")
  /\ UNCHANGED box \/ (stage[r] = "move" /\ Moved(r))
  /\ UNCHANGED <<pick, lane, lease, tries, seen, step, cut, told, reserved, files, offered, refused>>

Published(j) == box[j].at \in Lanes

\* A slip: what a manifest was made for counts as sent.
LookSlip(r) ==
  /\ stage[r] = "look"
  /\ Tell(r, "queued")
  /\ UNCHANGED <<pick, lane, lease, tries, seen, step, cut, box, reserved, files, offered, refused>>

\* With a manifest made, the lane is looked at: a bundle that is there was sent.
Look(r) ==
  /\ stage[r] = "look"
  /\ IF Published(lease[r]) THEN Tell(r, "queued") ELSE To(r, "catch") /\ UNCHANGED told
  /\ UNCHANGED <<pick, lane, lease, tries, seen, step, cut, box, reserved, files, offered, refused>>

\* What cannot be read does not count as sent.
LookFails(r) ==
  /\ stage[r] = "look"
  /\ To(r, "blind")
  /\ UNCHANGED <<pick, lane, lease, tries, seen, step, cut, told, box, reserved, files, offered, refused>>

\* The hidden directory goes; its reservation stays.
Tidy(r) ==
  /\ stage[r] \in {"catch", "blind"}
  /\ Tell(r, IF stage[r] = "blind" THEN "unsure" ELSE "failed")
  /\ box' = [box EXCEPT ![lease[r]] = IF @.at = "hidden" THEN NoBundle ELSE @]
  /\ UNCHANGED <<pick, lane, lease, tries, seen, step, cut, reserved, files, offered, refused>>

TidyFails(r) ==
  /\ stage[r] \in {"catch", "blind"} /\ box[lease[r]].at = "hidden"
  /\ Tell(r, IF stage[r] = "blind" THEN "unsure" ELSE "failed")
  /\ UNCHANGED <<pick, lane, lease, tries, seen, step, cut, box, reserved, files, offered, refused>>

\* iOS ends the script.
Kill(r) ==
  /\ stage[r] \notin {"off", "done"}
  /\ To(r, "done")
  /\ lease' = [lease EXCEPT ![r] = IF stage[r] = "reserve" THEN None ELSE @]
  /\ UNCHANGED <<pick, lane, tries, seen, step, cut, told, box, reserved, files, offered, refused>>

RunStep(r) ==
  \/ ReadCatalogAgain(r) \/ ReadPendingAgain(r) \/ ReadCatalogLast(r)
  \/ LookAtId(r) \/ Reserve(r) \/ MakeDirectory(r)
  \/ Snapshot(r) \/ CopySource(r) \/ CheckSource(r) \/ Manifest(r) \/ Move(r)
  \/ Look(r) \/ Tidy(r)

RunFault(r) == ReadFails(r) \/ LeaseThrows(r) \/ WriteThrows(r) \/ LookFails(r) \/ TidyFails(r) \/ Kill(r)
=============================================================================
