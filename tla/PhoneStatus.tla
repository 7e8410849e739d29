----------------------------- MODULE PhoneStatus -----------------------------
(***************************************************************************)
(* The script's other action, status: it lists the bundles that wait in the *)
(* two lanes, then reads what the PC says of each job in Status/, and tells *)
(* how many lectures wait, are worked on, are done and have failed.  The PC *)
(* writes receipts and takes bundles away in between.                       *)
(***************************************************************************)
EXTENDS PhoneQueue

VARIABLES
  receipt,      \* job id -> Status/<id>.json
  asked,        \* where the status run is
  owed,         \* lectures in a lane when it began, whose bundles iCloud had ready
  listed,       \* readyIds
  tally,        \* job id -> what it is counted as
  unread        \* unreadableStatusFiles

statusVars == <<receipt, asked, owed, listed, tally, unread>>

Receipts == {"processing", "failed", "completed"}

StatusInit(looks) ==
  /\ receipt = [j \in Jobs |-> "none"]
  /\ asked = IF looks THEN "Inbox" ELSE "off"
  /\ owed = {} /\ listed = {} /\ unread = {}
  /\ tally = [j \in Jobs |-> "none"]

In(l) == {j \in Jobs: box[j].at = l}

\* observedReadyIds: the bundles of a lane that can be observed; `missed` ones cannot.
List(missed) ==
  /\ asked \in Lanes
  /\ listed' = listed \cup (In(asked) \ missed)
  /\ owed' = (IF asked = "Inbox" THEN In("Inbox") \cup In("CourseInbox") ELSE owed) \ missed
  /\ asked' = IF asked = "Inbox" THEN "CourseInbox" ELSE "receipts"
  /\ UNCHANGED <<receipt, tally, unread>>

\* A slip: only what waits in a lane is counted.
CountedAsSlip(j, bad) ==
  IF j \notin listed THEN "none"
  ELSE IF receipt[j] # "none" /\ j \notin bad THEN receipt[j] ELSE "queued"

\* A receipt, where one can be read, says more than the bundle in its lane.
CountedAs(j, bad) ==
  IF receipt[j] # "none" /\ j \notin bad THEN receipt[j]
  ELSE IF j \in listed THEN "queued" ELSE "none"

ReadReceipts(bad) ==
  /\ asked = "receipts" /\ asked' = "shown"
  /\ tally' = [j \in Jobs |-> CountedAs(j, bad)]
  /\ unread' = bad
  /\ UNCHANGED <<receipt, owed, listed>>

ShowStatus == List({}) \/ ReadReceipts({})

\* iCloud does not have a manifest ready, or a receipt; or the whole run fails.
StatusFault ==
  \/ \E j \in Jobs: asked \in Lanes /\ box[j].at = asked /\ List({j})
  \/ \E j \in Jobs: receipt[j] # "none" /\ ReadReceipts({j})
  \/ /\ asked \in Lanes \cup {"receipts"} /\ asked' = "partial"
     /\ UNCHANGED <<receipt, owed, listed, tally, unread>>

\* The PC's side of it: writeReceipt.
Say(j, status) ==
  /\ receipt' = [receipt EXCEPT ![j] = status]
  /\ UNCHANGED <<asked, owed, listed, tally, unread>>
=============================================================================
