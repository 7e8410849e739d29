----------------------------- MODULE QueueClaim -----------------------------
(***************************************************************************)
(* How the PC takes a bundle out of the iCloud queue and gives it back.    *)
(* The phone may publish one job id in two lanes (Inbox, CourseInbox).     *)
(* The PC claims it with a reservation: one small file known under up to   *)
(* three names,                                                            *)
(*   marker      <inbox of the other lane>/<id>, which keeps that lane shut,*)
(*   anchor      Rejected/.claim-<lane>-<id>.json,                         *)
(*   quarantine  Rejected/.claim-quarantine-<lane>-<id>.json, in passing,  *)
(* copies the sources to staging, and removes bundle and reservation after *)
(* the job completed.  iCloud changes the same directories at any moment,  *)
(* calls fail and the process dies between any two of them.                *)
(*                                                                         *)
(* One job id is modelled: every path the code touches holds the id.       *)
(* The three names are read in one step; only iCloud could step in between,*)
(* and it never touches a reservation file.                                *)
(***************************************************************************)
EXTENDS Naturals

CONSTANTS
  Data,              \* contents of a bundle
  Unsound,           \* the contents that readQueueBundle or the hashes refuse
  Deliveries,        \* the lanes the phone publishes this id in
  MaxStamp,          \* deliveries and changes of bundles
  Entries,           \* entries of a bundle, removed one by one
  Files, NoFile,     \* identities of reservation files (device and inode)
  Disturbances,      \* what may go wrong: "crash", "fault", "change", "withdraw"
  MaxDisturbances

Kinds == {"icloud", "icloud_course"}

Other(k) == IF k = "icloud" THEN "icloud_course" ELSE "icloud"

ASSUME QueueAssumption ==
  /\ Unsound \subseteq Data
  /\ "none" \notin Data
  /\ Deliveries \subseteq Kinds
  /\ MaxStamp \in Nat /\ MaxDisturbances \in Nat
  /\ Entries \in Nat \ {0}
  /\ NoFile \notin Files

\* What snapshotQueueBundle sees; its hash is the claim token.
Bundle == [stamp : 1..MaxStamp, data : Data]
NoBundle == [stamp |-> 0, data |-> "none"]
MaybeBundle == Bundle \cup {NoBundle}

\* What a reservation file holds: nothing until it is written.
Blank == [kind |-> "none", token |-> NoBundle]
Record == [kind : Kinds, token : Bundle]

VARIABLES
  bundle,        \* lane -> the bundle in its inbox
  marker, anchor, quarantine,   \* lane -> the file at that name
  content,       \* file -> what it holds
  cleanup, left, \* lane -> Rejected/.completed-<lane>-<id> and its entries
  staged,        \* what staging/<id> holds
  rejected,      \* is there a Rejected/<id>.json
  receipt,       \* status in Status/<id>.json
  job,           \* the lane the job of this id was claimed from
  owed,          \* the job's row asks for a queue cleanup
  observed,      \* lane -> the bundle #observations remembers
  pc, run,       \* the await that is pending and the locals around it
  stamp, disturbances

names == <<marker, anchor, quarantine, content>>
disk == <<bundle, names, cleanup, left, staged>>
told == <<rejected, receipt, job, owed>>
bounds == <<stamp, disturbances>>
vars == <<disk, told, observed, pc, run, bounds>>

NoRun ==
  [lane |-> "none", tok |-> NoBundle, manifest |-> FALSE, existing |-> FALSE,
   own |-> "none", res |-> NoFile, created |-> FALSE, started |-> FALSE, code |-> "none"]

Init ==
  /\ bundle = [k \in Kinds |-> NoBundle]
  /\ marker = [k \in Kinds |-> NoFile]
  /\ anchor = [k \in Kinds |-> NoFile]
  /\ quarantine = [k \in Kinds |-> NoFile]
  /\ content = [f \in Files |-> Blank]
  /\ cleanup = [k \in Kinds |-> NoBundle]
  /\ left = [k \in Kinds |-> 0]
  /\ staged = "none"
  /\ rejected = FALSE /\ receipt = "none" /\ job = "none" /\ owed = FALSE
  /\ observed = [k \in Kinds |-> NoBundle]
  /\ pc = "idle" /\ run = NoRun
  /\ stamp = 0 /\ disturbances = 0

lane == run.lane

Disturb(what) ==
  /\ what \in Disturbances
  /\ disturbances < MaxDisturbances
  /\ disturbances' = disturbances + 1

-----------------------------------------------------------------------------
(* Reading a reservation.                                                  *)

NamesOf(k) == {marker[k], anchor[k], quarantine[k]} \ {NoFile}

\* Slip: without its marker the reservation is not found.
SeenAtMarker(k) == marker[k]

Seen(k) == IF marker[k] # NoFile THEN marker[k] ELSE anchor[k]

\* A directory in the other lane is at the marker's path and cannot be read.
Unreserved(k) == NamesOf(k) = {} /\ bundle[Other(k)] = NoBundle

Readable(k) ==
  /\ bundle[Other(k)] = NoBundle
  /\ NamesOf(k) = {Seen(k)}
  /\ content[Seen(k)] # Blank

Collision(k) == ~Unreserved(k) /\ ~Readable(k)

\* A quarantine that a commit left behind is moved back to the marker by whoever
\* reads the reservation next.
Recover(k) ==
  /\ marker' = IF quarantine[k] # NoFile THEN [marker EXCEPT ![k] = quarantine[k]] ELSE marker
  /\ quarantine' = [quarantine EXCEPT ![k] = NoFile]
  /\ UNCHANGED <<anchor, content>>

\* The recovery may stop half way; then the read fails.
RecoverFails(k) ==
  /\ NamesOf(k) # {}
  /\ Disturb("fault")
  /\ \/ UNCHANGED names
     \/ /\ Readable(k) /\ quarantine[k] # NoFile
        /\ marker' = [marker EXCEPT ![k] = quarantine[k]]
        /\ UNCHANGED <<anchor, quarantine, content>>

-----------------------------------------------------------------------------
(* A poll: the cleanup that is owed, then a scan.                          *)

Poll ==
  /\ pc = "idle"
  /\ pc' = IF owed THEN "rmRead" ELSE "scan"
  /\ run' = IF owed THEN [NoRun EXCEPT !.lane = job] ELSE NoRun
  /\ UNCHANGED <<disk, told, observed, bounds>>

\* Directory cursors may show one lane without the other, and end anywhere.
ScanNothing ==
  /\ pc = "scan"
  /\ pc' = "idle"
  /\ UNCHANGED <<disk, told, observed, run, bounds>>

\* The id is in both lanes or its reservation does not read: refused for good.
ScanCollision(k) ==
  /\ pc = "scan" /\ bundle[k] # NoBundle
  /\ \/ Collision(k) /\ UNCHANGED <<names, disturbances>>
     \/ RecoverFails(k)
  /\ observed' = [x \in Kinds |-> NoBundle]
  /\ rejected' = TRUE
  /\ pc' = "idle"
  /\ UNCHANGED <<bundle, cleanup, left, staged, receipt, job, owed, run, stamp>>

ScanObserves(k) ==
  /\ pc = "scan" /\ bundle[k] # NoBundle /\ ~Collision(k)
  /\ rejected \/ observed[k] # bundle[k]
  /\ Recover(k)
  /\ observed' = [observed EXCEPT ![k] = IF rejected THEN NoBundle ELSE bundle[k]]
  /\ pc' = "idle"
  /\ UNCHANGED <<bundle, cleanup, left, staged, told, run, bounds>>

\* Unchanged for stabilityMs.  The runner skips an id that has a job, but asks
\* again for the cleanup of a completed one.
ScanReady(k) ==
  /\ pc = "scan" /\ bundle[k] # NoBundle /\ ~Collision(k)
  /\ ~rejected /\ observed[k] = bundle[k]
  /\ Recover(k)
  /\ IF job = "none"
     THEN pc' = "begin" /\ run' = [NoRun EXCEPT !.lane = k] /\ owed' = owed
     ELSE pc' = "idle" /\ run' = NoRun /\ owed' = (owed \/ receipt = "completed")
  /\ UNCHANGED <<bundle, cleanup, left, staged, rejected, receipt, job, observed, bounds>>

-----------------------------------------------------------------------------
(* claim.                                                                  *)

Go(next) == pc' = next /\ run' = run

Fail(why) == pc' = "normalize" /\ run' = [run EXCEPT !.code = why]

\* #assertSignature, in front of most steps: what changed is tried again later,
\* what is gone cannot be read.
Drifted == bundle[lane] # run.tok
Drift == Fail(IF bundle[lane] = NoBundle THEN "invalid" ELSE "unstable")

\* Slip: any reservation of the lane will do.
SameKind == content[Seen(lane)].kind = lane

SameToken == content[Seen(lane)].token = run.tok

Begin ==
  /\ pc = "begin"
  /\ \/ /\ bundle[lane] # NoBundle /\ bundle[lane] # observed[lane]
        /\ pc' = "idle" /\ run' = NoRun
     \/ /\ bundle[lane] = NoBundle
        /\ Fail("invalid")
     \/ /\ bundle[lane] = observed[lane] /\ bundle[lane] # NoBundle
        /\ \E known \in BOOLEAN :
             LET opened == [run EXCEPT !.tok = bundle[lane], !.manifest = known] IN
             IF bundle[lane].data \in Unsound
             THEN pc' = "normalize" /\ run' = [opened EXCEPT !.code = "invalid"]
             ELSE known /\ pc' = "existing" /\ run' = opened
  /\ UNCHANGED <<disk, told, observed, bounds>>

ReadExisting ==
  /\ pc = "existing"
  /\ IF Drifted THEN Drift /\ UNCHANGED names
     ELSE \/ Collision(lane) /\ Fail("invalid") /\ UNCHANGED names
          \/ /\ Unreserved(lane) /\ UNCHANGED names
             /\ Go("stage")
          \/ /\ Readable(lane) /\ Recover(lane)
             /\ IF SameToken THEN pc' = "stage" /\ run' = [run EXCEPT !.existing = TRUE]
                ELSE Fail("invalid")
  /\ UNCHANGED <<bundle, cleanup, left, staged, told, observed, bounds>>

\* stageQueueBundle: what is staged already is taken over only by the owner of a
\* reservation, and only if it holds what the queue holds.
Stage ==
  /\ pc = "stage"
  /\ IF Drifted THEN Drift
     ELSE IF staged = "none" THEN pc' = "copy" /\ run' = [run EXCEPT !.own = "temp"]
     ELSE IF run.existing /\ staged = run.tok.data THEN Go("acquire")
     ELSE Fail("copyFailed")
  /\ UNCHANGED <<disk, told, observed, bounds>>

\* The copy is compared with the hash of what was read before.
Copy ==
  /\ pc = "copy"
  /\ IF bundle[lane].data = run.tok.data THEN Go("acquire") ELSE Fail("copyFailed")
  /\ UNCHANGED <<disk, told, observed, bounds>>

\* The reservation comes before the staged copy gets its final name.
AfterAcquire == IF run.own = "temp" THEN "publish" ELSE "settle"

Acquire ==
  /\ pc = "acquire"
  /\ IF Drifted THEN Drift /\ UNCHANGED names
     ELSE \/ Collision(lane) /\ Fail("invalid") /\ UNCHANGED names
          \/ Unreserved(lane) /\ Go("create") /\ UNCHANGED names
          \/ /\ Readable(lane) /\ Recover(lane)
             /\ IF SameToken THEN pc' = AfterAcquire /\ run' = [run EXCEPT !.res = Seen(lane)]
                ELSE Fail("invalid")
  /\ UNCHANGED <<bundle, cleanup, left, staged, told, observed, bounds>>

InUse == UNION {NamesOf(k) : k \in Kinds}

\* open(path, 'wx'): an empty file, if nothing is at the path.
Create ==
  /\ pc = "create"
  /\ IF bundle[Other(lane)] # NoBundle THEN Fail("invalid") /\ UNCHANGED names
     ELSE \E f \in Files \ InUse :
            /\ marker' = [marker EXCEPT ![lane] = f]
            /\ content' = [content EXCEPT ![f] = Blank]
            /\ UNCHANGED <<anchor, quarantine>>
            /\ pc' = "write" /\ run' = [run EXCEPT !.res = f]
  /\ UNCHANGED <<bundle, cleanup, left, staged, told, observed, bounds>>

Write ==
  /\ pc = "write"
  /\ content' = [content EXCEPT ![run.res] = [kind |-> lane, token |-> run.tok]]
  /\ pc' = AfterAcquire /\ run' = [run EXCEPT !.created = TRUE]
  /\ UNCHANGED <<bundle, marker, anchor, quarantine, cleanup, left, staged>>
  /\ UNCHANGED <<told, observed, bounds>>

\* The file it made is taken away again, if that works.
WriteFails ==
  /\ pc = "write"
  /\ Disturb("fault")
  /\ \/ marker' = [marker EXCEPT ![lane] = NoFile]
     \/ marker' = marker
  /\ pc' = "normalize" /\ run' = [run EXCEPT !.code = "invalid", !.res = NoFile]
  /\ UNCHANGED <<bundle, anchor, quarantine, content, cleanup, left, staged>>
  /\ UNCHANGED <<told, observed, stamp>>

Publish ==
  /\ pc = "publish"
  /\ staged' = run.tok.data
  /\ pc' = "settle" /\ run' = [run EXCEPT !.own = "final"]
  /\ UNCHANGED <<bundle, names, cleanup, left, told, observed, bounds>>

Settle ==
  /\ pc = "settle"
  /\ IF Drifted THEN Drift
     ELSE pc' = "commit" /\ run' = [run EXCEPT !.started = TRUE]
  /\ UNCHANGED <<disk, told, observed, bounds>>

Owned == Readable(lane) /\ Seen(lane) = run.res

\* commitClaimReservation: the missing one of anchor and marker is linked.
Commit ==
  /\ pc = "commit"
  /\ IF ~Owned THEN Fail("invalid") /\ UNCHANGED names
     ELSE /\ marker' = [marker EXCEPT ![lane] = run.res]
          /\ anchor' = [anchor EXCEPT ![lane] = run.res]
          /\ quarantine' = [quarantine EXCEPT ![lane] = NoFile]
          /\ content' = content
          /\ Go("detach")
  /\ UNCHANGED <<bundle, cleanup, left, staged, told, observed, bounds>>

\* To see that nobody put something else at the marker's path, it is moved to the
\* quarantine, looked at there, and linked back.
Detach ==
  /\ pc = "detach"
  /\ quarantine' = [quarantine EXCEPT ![lane] = marker[lane]]
  /\ marker' = [marker EXCEPT ![lane] = NoFile]
  /\ Go("relink")
  /\ UNCHANGED <<bundle, anchor, content, cleanup, left, staged, told, observed, bounds>>

\* Meanwhile the lane was open: a bundle may have come in.
Relink ==
  /\ pc = "relink"
  /\ IF bundle[Other(lane)] # NoBundle THEN Fail("invalid") /\ UNCHANGED names
     ELSE /\ marker' = [marker EXCEPT ![lane] = quarantine[lane]]
          /\ UNCHANGED <<anchor, quarantine, content>>
          /\ Go("tidy")
  /\ UNCHANGED <<bundle, cleanup, left, staged, told, observed, bounds>>

Tidy ==
  /\ pc = "tidy"
  /\ quarantine' = [quarantine EXCEPT ![lane] = NoFile]
  /\ Go("confirm")
  /\ UNCHANGED <<bundle, marker, anchor, content, cleanup, left, staged>>
  /\ UNCHANGED <<told, observed, bounds>>

\* A failed link or removal is put right once; if that works, the claim is only
\* put off.
PublicationFails ==
  /\ pc \in {"relink", "tidy"}
  /\ Disturb("fault")
  /\ \/ /\ bundle[Other(lane)] = NoBundle
        /\ Recover(lane)
        /\ Fail("unstable")
     \/ /\ \/ bundle[Other(lane)] = NoBundle
              /\ marker' = [marker EXCEPT ![lane] = quarantine[lane]]
           \/ marker' = marker
        /\ UNCHANGED <<anchor, quarantine, content>>
        /\ Fail("invalid")
  /\ UNCHANGED <<bundle, cleanup, left, staged, told, observed, stamp>>

ClaimCalls ==
  {"begin", "existing", "stage", "copy", "acquire", "create", "publish", "settle",
   "commit", "detach", "confirm"}

\* Any other failed call: an unknown error counts as an invalid item, a failed
\* copy or link does not.
CallFails ==
  /\ \/ pc \in ClaimCalls /\ Fail("invalid")
     \/ pc \in {"stage", "copy"} /\ Fail("copyFailed")
     \/ pc = "commit" /\ Fail("unstable")
  /\ Disturb("fault")
  /\ UNCHANGED <<disk, told, observed, stamp>>

\* A reservation that does not read because a call fails.
ReadFails ==
  /\ pc \in {"existing", "acquire", "commit"}
  /\ RecoverFails(lane)
  /\ Fail("invalid")
  /\ UNCHANGED <<bundle, cleanup, left, staged, told, observed, stamp>>

Confirm ==
  /\ pc = "confirm"
  /\ IF Drifted THEN Drift ELSE Go("claimed")
  /\ UNCHANGED <<disk, told, observed, bounds>>

\* Back in the runner: the job is inserted; or the claim is given up for now; or
\* the runner refuses it (a duplicate, an unknown course).
Insert ==
  /\ pc = "claimed"
  /\ job' = lane
  /\ pc' = "idle" /\ run' = NoRun
  /\ UNCHANGED <<disk, rejected, receipt, owed, observed, bounds>>

GiveUp ==
  /\ pc = "claimed"
  /\ staged' \in {staged, "none"}
  /\ \/ Disturb("fault") /\ rejected' = rejected
     \/ rejected' = TRUE /\ disturbances' = disturbances
  /\ receipt' \in {receipt, "failed"}
  /\ pc' = "idle" /\ run' = NoRun
  /\ UNCHANGED <<bundle, names, cleanup, left, job, owed, observed, stamp>>

-----------------------------------------------------------------------------
(* The catch of claim.                                                     *)

\* An error of a bundle that changed is not held against it.
Normalize ==
  /\ pc = "normalize"
  /\ pc' = "dropStaging"
  /\ run' = IF run.tok # NoBundle /\ bundle[lane] \notin {run.tok, NoBundle}
            THEN [run EXCEPT !.code = "unstable"]
            ELSE run
  /\ UNCHANGED <<disk, told, observed, bounds>>

\* A created reservation goes only after the staging it protects, and stays when
\* a started commit is to be tried again.
Releases == run.created /\ (run.code # "unstable" \/ ~run.started)

AfterStaging == IF Releases THEN "dropMarker" ELSE "reject"

DropStaging ==
  /\ pc = "dropStaging"
  /\ staged' = IF run.own = "final" THEN "none" ELSE staged
  /\ Go(AfterStaging)
  /\ UNCHANGED <<bundle, names, cleanup, left, told, observed, bounds>>

\* Slip: the reservation is released although its staging may still be there.
DropStagingReleases ==
  /\ pc = "dropStaging" /\ run.own # "none"
  /\ Disturb("fault")
  /\ staged' \in IF run.own = "final" THEN {staged, "none"} ELSE {staged}
  /\ Go(AfterStaging)
  /\ UNCHANGED <<bundle, names, cleanup, left, told, observed, stamp>>

DropStagingFails ==
  /\ pc = "dropStaging" /\ run.own # "none"
  /\ Disturb("fault")
  /\ staged' \in IF run.own = "final" THEN {staged, "none"} ELSE {staged}
  /\ pc' = "reject" /\ run' = [run EXCEPT !.code = "copyFailed"]
  /\ UNCHANGED <<bundle, names, cleanup, left, told, observed, stamp>>

\* removeClaimReservation: not if it is not the file the claim made.
DropMarker ==
  /\ pc = "dropMarker"
  /\ IF Owned
     THEN /\ marker' = [marker EXCEPT ![lane] = NoFile]
          /\ quarantine' = [quarantine EXCEPT ![lane] = NoFile]
          /\ UNCHANGED <<anchor, content>>
          /\ Go("dropAnchor")
     ELSE UNCHANGED names /\ Go("reject")
  /\ UNCHANGED <<bundle, cleanup, left, staged, told, observed, bounds>>

DropAnchor ==
  /\ pc = "dropAnchor"
  /\ anchor' = [anchor EXCEPT ![lane] = NoFile]
  /\ Go("reject")
  /\ UNCHANGED <<bundle, marker, quarantine, content, cleanup, left, staged>>
  /\ UNCHANGED <<told, observed, bounds>>

DropFails ==
  /\ \/ pc = "dropMarker" /\ RecoverFails(lane)
     \/ pc = "dropAnchor" /\ Disturb("fault") /\ UNCHANGED names
  /\ Go("reject")
  /\ UNCHANGED <<bundle, cleanup, left, staged, told, observed, stamp>>

Reject ==
  /\ pc = "reject"
  /\ rejected' = (rejected \/ run.code = "invalid")
  /\ Go("receipt")
  /\ UNCHANGED <<disk, receipt, job, owed, observed, bounds>>

WriteReceipt ==
  /\ pc = "receipt"
  /\ receipt' = IF run.manifest /\ run.code # "unstable" THEN "failed" ELSE receipt
  /\ pc' = "idle" /\ run' = NoRun
  /\ UNCHANGED <<disk, rejected, job, owed, observed, bounds>>

TellFails ==
  /\ pc \in {"reject", "receipt"}
  /\ Disturb("fault")
  /\ pc' = "idle" /\ run' = NoRun
  /\ UNCHANGED <<disk, told, observed, stamp>>

-----------------------------------------------------------------------------
(* removeCompleted.                                                        *)

\* The warning of the job's row decides whether it is tried again.
RemoveEnds(again) ==
  /\ pc' = "scan" /\ run' = NoRun
  /\ owed' = again
  /\ UNCHANGED <<rejected, receipt, job>>

Committed(k) == Readable(k) /\ anchor[k] # NoFile /\ (marker[k] # NoFile \/ quarantine[k] # NoFile)

TokenOf(k) == IF Seen(k) \in Files THEN content[Seen(k)].token ELSE NoBundle

Whole(k) == cleanup[k].data \notin Unsound /\ left[k] = Entries

\* The reservation has to be committed and to be that of the originals.
Removable(k) ==
  /\ Committed(k)
  /\ \/ /\ cleanup[k] = NoBundle
        /\ bundle[k] = TokenOf(k) /\ bundle[k].data \notin Unsound
     \/ /\ bundle[k] = NoBundle
        /\ cleanup[k] = TokenOf(k) /\ Whole(k)

Gone(k) == bundle[k] = NoBundle /\ cleanup[k] = NoBundle

RemoveRead ==
  /\ pc = "rmRead"
  /\ IF Readable(lane) THEN Recover(lane) ELSE UNCHANGED names
  /\ \/ /\ \/ Collision(lane)
           \/ ~Gone(lane) /\ ~Removable(lane)
        /\ RemoveEnds(TRUE)
     \/ /\ Gone(lane) /\ Unreserved(lane)
        /\ RemoveEnds(FALSE)
     \/ /\ Readable(lane) /\ (Gone(lane) \/ Removable(lane))
        /\ pc' = IF Gone(lane) THEN "rmMarker"
                 ELSE IF bundle[lane] # NoBundle THEN "rmMove" ELSE "rmEntry"
        /\ run' = [run EXCEPT !.res = Seen(lane), !.tok = TokenOf(lane)]
        /\ UNCHANGED told
  /\ UNCHANGED <<bundle, cleanup, left, staged, observed, bounds>>

\* Whatever is there now is moved, and looked at again behind the move.
RemoveMove ==
  /\ pc = "rmMove"
  /\ IF bundle[lane] = NoBundle
     THEN RemoveEnds(TRUE) /\ UNCHANGED <<bundle, cleanup, left>>
     ELSE /\ cleanup' = [cleanup EXCEPT ![lane] = bundle[lane]]
          /\ left' = [left EXCEPT ![lane] = Entries]
          /\ bundle' = [bundle EXCEPT ![lane] = NoBundle]
          /\ Go("rmCheck") /\ UNCHANGED told
  /\ UNCHANGED <<names, staged, observed, bounds>>

RemoveCheck ==
  /\ pc = "rmCheck"
  /\ IF cleanup[lane] = run.tok
     THEN Go("rmEntry") /\ UNCHANGED told
     ELSE RemoveEnds(TRUE)
  /\ UNCHANGED <<disk, observed, bounds>>

\* Slip: entries are not compared again.
RemoveAnyEntry ==
  /\ pc = "rmEntry" /\ left[lane] > 0
  /\ left' = [left EXCEPT ![lane] = @ - 1] /\ Go("rmEntry")
  /\ UNCHANGED <<bundle, names, cleanup, staged, told, observed, bounds>>

\* Every entry is compared with what was validated.
RemoveEntry ==
  /\ pc = "rmEntry" /\ left[lane] > 0
  /\ IF cleanup[lane] = run.tok
     THEN left' = [left EXCEPT ![lane] = @ - 1] /\ Go("rmEntry") /\ UNCHANGED told
     ELSE left' = left /\ RemoveEnds(TRUE)
  /\ UNCHANGED <<bundle, names, cleanup, staged, observed, bounds>>

RemoveDirectory ==
  /\ pc = "rmEntry" /\ left[lane] = 0
  /\ cleanup' = [cleanup EXCEPT ![lane] = NoBundle]
  /\ Go("rmMarker")
  /\ UNCHANGED <<bundle, names, left, staged, told, observed, bounds>>

\* Slip: the anchor goes before the marker.
RemoveAnchorFirst ==
  /\ pc = "rmMarker" /\ Owned
  /\ anchor' = [anchor EXCEPT ![lane] = NoFile]
  /\ Go("rmMarker")
  /\ UNCHANGED <<bundle, marker, quarantine, content, cleanup, left, staged>>
  /\ UNCHANGED <<told, observed, bounds>>

RemoveMarker ==
  /\ pc = "rmMarker"
  /\ IF Owned
     THEN /\ marker' = [marker EXCEPT ![lane] = NoFile]
          /\ quarantine' = [quarantine EXCEPT ![lane] = NoFile]
          /\ UNCHANGED <<anchor, content>>
          /\ Go("rmAnchor") /\ UNCHANGED told
     ELSE UNCHANGED names /\ RemoveEnds(TRUE)
  /\ UNCHANGED <<bundle, cleanup, left, staged, observed, bounds>>

RemoveAnchor ==
  /\ pc = "rmAnchor"
  /\ anchor' = [anchor EXCEPT ![lane] = NoFile]
  /\ RemoveEnds(FALSE)
  /\ UNCHANGED <<bundle, marker, quarantine, content, cleanup, left, staged>>
  /\ UNCHANGED <<observed, bounds>>

RemoveFails ==
  /\ \/ pc = "rmRead" /\ RecoverFails(lane) /\ left' = left
     \/ /\ pc \in {"rmMove", "rmCheck", "rmEntry", "rmMarker", "rmAnchor"}
        /\ Disturb("fault") /\ UNCHANGED names
        /\ \/ left' = left
           \/ /\ pc = "rmEntry" /\ left[lane] > 0 /\ cleanup[lane] = run.tok
              /\ left' = [left EXCEPT ![lane] = @ - 1]
  /\ RemoveEnds(TRUE)
  /\ UNCHANGED <<bundle, cleanup, staged, observed, stamp>>

-----------------------------------------------------------------------------
(* iCloud, the rest of the pipeline, and the end of the process.           *)

Stamped(d) == [stamp |-> stamp + 1, data |-> d]

Deliver(k) ==
  /\ k \in Deliveries
  /\ bundle[k] = NoBundle /\ marker[Other(k)] = NoFile
  /\ stamp < MaxStamp /\ stamp' = stamp + 1
  /\ \E d \in Data : bundle' = [bundle EXCEPT ![k] = Stamped(d)]
  /\ UNCHANGED <<names, cleanup, left, staged, told, observed, pc, run, disturbances>>

\* Synchronisation touches the files, with or without new contents, in the
\* inbox or in the directory they were moved to.
Change(k) ==
  /\ Disturb("change")
  /\ stamp < MaxStamp /\ stamp' = stamp + 1
  /\ \/ /\ bundle[k] # NoBundle
        /\ \E d \in Data : bundle' = [bundle EXCEPT ![k] = Stamped(d)]
        /\ cleanup' = cleanup
     \/ /\ cleanup[k] # NoBundle /\ left[k] > 0
        /\ \E d \in Data : cleanup' = [cleanup EXCEPT ![k] = Stamped(d)]
        /\ bundle' = bundle
  /\ UNCHANGED <<names, left, staged, told, observed, pc, run>>

Withdraw(k) ==
  /\ Disturb("withdraw")
  /\ bundle[k] # NoBundle
  /\ bundle' = [bundle EXCEPT ![k] = NoBundle]
  /\ UNCHANGED <<names, cleanup, left, staged, told, observed, pc, run, stamp>>

\* The job runs to its end between two polls.
CompleteJob ==
  /\ pc = "idle" /\ job # "none" /\ receipt # "completed"
  /\ receipt' = "completed" /\ owed' = TRUE
  /\ staged' \in {staged, "none"}
  /\ UNCHANGED <<bundle, names, cleanup, left, rejected, job, observed, pc, run, bounds>>

Crash ==
  /\ Disturb("crash")
  /\ pc' = "idle" /\ run' = NoRun
  /\ observed' = [k \in Kinds |-> NoBundle]
  /\ UNCHANGED <<disk, told, stamp>>

ClaimStep ==
  \/ Begin \/ ReadExisting \/ Stage \/ Copy \/ Acquire \/ Create \/ Write \/ Publish
  \/ Settle \/ Commit \/ Detach \/ Relink \/ Tidy \/ Confirm \/ Insert \/ GiveUp
  \/ Normalize \/ DropStaging \/ DropMarker \/ DropAnchor \/ Reject \/ WriteReceipt

RemoveStep ==
  \/ RemoveRead \/ RemoveMove \/ RemoveCheck \/ RemoveEntry \/ RemoveDirectory
  \/ RemoveMarker \/ RemoveAnchor

ScanStep ==
  \/ Poll \/ ScanNothing
  \/ \E k \in Kinds : ScanCollision(k) \/ ScanObserves(k) \/ ScanReady(k)

FaultStep ==
  \/ WriteFails \/ PublicationFails \/ CallFails \/ ReadFails \/ DropStagingFails
  \/ DropFails \/ TellFails \/ RemoveFails

OutsideStep ==
  \/ Crash
  \/ \E k \in Kinds : Deliver(k) \/ Change(k) \/ Withdraw(k)

Next == ScanStep \/ ClaimStep \/ RemoveStep \/ CompleteJob \/ FaultStep \/ OutsideStep

Spec == Init /\ [][Next]_vars

\* The poll timer and the serial queue keep the program going; the directory
\* cursors come round to every entry and a second passes between polls.
ScanSees == \E k \in Kinds : ScanCollision(k) \/ ScanObserves(k) \/ ScanReady(k)

FairSpec == Spec /\ WF_vars(ScanStep \/ ClaimStep \/ RemoveStep) /\ SF_vars(ScanSees)

-----------------------------------------------------------------------------
(* Properties.                                                             *)

PCs ==
  {"idle", "scan", "begin", "existing", "stage", "copy", "acquire", "create", "write",
   "publish", "settle", "commit", "detach", "relink", "tidy", "confirm", "claimed",
   "normalize", "dropStaging", "dropMarker", "dropAnchor", "reject", "receipt",
   "rmRead", "rmMove", "rmCheck", "rmEntry", "rmMarker", "rmAnchor"}

Runs ==
  [lane : Kinds \cup {"none"}, tok : MaybeBundle, manifest : BOOLEAN, existing : BOOLEAN,
   own : {"none", "temp", "final"}, res : Files \cup {NoFile}, created : BOOLEAN,
   started : BOOLEAN, code : {"none", "invalid", "copyFailed", "unstable"}]

\* The values the variables take.
TypeOK ==
  /\ bundle \in [Kinds -> MaybeBundle]
  /\ marker \in [Kinds -> Files \cup {NoFile}]
  /\ anchor \in [Kinds -> Files \cup {NoFile}]
  /\ quarantine \in [Kinds -> Files \cup {NoFile}]
  /\ content \in [Files -> Record \cup {Blank}]
  /\ cleanup \in [Kinds -> MaybeBundle]
  /\ left \in [Kinds -> 0..Entries]
  /\ staged \in Data \cup {"none"}
  /\ rejected \in BOOLEAN /\ receipt \in {"none", "failed", "completed"}
  /\ job \in Kinds \cup {"none"} /\ owed \in BOOLEAN
  /\ observed \in [Kinds -> MaybeBundle]
  /\ pc \in PCs /\ run \in Runs
  /\ stamp \in 0..MaxStamp /\ disturbances \in 0..MaxDisturbances

\* Wherever a commit, a recovery or a removal stops, the names left of a lane's
\* reservation are names of one file, and not the quarantine's alone: the next
\* reader can finish the work.
NamesAgree ==
  \A k \in Kinds :
    /\ \A f, g \in NamesOf(k) : f = g
    /\ quarantine[k] # NoFile => marker[k] # NoFile \/ anchor[k] # NoFile

\* A job id is never shut for both lanes by reservations of both.
OneMarker == \A k \in Kinds : marker[k] # NoFile => marker[Other(k)] = NoFile

\* A claim that returns to the runner holds a committed reservation of the very
\* bundle it read, and staging holds that bundle's sound contents.
ClaimIsBacked ==
  pc = "claimed" =>
    /\ marker[lane] # NoFile /\ anchor[lane] = marker[lane] /\ quarantine[lane] = NoFile
    /\ content[marker[lane]] = [kind |-> lane, token |-> run.tok]
    /\ staged = run.tok.data /\ staged \notin Unsound

\* The claim as ClaimLease sees it, read off the three names.
LeaseOf(k) ==
  IF Seen(k) = NoFile THEN [state |-> "free", token |-> NoBundle]
  ELSE IF content[Seen(k)] = Blank THEN [state |-> "torn", token |-> NoBundle]
  ELSE [state |-> IF anchor[k] # NoFile THEN "committed" ELSE "held",
        token |-> content[Seen(k)].token]

Lease == INSTANCE ClaimLease WITH
  Lanes <- Kinds, Tokens <- Bundle, NoToken <- NoBundle,
  lease <- [k \in Kinds |-> LeaseOf(k)]

\* The commit with its quarantine, its failures, crashes and recoveries, is one
\* step to whoever reads a reservation.
CommitIsAtomic == Lease!Spec

\* Originals being removed still have their reservation, so that an interrupted
\* removal finds the proof of its right to go on.
RemovalIsCovered ==
  \A k \in Kinds : cleanup[k] # NoBundle => job = k /\ anchor[k] # NoFile

\* Nothing but the bundle the reservation was made for is deleted, and only after
\* the phone was told that its job is complete.
OnlyTheClaimedIsDeleted ==
  [][\A k \in Kinds :
       left'[k] < left[k] /\ cleanup'[k] # NoBundle =>
         /\ receipt = "completed" /\ job = k
         /\ cleanup[k] = TokenOf(k)]_vars

\* Once the phone finds a rejection, no claim under way makes a job of it.
RejectedStaysOut == [][rejected => job' = job]_vars

\* README: a bundle that is sound and alone is not refused for good because it
\* was touched, or the process stopped, while it was being claimed.
SoundIsNotRejected ==
  [][rejected' /\ ~rejected =>
       \/ pc = "claimed"
       \/ \E k \in Kinds : bundle[k].data \in Unsound
       \/ \A k \in Kinds : bundle[k] = NoBundle
       \/ \A k \in Kinds : bundle[k] # NoBundle]_vars

\* A claim left behind, whose bundle was withdrawn while it was made.
Orphaned(k) == bundle[k] = NoBundle /\ NamesOf(k) # {} /\ job = "none"

\* A published bundle is taken or refused in the end, unless what a withdrawn one
\* left behind is in its way.
BundleSettles ==
  [](\A k \in Kinds : ~Orphaned(k)) =>
    \A k \in Kinds :
      bundle[k] # NoBundle ~> job # "none" \/ rejected \/ bundle[k] = NoBundle

\* The originals of the job are those its reservation names, all of them or none
\* unless they are being removed, and the id is not used in the other lane.
Untouched ==
  /\ bundle[job] \in {NoBundle, TokenOf(job)} /\ bundle[Other(job)] = NoBundle
  /\ cleanup[job] # NoBundle => cleanup[job] = TokenOf(job) /\ (Whole(job) \/ pc = "rmEntry")

\* A cleanup that is owed gets done after a restart, as long as iCloud leaves the
\* originals alone and no interruption falls between the removal of two entries.
CleanupResumes == [](owed => Untouched) => (owed ~> ~owed)

\* A cleanup that is owed gets done, wherever it was interrupted.
CleanupFinishes == owed ~> ~owed
=============================================================================
