---------------------------- MODULE VaultWriter ----------------------------
(***************************************************************************)
(* How a file of the vault is replaced: atomicReplace with the choice of   *)
(* the target that writeMarkdown and its kin (compare with the hash of the *)
(* text the caller has read) and copyAttachment make.  The new text goes to*)
(* a temporary file, what is at the target to a backup, and the temporary  *)
(* file is linked in its place; every step may fail, the process may die,  *)
(* and the user saves and deletes the files in Obsidian at any moment.     *)
(*                                                                         *)
(* One directory with the target and its conflict copies, one operation    *)
(* after the other: the writers of the program run in its serial queue.    *)
(***************************************************************************)
EXTENDS Naturals

CONSTANTS
  Texts,          \* contents of a file
  Conflicts,      \* the names <stem>.conflict-<time>-<n> to choose from
  MaxAttempts     \* 8 in the code

Names == {"target"} \cup Conflicts

Nothing == "nothing"    \* no file
Partial == "partial"    \* a file that was not written to its end

ASSUME WriterAssumption ==
  /\ MaxAttempts \in Nat
  /\ "target" \notin Conflicts
  /\ {"nothing", "partial", "any", "same"} \cap Texts = {}

Contents == Texts \cup {Nothing}

\* What a caller expects at the target: anything, the text of the hash it gives
\* (or no file), or for an attachment no file or the same.
Bases == Contents \cup {"any", "same"}

VARIABLES
  disk,       \* name -> what is there
  temp,       \* .studyapp-<id>.tmp of the last operation
  backup,     \* .studyapp-backup-<time>-<id>.bak of the last operation
  known,      \* which of the two the operation would name in its outcome
  await,      \* the await that is pending
  op,         \* the input: the new text and the expected base
  sel,        \* finalTargetPath and replaceExisting
  tries,      \* targetSelectionAttempts
  outcome,    \* of the last operation
  late        \* the windows in which the user changed the selected file

writerVars == <<disk, temp, backup, known, await, op, sel, tries, outcome, late>>

NoOp == [want |-> Nothing, base |-> "any"]
NoSelection == [at |-> "target", replace |-> FALSE]
NothingKnown == [temp |-> FALSE, backup |-> FALSE]

WriterInit ==
  /\ disk \in [Names -> Contents]
  /\ temp = Nothing /\ backup = Nothing /\ known = NothingKnown
  /\ await = "idle" /\ op = NoOp /\ sel = NoSelection /\ tries = 0
  /\ outcome = "none" /\ late = {}

-----------------------------------------------------------------------------
(* selectTarget.                                                           *)

Agreed(t) ==
  \/ op.base = "any"
  \/ op.base = "same" /\ t \in {Nothing, op.want}
  \/ op.base = t

\* A conflict goes to a free name; which one, the clock decides.
Choices ==
  IF op.base = "any" THEN {[at |-> "target", replace |-> TRUE]}
  ELSE IF Agreed(disk["target"])
  THEN {[at |-> "target", replace |-> disk["target"] # Nothing]}
  ELSE {[at |-> c, replace |-> FALSE] : c \in {n \in Conflicts : disk[n] = Nothing}}

\* refreshSelection: the loop starts again if the choice changed.
Refresh(same) ==
  \E s \in Choices : sel' = s /\ await' = IF s = sel THEN same ELSE "look"

-----------------------------------------------------------------------------
(* atomicReplace.                                                          *)

Begin ==
  /\ await = "idle"
  /\ \E want \in Texts, base \in Bases :
       /\ op' = [want |-> want, base |-> base]
       /\ sel' = [at |-> "target", replace |-> base # "same"]
  /\ temp' = Nothing /\ backup' = Nothing /\ known' = NothingKnown
  /\ await' = "open" /\ outcome' = "none"
  /\ UNCHANGED <<disk, tries, late>>

End(how) ==
  /\ await' = "idle" /\ outcome' = how
  /\ op' = NoOp /\ sel' = NoSelection /\ tries' = 0 /\ late' = {}

OpenTemp ==
  /\ await = "open"
  /\ temp' = Partial /\ known' = [known EXCEPT !.temp = TRUE]
  /\ await' = "write"
  /\ UNCHANGED <<disk, backup, op, sel, tries, outcome, late>>

\* write, sync and close.
Write ==
  /\ await = "write"
  /\ temp' = op.want
  /\ await' = "select"
  /\ UNCHANGED <<disk, backup, known, op, sel, tries, outcome, late>>

Select ==
  /\ await = "select"
  /\ \E s \in Choices : sel' = s
  /\ await' = "look"
  /\ UNCHANGED <<disk, temp, backup, known, op, tries, outcome, late>>

\* Slip: the loop has no bound.
LookForEver ==
  /\ await = "look"
  /\ await' = IF disk[sel.at] = Nothing THEN "checkLink"
           ELSE IF sel.replace THEN "checkMove" ELSE "reselect"
  /\ UNCHANGED <<disk, temp, backup, known, op, sel, tries, outcome, late>>

Look ==
  /\ await = "look"
  /\ IF tries = MaxAttempts THEN await' = "catch" /\ tries' = tries
     ELSE /\ tries' = tries + 1
          /\ await' = IF disk[sel.at] = Nothing THEN "checkLink"
                   ELSE IF sel.replace THEN "checkMove" ELSE "reselect"
  /\ UNCHANGED <<disk, temp, backup, known, op, sel, outcome, late>>

\* Somebody else's file is at a conflict name, or at the target that was free.
Reselect ==
  /\ await = "reselect"
  /\ Refresh("catch")
  /\ UNCHANGED <<disk, temp, backup, known, op, tries, outcome, late>>

\* Slip: no second look in front of the rename.
MoveUnchecked ==
  /\ await = "checkMove"
  /\ await' = "move"
  /\ UNCHANGED <<disk, temp, backup, known, op, sel, tries, outcome, late>>

CheckMove ==
  /\ await = "checkMove"
  /\ Refresh("move")
  /\ UNCHANGED <<disk, temp, backup, known, op, tries, outcome, late>>

CheckLink ==
  /\ await = "checkLink"
  /\ Refresh("link")
  /\ UNCHANGED <<disk, temp, backup, known, op, tries, outcome, late>>

\* There is no free conflict name.
NoChoice ==
  /\ await \in {"select", "reselect", "checkMove", "checkLink"}
  /\ Choices = {}
  /\ await' = "catch"
  /\ UNCHANGED <<disk, temp, backup, known, op, sel, tries, outcome, late>>

\* rename moves whatever is there now.
Move ==
  /\ await = "move"
  /\ IF disk[sel.at] = Nothing
     THEN await' = "catch" /\ UNCHANGED <<disk, backup, known>>
     ELSE /\ backup' = disk[sel.at]
          /\ disk' = [disk EXCEPT ![sel.at] = Nothing]
          /\ known' = [known EXCEPT !.backup = TRUE]
          /\ await' = "link"
  /\ UNCHANGED <<temp, op, sel, tries, outcome, late>>

\* link does not overwrite.
Link ==
  /\ await = "link"
  /\ IF disk[sel.at] # Nothing THEN await' = "catch" /\ disk' = disk
     ELSE disk' = [disk EXCEPT ![sel.at] = temp] /\ await' = "unlink"
  /\ UNCHANGED <<temp, backup, known, op, sel, tries, outcome, late>>

Done == End(IF sel.at = "target" THEN "written" ELSE "conflict")

AfterUnlink ==
  IF known.backup THEN await' = "tidy" /\ UNCHANGED <<op, sel, tries, outcome, late>> ELSE Done

Unlink ==
  /\ await = "unlink"
  /\ temp' = Nothing /\ known' = [known EXCEPT !.temp = FALSE]
  /\ AfterUnlink
  /\ UNCHANGED <<disk, backup>>

\* The failure is kept for the outcome, as temporaryRecoveryToken.
UnlinkFails ==
  /\ await = "unlink"
  /\ AfterUnlink
  /\ UNCHANGED <<disk, temp, backup, known>>

Tidy ==
  /\ await = "tidy"
  /\ backup' = Nothing /\ known' = [known EXCEPT !.backup = FALSE]
  /\ Done
  /\ UNCHANGED <<disk, temp>>

TidyFails ==
  /\ await = "tidy"
  /\ Done
  /\ UNCHANGED <<disk, temp, backup, known>>

-----------------------------------------------------------------------------
(* Failures.                                                               *)

Failing ==
  {"open", "select", "look", "reselect", "checkMove", "move", "checkLink", "link"}

WriterStepFails ==
  /\ await \in Failing
  /\ await' = "catch"
  /\ UNCHANGED <<disk, temp, backup, known, op, sel, tries, outcome, late>>

\* An attachment may also turn out to have another hash.
WriteFails ==
  /\ await = "write"
  /\ temp' \in {Partial, op.want}
  /\ await' = "catch"
  /\ UNCHANGED <<disk, backup, known, op, sel, tries, outcome, late>>

Catch ==
  /\ await = "catch"
  /\ IF known.backup /\ disk[sel.at] = Nothing
     THEN await' = "putBack" /\ UNCHANGED <<op, sel, tries, outcome, late>>
     ELSE End("failed")
  /\ UNCHANGED <<disk, temp, backup, known>>

\* The test for the target is not guarded: its error leaves the catch.
CatchFails ==
  /\ await = "catch" /\ known.backup
  /\ known' = NothingKnown
  /\ End("escaped")
  /\ UNCHANGED <<disk, temp, backup>>

\* rename overwrites.
PutBack ==
  /\ await = "putBack"
  /\ disk' = [disk EXCEPT ![sel.at] = backup]
  /\ backup' = Nothing /\ known' = [known EXCEPT !.backup = FALSE]
  /\ End("failed")
  /\ UNCHANGED temp

PutBackFails ==
  /\ await = "putBack"
  /\ End("failed")
  /\ UNCHANGED <<disk, temp, backup, known>>

WriterCrash ==
  /\ await # "idle"
  /\ known' = NothingKnown
  /\ End("crashed")
  /\ UNCHANGED <<disk, temp, backup>>

-----------------------------------------------------------------------------
(* The user.                                                               *)

\* Between the last look at a file and its rename or link nothing holds it.
Windows == {"move", "link", "putBack"}

Edit(n) ==
  /\ \E t \in Contents \ {disk[n]} : disk' = [disk EXCEPT ![n] = t]
  /\ late' = IF n = sel.at /\ await \in Windows THEN late \cup {await} ELSE late
  /\ UNCHANGED <<temp, backup, known, await, op, sel, tries, outcome>>

WriterStep ==
  \/ OpenTemp \/ Write \/ Select \/ Look \/ Reselect \/ CheckMove \/ CheckLink \/ NoChoice
  \/ Move \/ Link \/ Unlink \/ Tidy \/ Catch \/ PutBack

WriterFaultStep ==
  \/ WriterStepFails \/ WriteFails \/ UnlinkFails \/ TidyFails \/ CatchFails \/ PutBackFails
  \/ WriterCrash

UserStep == \E n \in Names : Edit(n)

WriterNext == Begin \/ WriterStep \/ WriterFaultStep \/ UserStep

WriterSpec == WriterInit /\ [][WriterNext]_writerVars

\* A promise that is awaited goes on when its call returns.
FairWriterSpec == WriterSpec /\ WF_writerVars(WriterStep)

-----------------------------------------------------------------------------
(* Properties.                                                             *)

Awaits ==
  Failing \cup {"idle", "write", "unlink", "tidy", "catch", "putBack"}

\* The values of the variables.  No name but the temporary one ever holds a part
\* of a text.
WriterTypeOK ==
  /\ disk \in [Names -> Contents]
  /\ temp \in Contents \cup {Partial}
  /\ backup \in Contents
  /\ known \in [temp : BOOLEAN, backup : BOOLEAN]
  /\ await \in Awaits
  /\ op \in [want : Contents, base : Bases]
  /\ sel \in [at : Names, replace : BOOLEAN]
  /\ tries \in 0..MaxAttempts
  /\ outcome \in {"none", "written", "conflict", "failed", "escaped", "crashed"}
  /\ late \in SUBSET Windows

Held(t) == backup = t \/ \E n \in Names : disk[n] = t

\* A text that is in the vault is taken away by an operation only if it is the one
\* that the caller agreed to replace, or the target changed while it was renamed.
NothingIsLost ==
  [][await' # await /\ await # "idle" =>
       \A t \in Texts :
         Held(t) => Held(t)' \/ Agreed(t) \/ late \cap {"move", "putBack"} # {}]_writerVars

\* README and a test of the writer: a late edit of the user is preserved.
LateEditsSurvive ==
  [][await' # await /\ await # "idle" => \A t \in Texts : Held(t) => Held(t)' \/ Agreed(t)]_writerVars

\* What is at the target once the operation under way is over or undone.
Replacing == known.backup /\ await \in {"link", "catch", "putBack"} /\ disk["target"] = Nothing
Note == IF Replacing THEN backup ELSE disk["target"]

\* The target goes from what was agreed to the new text, and nowhere else; if it is
\* left without a file, the backup is what was there.  (A change in a window may be
\* replaced, or give way to the backup.)
ReplacementsAreAgreed ==
  [][await' # await /\ Note' # Note =>
       \/ Note' = op.want /\ (Agreed(Note) \/ late # {})
       \/ Note' = Nothing /\ backup' = Note
       \/ Note' = backup /\ "putBack" \in late]_writerVars

\* What an operation leaves behind it names in its outcome, and it names nothing
\* else.  (Except where the test of the catch fails.)
LeftoversAreReported ==
  await = "idle" /\ outcome \notin {"escaped", "crashed"} =>
    /\ known.temp <=> temp # Nothing
    /\ known.backup <=> backup # Nothing

\* An operation ends, however often the user saves the files it looks at.
OperationsEnd == await # "idle" ~> await = "idle"
=============================================================================
