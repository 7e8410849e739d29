------------------------------ MODULE CliCall ------------------------------
(***************************************************************************)
(* One call of the Codex command-line adapter (codexCliAdapter.ts): its    *)
(* bracket around a lease of drive letters, the processes it has the       *)
(* runner (nodeCliProcessRunner.ts) start under them, the request's        *)
(* private directories, and the drive letters themselves                   *)
(* (windowsWorkspaceAlias.ts, windowsSubstMapping.ts): a letter stands for *)
(* a private root, is counted by its users and marked in a file.           *)
(*                                                                         *)
(* A call has two threads: the adapter ("at") and the runner of its        *)
(* current process ("run").  The runner outlives the adapter's wait when   *)
(* the deadline of the final cleaning passes.  An action ends at an await  *)
(* of work outside the process (a command, a file, the child); what the    *)
(* code re-checks before each such piece of work is part of its action.    *)
(***************************************************************************)
EXTENDS Naturals, FiniteSets

CONSTANTS
  Calls,      \* the calls of one run of the machine
  Drives,     \* the letters R: to W:, as numbers in the order they are tried
  Workloads,  \* the roots that need a letter, the calls made, the bounds on failures,
              \* crashes, aborts and letters removed by others, and whether stale letters are cleaned
  None

Roots == {"runtime", "install"}
Threads == {"outer", "inner"}

ASSUME CliAssumption ==
  /\ Drives \in SUBSET Nat
  /\ Workloads \subseteq [roots: {{"runtime"}, Roots}, made: SUBSET Calls, faults: Nat,
                          crashes: Nat, aborts: Nat, tampers: Nat, cleans: BOOLEAN]
  /\ None \notin Drives /\ None \notin Roots /\ None \notin Calls \X Threads

VARIABLES
  roots,     \* the roots a lease covers: "install" for a CLI below the user's profile
  limits,    \* what is left of the bounds
  \* The machine, which survives the program.
  mapped,    \* d -> the root the letter stands for
  marked,    \* d -> the root its marker file names
  child,     \* c -> the last process started for its request, and for its last check
  taken,     \* the letters someone else has removed
  space,     \* c -> those of the two that have private directories, and "kept" when a clean-up
             \* refused the request's
  \* The alias manager.
  place,     \* root -> its letter, in #activeByTarget
  refs,      \* root -> its references there
  poisoned,
  busy,      \* #queue: the thread whose acquisition or release is under way
  fresh,     \* the letter that thread has mapped and not marked, or unmapped and not unmarked
  \* The calls.
  at,        \* c -> where its adapter is
  run,       \* c -> where the runner of its current process is
  part,      \* c -> what that process is for
  aborted,
  fail,      \* c -> what the call will end with: "ok" or a code
  inner,     \* c -> what its runner will end with
  hold       \* c -> the roots its lease, and those of its runners, have a reference of

machine == <<mapped, marked, taken, child, space>>
alias == <<place, refs, poisoned, busy, fresh>>
threads == <<at, run, part>>
codes == <<fail, inner>>
vars == <<roots, limits, machine, alias, threads, aborted, codes, hold>>

Codes == {"ok", "FAILED", "CANCELLED", "RESIDUAL_DATA"}
Adapters == {"idle", "take", "undo", "enter", "running", "prepare", "tidy", "close", "leave", "over"}
Parts == {"none", "before", "model", "after"}
Runs == {"none", "dirs", "take", "undo", "spawn", "capture", "wait", "kill", "judge", "clean",
         "release", "return"}
Kinds == {"own", "check"}  \* the request, and the final check with an id of its own
Layers == {"outer"} \cup Kinds

(* What the work between the steps may fail with.  Files, programs and      *)
(* answers that are not what they have to be are told apart in the code by  *)
(* words only: they are one "FAILED".                                       *)
CallFails == {"FAILED"}                          \* a request or its roots not of the agreed form
ShapeFails == {"FAILED"}                         \* a binding or the identity of an executable
PathFails == {"FAILED"}                          \* a path that leads elsewhere, or changes
FileFails == PathFails                           \* a file opened, measured, read and opened again
CapabilityFails == {"FAILED"}                    \* a help or feature text that lacks something
AnswerFails == {"FAILED"}                        \* a stream of events without one sound answer
CaptureFails == FileFails \cup {"CANCELLED"}     \* the executable and what it is installed with
BindingFails == ShapeFails \cup CaptureFails     \* the same, compared with the binding
ToolFails == FileFails \cup {"CANCELLED"}        \* the system's own commands
DirectoryFails == PathFails \cup {"CANCELLED"}   \* the request's private directories
ProfileFails == FileFails \cup {"CANCELLED", "RESIDUAL_DATA"}  \* a profile with what is not expected
StatusFails == {"FAILED", "CANCELLED"}           \* the status the program tells of its login
CredentialFails == StatusFails \cup FileFails \cup {"RESIDUAL_DATA"}
ImageFails == FileFails                          \* a request's image, copied with its digest
ArtifactFails == FileFails \cup {"CANCELLED", "RESIDUAL_DATA"}  \* a request's files
TidyFails == PathFails \cup {"CANCELLED", "RESIDUAL_DATA"}  \* them taken away: refused, out of time, failed

Init ==
  /\ \E w \in Workloads:
       /\ roots = w.roots
       /\ limits = [faults |-> w.faults, crashes |-> w.crashes, aborts |-> w.aborts, tampers |-> w.tampers,
                    cleans |-> w.cleans]
       /\ at = [c \in Calls |-> IF c \in w.made THEN "idle" ELSE "over"]
  /\ mapped = [d \in Drives |-> None] /\ marked = [d \in Drives |-> None]
  /\ taken = {} /\ child = [c \in Calls |-> [k \in Kinds |-> "none"]] /\ space = [c \in Calls |-> {}]
  /\ place = [t \in Roots |-> None] /\ refs = [t \in Roots |-> 0]
  /\ poisoned = FALSE /\ busy = None /\ fresh = None
  /\ run = [c \in Calls |-> "none"] /\ part = [c \in Calls |-> "none"]
  /\ aborted = [c \in Calls |-> FALSE]
  /\ fail = [c \in Calls |-> "ok"] /\ inner = [c \in Calls |-> "ok"]
  /\ hold = [c \in Calls |-> [l \in Layers |-> {}]]

-----------------------------------------------------------------------------
(* Words the actions share.  A thread is the adapter ("outer") or the      *)
(* runner ("inner") of a call.                                             *)

Own(c) == IF part[c] = "after" THEN "check" ELSE "own"
Key(c, l) == IF l = "outer" THEN "outer" ELSE Own(c)

At(c, s) == at' = [at EXCEPT ![c] = s]
Run(c, s) == run' = [run EXCEPT ![c] = s]

Where(c, l) == IF l = "outer" THEN at[c] ELSE run[c]
Move(c, l, s) == IF l = "outer" THEN At(c, s) /\ UNCHANGED run ELSE Run(c, s) /\ UNCHANGED at

Fail(c, code) == fail' = [fail EXCEPT ![c] = code]
Inner(c, code) == inner' = [inner EXCEPT ![c] = code]
Code(c, l, code) ==
  IF l = "outer" THEN Fail(c, code) /\ UNCHANGED inner ELSE Inner(c, code) /\ UNCHANGED fail

\* A slip: the last failure is told.
SelectSlip(current, next) == next

\* selectCliProviderFailure: residual data stays, anything else is replaced.
Select(current, next) == IF current = "RESIDUAL_DATA" THEN current ELSE next

\* The signal a thread listens to: that of the call, or, for the process of the
\* final check, that of the deadline it is given.
Signalled(c, l) == IF l = "inner" /\ part[c] = "after" THEN at[c] # "running" ELSE aborted[c]

\* Bound: of the failures that need no cause, one is used up.
NoFault == UNCHANGED limits
Fault == limits.faults > 0 /\ limits' = [limits EXCEPT !.faults = @ - 1]

\* What may stop a thread: its signal, or a failure.
Stops(c, l, code) == IF code = "CANCELLED" THEN Signalled(c, l) /\ NoFault ELSE Fault

\* #revalidateTargets: a check of a lease.  What it finds wrong poisons the
\* manager; the commands it needs may fail without.
Sound == \A t \in roots:
  refs[t] > 0 /\ place[t] # None /\ mapped[place[t]] = t /\ marked[place[t]] = t

Verified == busy = None /\ ~poisoned /\ Sound /\ UNCHANGED poisoned
Refused ==
  /\ busy = None /\ poisoned' = (poisoned \/ ~Sound)
  /\ IF poisoned \/ ~Sound THEN NoFault ELSE Fault

-----------------------------------------------------------------------------
(* acquire(): a reference of each root, the runtime's first; a root without *)
(* a letter is given the first free one, which is then marked.             *)

MyTurn(c, l) == busy \in {None, <<c, l>>}
Taking(c, l) == Where(c, l) = "take" /\ MyTurn(c, l)
Wanted(c, l) == IF "runtime" \in hold[c][Key(c, l)] THEN "install" ELSE "runtime"
FreeLetters == {d \in Drives: mapped[d] = None /\ \A t \in Roots: place[t] # d}
Letter == CHOOSE d \in FreeLetters: \A e \in FreeLetters: d <= e

\* The first assertions of #acquire, and those before each command.
MayTake(c, l) == ~Signalled(c, l) /\ (hold[c][Key(c, l)] = {} => ~poisoned)

Got(c, l, t) ==
  /\ hold' = [hold EXCEPT ![c][Key(c, l)] = @ \cup {t}]
  /\ IF hold[c][Key(c, l)] \cup {t} = roots
     THEN busy' = None /\ Move(c, l, IF l = "outer" THEN "enter" ELSE "spawn")
     ELSE busy' = <<c, l>> /\ UNCHANGED <<at, run>>

ShareLetter(c, l) ==
  /\ Taking(c, l) /\ MayTake(c, l) /\ refs[Wanted(c, l)] > 0
  /\ refs' = [refs EXCEPT ![Wanted(c, l)] = @ + 1]
  /\ Got(c, l, Wanted(c, l))
  /\ UNCHANGED <<roots, limits, machine, place, poisoned, fresh, part, aborted, codes>>

MapLetter(c, l) ==
  /\ Taking(c, l) /\ MayTake(c, l) /\ refs[Wanted(c, l)] = 0
  /\ fresh = None /\ FreeLetters # {}
  /\ mapped' = [mapped EXCEPT ![Letter] = Wanted(c, l)]
  /\ fresh' = Letter /\ busy' = <<c, l>>
  /\ UNCHANGED <<roots, limits, marked, taken, child, space, place, refs, poisoned, threads, aborted,
                 codes, hold>>

MarkLetter(c, l) ==
  /\ Taking(c, l) /\ fresh # None /\ ~Signalled(c, l)
  /\ LET t == Wanted(c, l) IN
     /\ marked' = [marked EXCEPT ![fresh] = t]
     /\ place' = [place EXCEPT ![t] = fresh] /\ refs' = [refs EXCEPT ![t] = 1]
     /\ Got(c, l, t)
  /\ fresh' = None
  /\ UNCHANGED <<roots, limits, mapped, taken, child, space, poisoned, part, aborted, codes>>

\* What an acquisition that stops has to give back is given back in "undo".
StopTaking(c, l, code) ==
  /\ Code(c, l, code)
  /\ Move(c, l, "undo") /\ busy' = <<c, l>> /\ fresh' = None
  /\ UNCHANGED <<roots, taken, child, space, place, refs, part, aborted, hold>>

\* Before a letter is mapped: an abort, a poisoned manager, no list, no letter.
TakeRefused(c, l) ==
  /\ Taking(c, l) /\ fresh = None
  /\ \/ Signalled(c, l) /\ StopTaking(c, l, "CANCELLED") /\ NoFault
     \/ /\ \/ hold[c][Key(c, l)] = {} /\ poisoned /\ NoFault
           \/ refs[Wanted(c, l)] = 0 /\ IF FreeLetters = {} THEN NoFault ELSE Fault
        /\ StopTaking(c, l, "RESIDUAL_DATA")
  /\ UNCHANGED <<mapped, marked, poisoned>>

(* The mapping fails, or is aborted.  Its rollback unmaps the letter; unmap *)
(* refuses a letter that is not mapped, so that what fails before the       *)
(* command took effect poisons the manager.                                *)
MapFails(c, l) ==
  /\ Taking(c, l) /\ refs[Wanted(c, l)] = 0 /\ fresh = None /\ FreeLetters # {}
  /\ (hold[c][Key(c, l)] = {} => ~poisoned)
  /\ (Signalled(c, l) /\ NoFault) \/ Fault
  /\ poisoned' = TRUE
  /\ mapped' \in {mapped, [mapped EXCEPT ![Letter] = Wanted(c, l)]}
  /\ StopTaking(c, l, "RESIDUAL_DATA")
  /\ UNCHANGED marked

(* The marking fails: the letter is unmapped and its marker removed.        *)
MarkFails(c, l) ==
  /\ Taking(c, l) /\ fresh # None
  /\ \/ /\ mapped' = [mapped EXCEPT ![fresh] = None] /\ UNCHANGED <<marked, poisoned>>
        /\ mapped[fresh] # None
        /\ \E code \in {"CANCELLED", "RESIDUAL_DATA"}: Stops(c, l, code) /\ StopTaking(c, l, code)
     \/ /\ Fault
        /\ mapped' \in {mapped, [mapped EXCEPT ![fresh] = None]}
        /\ marked' \in {marked, [marked EXCEPT ![fresh] = Wanted(c, l)]}
        /\ poisoned' = TRUE
        /\ StopTaking(c, l, "RESIDUAL_DATA")

-----------------------------------------------------------------------------
(* release(), and the rollback of an acquisition: the last reference of a   *)
(* root unmaps its letter and removes the marker.                           *)

Giving(c, l) ==
  Where(c, l) \in {"undo", IF l = "outer" THEN "leave" ELSE "release"} /\ MyTurn(c, l)
Given(c, l) == IF "install" \in hold[c][Key(c, l)] THEN "install" ELSE "runtime"

Gone(c, l) == hold' = [hold EXCEPT ![c][Key(c, l)] = @ \ {Given(c, l)}] /\ busy' = <<c, l>>

DropReference(c, l) ==
  /\ Giving(c, l) /\ hold[c][Key(c, l)] # {} /\ refs[Given(c, l)] > 1
  /\ refs' = [refs EXCEPT ![Given(c, l)] = @ - 1]
  /\ Gone(c, l)
  /\ UNCHANGED <<roots, limits, machine, place, poisoned, fresh, threads, aborted, codes>>

\* A slip: the references of other calls are not looked at.
UnmapLetterSlip(c, l) ==
  /\ Giving(c, l) /\ hold[c][Key(c, l)] # {} /\ fresh = None
  /\ LET t == Given(c, l) IN
     /\ refs[t] > 0 /\ mapped[place[t]] = t
     /\ mapped' = [mapped EXCEPT ![place[t]] = None] /\ fresh' = place[t]
  /\ busy' = <<c, l>>
  /\ UNCHANGED <<roots, limits, marked, taken, child, space, place, refs, poisoned, threads, aborted,
                 codes, hold>>

UnmapLetter(c, l) ==
  /\ Giving(c, l) /\ hold[c][Key(c, l)] # {} /\ fresh = None
  /\ LET t == Given(c, l) IN
     /\ refs[t] = 1 /\ mapped[place[t]] = t
     /\ mapped' = [mapped EXCEPT ![place[t]] = None] /\ fresh' = place[t]
  /\ busy' = <<c, l>>
  /\ UNCHANGED <<roots, limits, marked, taken, child, space, place, refs, poisoned, threads, aborted,
                 codes, hold>>

UnmarkLetter(c, l) ==
  /\ Giving(c, l) /\ fresh # None
  /\ LET t == Given(c, l) IN
     /\ marked' = [marked EXCEPT ![fresh] = None]
     /\ place' = [place EXCEPT ![t] = None] /\ refs' = [refs EXCEPT ![t] = 0]
  /\ fresh' = None /\ Gone(c, l)
  /\ UNCHANGED <<roots, limits, mapped, taken, child, space, poisoned, threads, aborted, codes>>

\* A step fails or the deadline passes: the record stays, and the next root's turn comes.
GiveFails(c, l) ==
  /\ Giving(c, l) /\ hold[c][Key(c, l)] # {}
  /\ poisoned' = TRUE /\ fresh' = None /\ Gone(c, l)
  /\ LET t == Given(c, l)
         d == place[t] IN
     /\ IF refs[t] = 1 /\ fresh = None /\ mapped[d] # t THEN NoFault ELSE Fault
     /\ IF refs[t] > 1
        THEN UNCHANGED mapped /\ refs' \in {refs, [refs EXCEPT ![t] = @ - 1]}
        ELSE /\ mapped' \in {mapped, [mapped EXCEPT ![d] = IF mapped[d] = t THEN None ELSE @]}
             /\ UNCHANGED refs
  /\ Code(c, l, "RESIDUAL_DATA")
  /\ UNCHANGED <<roots, marked, taken, child, space, place, threads, aborted>>

\* A slip: the queue of the manager is not handed on.
GiveEndsSlip(c, l) ==
  /\ Giving(c, l) /\ hold[c][Key(c, l)] = {}
  /\ Move(c, l, IF l = "outer" THEN "over" ELSE IF run[c] = "undo" THEN "clean" ELSE "return")
  /\ UNCHANGED <<roots, limits, machine, place, refs, poisoned, busy, fresh, part, aborted, codes, hold>>

\* All is given back: the adapter's call is over, the runner goes on.
GiveEnds(c, l) ==
  /\ Giving(c, l) /\ hold[c][Key(c, l)] = {}
  /\ busy' = None
  /\ Move(c, l, IF l = "outer" THEN "over" ELSE IF run[c] = "undo" THEN "clean" ELSE "return")
  /\ UNCHANGED <<roots, limits, machine, place, refs, poisoned, fresh, part, aborted, codes, hold>>

\* cleanupStale: a marked letter no lease of this process uses.
CleanupStale(d) ==
  /\ limits.cleans /\ busy = None /\ ~poisoned
  /\ marked[d] \in roots /\ \A t \in Roots: place[t] # d
  /\ mapped[d] \in {None, marked[d]}
  /\ mapped' = [mapped EXCEPT ![d] = None] /\ marked' = [marked EXCEPT ![d] = None]
  /\ UNCHANGED <<roots, limits, taken, child, space, alias, threads, aborted, codes, hold>>

-----------------------------------------------------------------------------
(* The runner of one process.                                               *)

StartRun(c, p) ==
  /\ At(c, "running") /\ Run(c, "dirs") /\ part' = [part EXCEPT ![c] = p] /\ Inner(c, "ok")

RunGoes(c, next) == Run(c, next) /\ UNCHANGED inner
RunFails(c, code, next) == Inner(c, code) /\ Run(c, next)

PrepareRequest(c) ==
  /\ run[c] = "dirs"
  /\ \/ /\ Stops(c, "inner", "CANCELLED") /\ RunFails(c, "CANCELLED", "return") /\ UNCHANGED space
     \/ /\ \E code \in DirectoryFails: Stops(c, "inner", code) /\ RunFails(c, code, "clean")
        /\ space' \in {space, [space EXCEPT ![c] = @ \cup {Own(c)}]}
     \/ /\ ~Signalled(c, "inner") /\ NoFault /\ RunGoes(c, "take")
        /\ space' = [space EXCEPT ![c] = @ \cup {Own(c)}]
  /\ UNCHANGED <<roots, mapped, marked, taken, child, alias, at, part, aborted, fail, hold>>

\* The child is started under a verified lease; one without a pid is not settled.
Spawn(c) ==
  /\ run[c] = "spawn"
  /\ \/ /\ \E code \in BindingFails \cup ToolFails: Stops(c, "inner", code) /\ RunFails(c, code, "clean")
        /\ UNCHANGED <<child, poisoned>>
     \/ Refused /\ RunFails(c, "RESIDUAL_DATA", "clean") /\ UNCHANGED child
     \/ /\ Verified /\ ~Signalled(c, "inner") /\ Fault
        /\ RunFails(c, "RESIDUAL_DATA", "return") /\ UNCHANGED child
     \/ /\ Verified /\ ~Signalled(c, "inner") /\ NoFault
        /\ child' = [child EXCEPT ![c][Own(c)] = "alive"] /\ RunGoes(c, "capture")
  /\ UNCHANGED <<roots, mapped, marked, taken, space, place, refs, busy, fresh, at, part, aborted,
                 fail, hold>>

Alive(c) == child[c][Own(c)] = "alive"

\* Residual data with a live child: nothing of the lease or the directories is touched.
Unresolved(c) == RunFails(c, "RESIDUAL_DATA", IF Alive(c) THEN "return" ELSE "clean")

\* The identity of the child, then its input; the model's prompt needs it alive.
CaptureIdentity(c) ==
  /\ run[c] = "capture"
  /\ \/ Unresolved(c) /\ (IF Alive(c) THEN Fault ELSE NoFault)
     \/ NoFault /\ IF ~Alive(c) /\ part[c] = "model" THEN RunFails(c, "FAILED", "clean")
                    ELSE RunGoes(c, "wait")
  /\ UNCHANGED <<roots, machine, alias, at, part, aborted, fail, hold>>

\* The first of the child's close, its errors, the timer and the signal.
AwaitOutcome(c) ==
  /\ run[c] = "wait"
  /\ \/ ~Alive(c) /\ NoFault /\ RunGoes(c, IF part[c] = "model" THEN "judge" ELSE "clean")
     \/ /\ ~Alive(c) /\ (Fault \/ (Signalled(c, "inner") /\ NoFault))
        /\ \E code \in {"FAILED", "RESIDUAL_DATA"}: RunFails(c, code, "clean")
     \/ Alive(c) /\ Stops(c, "inner", "CANCELLED") /\ RunFails(c, "CANCELLED", "kill")
     \/ Alive(c) /\ NoFault /\ RunFails(c, "FAILED", "kill")
  /\ UNCHANGED <<roots, machine, alias, at, part, aborted, fail, hold>>

\* taskkill, after the identity has been captured again.
Terminate(c) ==
  /\ run[c] = "kill"
  /\ \/ /\ Alive(c) /\ child' = [child EXCEPT ![c][Own(c)] = "gone"]
        /\ NoFault /\ RunGoes(c, "clean")
     \/ Unresolved(c) /\ (IF Alive(c) THEN Fault ELSE NoFault) /\ UNCHANGED child
  /\ UNCHANGED <<roots, mapped, marked, taken, space, alias, at, part, aborted, fail, hold>>

PostValidate(c) ==
  /\ run[c] = "judge"
  /\ \/ Verified /\ ~Signalled(c, "inner") /\ NoFault /\ RunGoes(c, "clean")
     \/ Refused /\ RunFails(c, "RESIDUAL_DATA", "clean")
     \/ /\ \E code \in CaptureFails: Stops(c, "inner", code) /\ RunFails(c, code, "clean")
        /\ UNCHANGED poisoned
  /\ UNCHANGED <<roots, machine, place, refs, busy, fresh, at, part, aborted, fail, hold>>

(* The lease is checked, the directories removed, the binding and the tools *)
(* checked; a lease found invalid is not released.                          *)
CleanRequest(c) ==
  /\ run[c] = "clean"
  /\ LET leased == hold[c][Own(c)] # {} IN
     \/ /\ IF leased THEN Verified ELSE UNCHANGED poisoned
        /\ \/ /\ space' = [space EXCEPT ![c] = @ \ {Own(c)}]
              /\ \/ UNCHANGED inner /\ NoFault
                 \/ Inner(c, Select(inner[c], "FAILED")) /\ Fault
           \/ /\ space' \in {space, [space EXCEPT ![c] = @ \ {Own(c)}]}
              /\ Inner(c, "RESIDUAL_DATA") /\ Fault
        /\ Run(c, IF leased THEN "release" ELSE "return")
     \/ /\ leased /\ Refused
        /\ space' \in {space, [space EXCEPT ![c] = @ \ {Own(c)}]}
        /\ RunFails(c, "RESIDUAL_DATA", "return")
  /\ UNCHANGED <<roots, mapped, marked, taken, child, place, refs, busy, fresh, at, part, aborted,
                 fail, hold>>

\* The adapter no longer waits.
ReturnLate(c) ==
  /\ run[c] = "return" /\ at[c] # "running"
  /\ Run(c, "none")
  /\ UNCHANGED <<roots, limits, machine, alias, at, part, aborted, codes, hold>>

-----------------------------------------------------------------------------
(* The adapter.                                                             *)

Goes(c, code, next) == Stops(c, "outer", code) /\ Fail(c, code) /\ At(c, next)

Begin(c) ==
  /\ at[c] = "idle"
  /\ \/ ~aborted[c] /\ At(c, "take") /\ UNCHANGED fail /\ NoFault
     \/ \E code \in CallFails \cup BindingFails: Goes(c, code, "over")
  /\ UNCHANGED <<roots, machine, alias, run, part, aborted, inner, hold>>

(* The lease, the binding and the profile are checked; without a sound      *)
(* lease the call does no more than check the binding again.                *)
EnterBracket(c) ==
  /\ at[c] = "enter"
  /\ \/ /\ Refused /\ \E code \in {"CANCELLED", "RESIDUAL_DATA", "FAILED"}:
             (code = "CANCELLED" => aborted[c]) /\ Fail(c, code) /\ At(c, "leave")
        /\ UNCHANGED <<run, part, inner>>
     \/ /\ Verified /\ \E code \in BindingFails \cup ProfileFails: Goes(c, code, "close")
        /\ UNCHANGED <<run, part, inner>>
     \/ ~aborted[c] /\ Verified /\ StartRun(c, "before") /\ UNCHANGED fail /\ NoFault
  /\ UNCHANGED <<roots, machine, place, refs, busy, fresh, aborted, hold>>

\* A process has ended: the lease is checked once more, and the call's signal.
Returned(c, p) ==
  /\ run[c] = "return" /\ at[c] = "running" /\ part[c] = p
  /\ busy = None /\ Run(c, "none") /\ poisoned' = (poisoned \/ ~Sound)
  /\ UNCHANGED <<roots, limits, machine, place, refs, busy, fresh, part, aborted, inner, hold>>

Outcome(c) ==
  IF aborted[c] THEN Select(inner[c], "CANCELLED")
  ELSE IF poisoned \/ ~Sound THEN "RESIDUAL_DATA" ELSE inner[c]

AfterCapabilities(c) ==
  /\ Returned(c, "before")
  /\ Fail(c, Outcome(c)) /\ At(c, IF Outcome(c) = "ok" THEN "prepare" ELSE "close")

(* The credential, the images and the request's artifacts, then the model's *)
(* process.  What fails in the artifacts takes back what it wrote; when that *)
(* fails its own code is told, which need not be residual data              *)
(* (prepareRequestAtomic).                                                  *)
PrepareModel(c) ==
  /\ at[c] = "prepare"
  /\ \/ /\ \E code \in CapabilityFails \cup CredentialFails \cup ImageFails \cup ArtifactFails:
             /\ Goes(c, code, "close")
             /\ space' \in {space, IF code = "RESIDUAL_DATA" THEN [space EXCEPT ![c] = @ \cup {"own"}]
                                   ELSE space}
        /\ UNCHANGED <<run, part, inner, poisoned>>
     \/ /\ Fault /\ \E code \in TidyFails: Fail(c, code) /\ At(c, "close")
        /\ space' = [space EXCEPT ![c] = @ \cup {"kept"}]
        /\ UNCHANGED <<run, part, inner, poisoned>>
     \/ /\ Refused /\ At(c, "close")
        /\ \/ Fail(c, "RESIDUAL_DATA") /\ space' \in {space, [space EXCEPT ![c] = @ \cup {"own"}]}
           \/ aborted[c] /\ Fail(c, "CANCELLED") /\ UNCHANGED space
        /\ UNCHANGED <<run, part, inner>>
     \/ /\ ~aborted[c] /\ Verified /\ StartRun(c, "model") /\ UNCHANGED fail /\ NoFault
        /\ space' = [space EXCEPT ![c] = @ \cup {"own"}]
  /\ UNCHANGED <<roots, mapped, marked, taken, child, place, refs, busy, fresh, aborted, hold>>

AfterModel(c) ==
  /\ Returned(c, "model")
  /\ Fail(c, Outcome(c)) /\ At(c, IF Outcome(c) = "RESIDUAL_DATA" THEN "close" ELSE "tidy")

(* The artifacts are cleaned once more, and whatever that fails with, it is  *)
(* residual data that is told; then the answer is read.                     *)
TidyRequest(c) ==
  /\ at[c] = "tidy"
  /\ \/ /\ space' = [space EXCEPT ![c] = @ \ {"own"}]
        /\ IF aborted[c] THEN Goes(c, "CANCELLED", "close")
           ELSE \/ At(c, "close") /\ UNCHANGED fail /\ NoFault
                \/ fail[c] = "ok" /\ \E code \in AnswerFails: Goes(c, code, "close")
     \/ /\ Goes(c, "RESIDUAL_DATA", "close")
        /\ space' \in {space, [space EXCEPT ![c] = @ \ {"own"}]}
  /\ UNCHANGED <<roots, mapped, marked, taken, child, alias, run, part, aborted, inner, hold>>

\* The profile and the credential are checked again, then the capabilities.
CloseBracket(c) ==
  /\ at[c] = "close"
  /\ \/ Verified /\ StartRun(c, "after") /\ UNCHANGED fail /\ NoFault
     \/ /\ Verified /\ StartRun(c, "after") /\ Fault
        /\ \E code \in (ProfileFails \cup CredentialFails) \ {"CANCELLED"}: Fail(c, Select(fail[c], code))
     \/ Refused /\ Fail(c, "RESIDUAL_DATA") /\ At(c, "leave") /\ UNCHANGED <<run, part, inner>>
  /\ UNCHANGED <<roots, machine, place, refs, busy, fresh, aborted, hold>>

AfterCheck(c) ==
  /\ Returned(c, "after")
  /\ LET checked == IF inner[c] = "ok" THEN fail[c] ELSE Select(fail[c], inner[c]) IN
     \E code \in IF poisoned \/ ~Sound THEN {"RESIDUAL_DATA"} ELSE {checked, Select(checked, "FAILED")}:
       Fail(c, code) /\ At(c, "leave")

\* The deadline of the final check: the adapter goes on, the runner is signalled.
CheckOverdue(c) ==
  /\ at[c] = "running" /\ part[c] = "after" /\ run[c] # "return"
  /\ Fail(c, "RESIDUAL_DATA") /\ At(c, "leave")
  /\ Fault
  /\ UNCHANGED <<roots, machine, alias, run, part, aborted, inner, hold>>

-----------------------------------------------------------------------------
(* From outside.                                                            *)
ChildExits(c, k) ==
  /\ child[c][k] = "alive"
  /\ child' = [child EXCEPT ![c][k] = "gone"]
  /\ UNCHANGED <<roots, limits, mapped, marked, taken, space, alias, threads, aborted, codes, hold>>

Abort(c) ==
  /\ limits.aborts > 0 /\ limits' = [limits EXCEPT !.aborts = @ - 1]
  /\ at[c] # "over" /\ ~aborted[c]
  /\ aborted' = [aborted EXCEPT ![c] = TRUE]
  /\ UNCHANGED <<roots, machine, alias, threads, codes, hold>>

\* A letter is taken from the program by someone else.
Tamper(d) ==
  /\ limits.tampers > 0 /\ limits' = [limits EXCEPT !.tampers = @ - 1]
  /\ mapped[d] # None
  /\ mapped' = [mapped EXCEPT ![d] = None] /\ taken' = taken \cup {d}
  /\ UNCHANGED <<roots, marked, child, space, alias, threads, aborted, codes, hold>>

\* The program ends: letters, markers, directories and children stay.
Crash ==
  /\ limits.crashes > 0 /\ limits' = [limits EXCEPT !.crashes = @ - 1]
  /\ place' = [t \in Roots |-> None] /\ refs' = [t \in Roots |-> 0]
  /\ poisoned' = FALSE /\ busy' = None /\ fresh' = None
  /\ LET cut(c) == at[c] \notin {"idle", "over"} \/ run[c] # "none" IN
     /\ at' = [c \in Calls |-> IF at[c] = "idle" THEN "idle" ELSE "over"]
     /\ fail' = [c \in Calls |-> IF cut(c) THEN "lost" ELSE fail[c]]
  /\ run' = [c \in Calls |-> "none"]
  /\ hold' = [c \in Calls |-> [l \in Layers |-> {}]]
  /\ UNCHANGED <<roots, machine, part, aborted, inner>>

LeaseStep(c, l) ==
  \/ ShareLetter(c, l) \/ MapLetter(c, l) \/ MarkLetter(c, l)
  \/ TakeRefused(c, l) \/ MapFails(c, l) \/ MarkFails(c, l)
  \/ DropReference(c, l) \/ UnmapLetter(c, l) \/ UnmarkLetter(c, l)
  \/ GiveFails(c, l) \/ GiveEnds(c, l)

RunnerStep(c) ==
  \/ PrepareRequest(c) \/ Spawn(c) \/ CaptureIdentity(c) \/ AwaitOutcome(c) \/ Terminate(c)
  \/ PostValidate(c) \/ CleanRequest(c) \/ ReturnLate(c) \/ LeaseStep(c, "inner")

AdapterStep(c) ==
  \/ Begin(c) \/ EnterBracket(c) \/ AfterCapabilities(c) \/ PrepareModel(c) \/ AfterModel(c)
  \/ TidyRequest(c) \/ CloseBracket(c) \/ AfterCheck(c) \/ LeaseStep(c, "outer")

Next ==
  \/ \E c \in Calls: RunnerStep(c) \/ AdapterStep(c) \/ CheckOverdue(c) \/ Abort(c)
  \/ \E c \in Calls, k \in Kinds: ChildExits(c, k)
  \/ \E d \in Drives: Tamper(d) \/ CleanupStale(d)
  \/ Crash

(* Commands and files answer or time out; a child, a user and the deadline  *)
(* owe nothing.                                                             *)
Spec ==
  /\ Init /\ [][Next]_vars
  /\ \A c \in Calls: WF_vars(RunnerStep(c)) /\ WF_vars(AdapterStep(c))

-----------------------------------------------------------------------------
TypeOK ==
  /\ roots \in {{"runtime"}, Roots}
  /\ limits \in [faults: Nat, crashes: Nat, aborts: Nat, tampers: Nat, cleans: BOOLEAN]
  /\ mapped \in [Drives -> Roots \cup {None}] /\ marked \in [Drives -> Roots \cup {None}]
  /\ taken \subseteq Drives /\ child \in [Calls -> [Kinds -> {"none", "alive", "gone"}]] 
  /\ space \in [Calls -> SUBSET (Kinds \cup {"kept"})]
  /\ place \in [Roots -> Drives \cup {None}] /\ refs \in [Roots -> Nat]
  /\ poisoned \in BOOLEAN /\ busy \in (Calls \X Threads) \cup {None} /\ fresh \in Drives \cup {None}
  /\ at \in [Calls -> Adapters] /\ run \in [Calls -> Runs] /\ part \in [Calls -> Parts]
  /\ aborted \in [Calls -> BOOLEAN]
  /\ fail \in [Calls -> Codes \cup {"lost"}] /\ inner \in [Calls -> Codes]
  /\ hold \in [Calls -> [Layers -> SUBSET Roots]]

(* A process that may be alive finds what it was started under: its letters *)
(* stand for the program's roots and are marked, and its directory is       *)
(* there; this also holds for one its call had to leave behind, and for one *)
(* that outlives the program unless stale letters are cleaned, or others    *)
(* have removed letters, which are then given out again                     *)
(* (nodeCliProcessRunner.ts:222-292, windowsWorkspaceAlias.ts:521-525).     *)
UsersAreMapped ==
  \A c \in Calls, k \in Kinds: child[c][k] = "alive" =>
    /\ k \in space[c]
    /\ \/ hold[c][k] = {} /\ (limits.cleans \/ taken # {})
       \/ \A t \in roots: \E d \in Drives: marked[d] = t /\ (mapped[d] = t \/ d \in taken)

(* A call that ends with anything but residual data, by its answer or by    *)
(* its error, has left no process and no reference, and no directory unless *)
(* it failed and the clean-up of what it had prepared was refused           *)
(* (nodeCodexManagedArtifacts.ts:157-158), which the code does not tell; and *)
(* when no call has, no letter and no marker either                         *)
(* (nodeCliProcessRunner.ts:240-306, codexCliAdapter.ts:360-455).           *)
Ended(c) == at[c] \in {"idle", "over"} /\ run[c] = "none"
Clean(c) == Ended(c) /\ fail[c] \notin {"RESIDUAL_DATA", "lost"}

LeftoversAreTold ==
  /\ \A c \in Calls: at[c] = "over" /\ run[c] # "none" => fail[c] = "RESIDUAL_DATA"
  /\ \A c \in Calls: Clean(c) =>
       /\ \A k \in Kinds: child[c][k] # "alive" /\ k \notin space[c]
       /\ "kept" \in space[c] => fail[c] # "ok"
       /\ hold[c] = [l \in Layers |-> {}]
  /\ (\A c \in Calls: Clean(c)) => \A d \in Drives: mapped[d] = None /\ marked[d] = None

(* Every call that begins ends, and so does each of its processes' runners, *)
(* whatever fails and whoever waits for the alias manager                   *)
(* (windowsWorkspaceAlias.ts:732-739, cliFileIntegrity.ts:40-60).           *)
CallsEnd == \A c \in Calls: at[c] # "idle" ~> at[c] = "over" /\ run[c] = "none"

(* A call that is cancelled while nothing fails leaves the manager usable   *)
(* for the calls after it, whatever it was doing when the signal came       *)
(* (windowsWorkspaceAlias.ts:608-626).                                      *)
CancellationIsClean == ~poisoned
=============================================================================
