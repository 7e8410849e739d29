-------------------------- MODULE AntigravityCall --------------------------
(***************************************************************************)
(* One call of the adapter of the Antigravity command line                 *)
(* (antigravityCliAdapter.ts) with the registry of its operations          *)
(* (antigravityOperationRegistry.ts) and the files it manages              *)
(* (nodeAntigravityManagedArtifacts.ts), and the answer a call gets, of    *)
(* this provider or of another one: for the others the call is only its    *)
(* answer, what is around it is in CliCall and ApiCall.                    *)
(*                                                                         *)
(* A call takes a lease of a drive letter, writes the profile that denies  *)
(* every tool, asks the program four times for its texts and its settings, *)
(* looks at the credential, and then has the model answer.  Every process  *)
(* has a request directory, and is followed by its removal; the profile is *)
(* looked at again behind each of the two rounds, and the binding and the  *)
(* lease behind everything.  An action ends at an await; the check of the  *)
(* lease before and behind a piece of work is part of its action.          *)
(***************************************************************************)
EXTENDS ProviderAnswers

CONSTANTS
  Workloads   \* the provider, what is asked of it, and the bounds: the items of an answer,
              \* those behind the one with which it can no longer be a sound one, the
              \* failures, and what others do to the lease and the profile

Operations == {"inspect", "models", "probe", "execute"}
Profiles == {"none", "whole", "other", "cluttered"}

\* The providers whose models are read from a list; those of the other command lines
\* are known beforehand.
WithLists == {"antigravity_cli"} \cup Interfaces

ASSUME AntigravityAssumption ==
  /\ Workloads \subseteq [provider: AllProviders, op: Operations, items: Nat, strays: Nat,
                          faults: Nat, tampers: Nat]
  /\ \A w \in Workloads : w.op = "models" => w.provider \in WithLists

VARIABLES
  provider, op,
  limits,
  \* The answer.
  items,     \* what has come of the answer of the process under way
  ending,    \* how it ended
  verdict,   \* what the parser said of the model's answer
  \* The adapter.
  at,        \* where the call is
  part,      \* the process of the round: one of Local, or "model"
  fail,      \* what the call will end with
  \* The registry.
  aborted,   \* the operation's signal
  attached,  \* the runner of the child operation is known to the registry
  told,      \* that runner has been told to cancel
  \* The machine.
  lease,     \* "none", "taken" or "verified"
  sound,     \* the drive letter is what the lease says
  profile,   \* the directory of the profile
  dirs,      \* the directories of the child's request
  process    \* "none", "running", or "stray" when the runner has given it up

answer == <<items, ending, verdict>>
adapter == <<at, part, fail>>
registry == <<aborted, attached, told>>
machine == <<lease, sound, profile, dirs, process>>
vars == <<provider, op, limits, answer, adapter, registry, machine>>

Local == <<"help", "modelsHelp", "permissions", "config">>
Bracketed == provider = "antigravity_cli"

Init ==
  /\ \E w \in Workloads :
       /\ provider = w.provider /\ op = w.op
       /\ limits = [items |-> w.items, strays |-> w.strays, faults |-> w.faults, tampers |-> w.tampers]
       /\ at = IF w.provider = "antigravity_cli" THEN "idle" ELSE "running"
       /\ part = IF w.provider = "antigravity_cli" THEN "none" ELSE "model"
  /\ items = <<>> /\ ending = "none" /\ verdict = "none" /\ fail = "ok"
  /\ aborted = FALSE /\ attached = FALSE /\ told = FALSE
  /\ lease = "none" /\ sound = TRUE /\ dirs = FALSE /\ process = "none"
  /\ profile \in IF Bracketed THEN Profiles ELSE {"none"}

-----------------------------------------------------------------------------
(* Words the actions share.                                                *)

At(s) == at' = s

\* Bound: of the failures that need no cause, one is used up.
Fault == limits.faults > 0 /\ limits' = [limits EXCEPT !.faults = @ - 1]

\* A piece of work under the operation's signal goes on, or stops with one of the
\* codes: cancelled when the signal is aborted, residual data when the lease is not
\* what it says, another one for no cause.
Goes == ~aborted /\ sound /\ UNCHANGED limits
Stops(code, codes) ==
  \/ code = "CANCELLED" /\ aborted /\ UNCHANGED limits
  \/ code = "RESIDUAL_DATA" /\ ~aborted /\ ~sound /\ UNCHANGED limits
  \/ code \in codes /\ Fault

\* The same for the clean-up, which has a signal of its own: the deadline of 15
\* seconds is one of the failures.
Cleans == sound /\ UNCHANGED limits
CleanFails == IF sound THEN Fault ELSE UNCHANGED limits

\* What a bug would make of it: the last failure is told.
SelectLast(current, next) == next

\* selectCliProviderFailure: residual data stays, anything else is replaced.
Select(current, next) == IF current = "RESIDUAL_DATA" THEN current ELSE next

\* assertActive: a cancelled operation has this code whatever it had before.
Active(code) == IF aborted THEN "CANCELLED" ELSE code

BindingFails == {"UNSAFE_VERSION", "CLI_CHANGED"}
FileFails == {"UNSAFE_VERSION", "RESIDUAL_DATA"}

-----------------------------------------------------------------------------
(* The bracket around the processes.                                       *)

\* What a call may be refused for before it begins.
Refusals ==
  (IF op = "execute" THEN {"SHARED_CREDENTIAL_CONSENT_REQUIRED", "DATA_RETENTION_CONSENT_REQUIRED"}
   ELSE {}) \cup
  (IF op \in {"probe", "execute"} THEN {"MODEL_INCOMPATIBLE"} ELSE {}) \cup {"EXECUTION_FAILED"}

BeginRefused ==
  /\ at = "idle" /\ At("over")
  /\ \/ aborted /\ fail' = "CANCELLED" /\ UNCHANGED limits
     \/ Fault /\ fail' \in Refusals
  /\ UNCHANGED <<provider, op, answer, part, registry, machine>>

Begin ==
  /\ at = "idle" /\ ~aborted /\ At("bind")
  /\ UNCHANGED <<provider, op, limits, answer, part, fail, registry, machine>>

\* #currentBinding, or the inspection: nothing is taken yet, so that the call ends.
Bind ==
  /\ at = "bind" /\ ~aborted /\ At("acquire")
  /\ UNCHANGED <<provider, op, limits, answer, part, fail, registry, machine>>

BindFails ==
  /\ at = "bind" /\ At("over")
  /\ \/ aborted /\ fail' = "CANCELLED" /\ UNCHANGED limits
     \/ Fault /\ fail' \in BindingFails \cup {"NOT_READY"}
  /\ UNCHANGED <<provider, op, answer, part, registry, machine>>

\* The lease may come although the call has been cancelled: it is given back unverified.
Acquire ==
  /\ at = "acquire" /\ lease' = "taken"
  /\ IF aborted THEN fail' = "CANCELLED" /\ At("final") ELSE At("verify") /\ UNCHANGED fail
  /\ UNCHANGED <<provider, op, limits, answer, part, registry, sound, profile, dirs, process>>

AcquireFails ==
  /\ at = "acquire" /\ At("final")
  /\ \E code \in {"CANCELLED", "EXECUTION_FAILED", "RESIDUAL_DATA"} :
       /\ \/ code = "CANCELLED" /\ aborted /\ UNCHANGED limits
          \/ code # "CANCELLED" /\ Fault
       /\ fail' = code
  /\ UNCHANGED <<provider, op, answer, part, registry, machine>>

VerifyLease ==
  /\ at = "verify" /\ Goes
  /\ lease' = "verified" /\ At("open") /\ part' = Local[1]
  /\ UNCHANGED <<provider, op, answer, fail, registry, sound, profile, dirs, process>>

VerifyFails ==
  /\ at = "verify" /\ At("final")
  /\ \E code \in {"CANCELLED", "RESIDUAL_DATA"} : Stops(code, {"RESIDUAL_DATA"}) /\ fail' = code
  /\ UNCHANGED <<provider, op, answer, part, registry, machine>>

\* #withProfile: the profile is written beside the old one, renamed and looked at.
OpenProfile ==
  /\ at = "open" /\ Goes /\ profile # "cluttered"
  /\ profile' = "whole" /\ At("prepare")
  /\ UNCHANGED <<provider, op, answer, part, fail, registry, lease, sound, dirs, process>>

\* A failure behind the rename takes the renamed file away again, and one that
\* cannot be undone leaves a file beside it.
OpenFails ==
  /\ at = "open" /\ At("close")
  /\ \E code \in {"CANCELLED"} \cup FileFails :
       /\ \/ Stops(code, FileFails)
          \/ code = "RESIDUAL_DATA" /\ ~aborted /\ profile = "cluttered" /\ UNCHANGED limits
       /\ fail' = code
       /\ profile' \in {profile} \cup
            (IF sound /\ profile # "cluttered"
             THEN {"none"} \cup (IF code = "RESIDUAL_DATA" THEN {"cluttered"} ELSE {}) ELSE {})
  /\ UNCHANGED <<provider, op, answer, part, registry, lease, sound, dirs, process>>

\* #run, #prepareArtifacts: the child is entered and its directories are made.
Prepare ==
  /\ at = "prepare" /\ Goes
  /\ dirs' = TRUE /\ At("start")
  /\ UNCHANGED <<provider, op, answer, part, fail, registry, lease, sound, profile, process>>

\* What was made is removed, or is told; then the operation's own state is asked.
PrepareFails ==
  /\ at = "prepare" /\ At("close")
  /\ \E code \in {"CANCELLED"} \cup FileFails :
       /\ Stops(code, FileFails)
       /\ fail' = Active(code)
       /\ dirs' \in IF code = "RESIDUAL_DATA" THEN BOOLEAN ELSE {FALSE}
  /\ UNCHANGED <<provider, op, answer, part, registry, lease, sound, profile, process>>

\* The clean-up of a cancelled preparation may fail in its turn.
PrepareLeft ==
  /\ at = "prepare" /\ aborted /\ CleanFails /\ At("close")
  /\ fail' = Active("RESIDUAL_DATA") /\ dirs' = TRUE
  /\ UNCHANGED <<provider, op, answer, part, registry, lease, sound, profile, process>>

\* #runReserved: profile and directories are looked at, the runner is made known,
\* and the process starts.
Start ==
  /\ at = "start" /\ Goes /\ profile = "whole"
  /\ attached' = TRUE /\ process' = "running" /\ At("running")
  /\ items' = <<>> /\ ending' = "none"
  /\ UNCHANGED <<provider, op, verdict, part, fail, aborted, told, lease, sound, profile, dirs>>

StartFails ==
  /\ at = "start" /\ At("clean")
  /\ \E code \in {"CANCELLED"} \cup FileFails :
       /\ \/ Stops(code, FileFails)
          \/ ~aborted /\ UNCHANGED limits /\ code = "RESIDUAL_DATA" /\ profile \in {"none", "cluttered"}
          \/ ~aborted /\ UNCHANGED limits /\ code = "UNSAFE_VERSION" /\ profile = "other"
       /\ fail' = code
  /\ UNCHANGED <<provider, op, answer, part, registry, machine>>

-----------------------------------------------------------------------------
(* The answer.                                                             *)

Listing == part = "model" /\ op = "models"
Answers == IF Listing THEN ListKinds(provider) ELSE Kinds[provider]
Ended ==
  IF part # "model" THEN Endings(provider) \cup {"odd"}
  ELSE IF Listing THEN ListEndings(provider) ELSE Endings(provider)

\* One more item of the answer of the model.
Receive(k) ==
  /\ at = "running" /\ part = "model"
  /\ limits.items > 0 /\ limits' = [limits EXCEPT !.items = @ - 1]
  /\ Listing \/ Viable(provider, SubSeq(items, 1, Len(items) - limits.strays))
  /\ items' = Append(items, k)
  /\ UNCHANGED <<provider, op, ending, verdict, adapter, registry, machine>>

\* What is made of an answer that has come to its end.
Verdict(e) == IF Listing THEN Listed(provider, items, e) ELSE Judged(provider, items, e)

\* The process ends by itself, and its runner hands over what it wrote.
Finish(e) ==
  /\ at = "running" /\ Bracketed /\ process = "running" /\ sound
  /\ process' = "none" /\ ending' = e /\ At("clean")
  /\ fail' = Active("ok") /\ attached' = FALSE
  /\ UNCHANGED <<provider, op, limits, items, verdict, part, aborted, told, lease, sound, profile, dirs>>

\* The runner has stopped the process, or given it up.
RunFails ==
  /\ at = "running" /\ Bracketed
  /\ \E code \in {"CANCELLED", "TIMEOUT", "EXECUTION_FAILED", "RESIDUAL_DATA"} :
       /\ \/ Stops(code, {"TIMEOUT", "EXECUTION_FAILED"})
          \/ code = "RESIDUAL_DATA" /\ Fault
       /\ fail' = code
       /\ process' \in IF code = "RESIDUAL_DATA" THEN {"none", "stray"} ELSE {"none"}
  /\ attached' = FALSE /\ At("clean")
  /\ UNCHANGED <<provider, op, answer, part, aborted, told, lease, sound, profile, dirs>>

\* The answer of one of the other providers.
Respond(e) ==
  /\ at = "running" /\ ~Bracketed
  /\ ending' = e /\ verdict' = Verdict(e) /\ fail' = Verdict(e) /\ At("over")
  /\ UNCHANGED <<provider, op, limits, items, part, registry, machine>>

-----------------------------------------------------------------------------
(* What is behind a process.                                               *)

\* #assertHelp: a help text is the one of the version, or the version is not.
HelpVerdict(e) ==
  LET code == Success(provider, e)
  IN  IF code = "CANCELLED" THEN code ELSE Must(code = "ok" /\ e # "odd", "UNSAFE_VERSION")

\* parseAntigravityPermissions, parseAntigravityConfiguration: every tool is denied,
\* and the profile is the managed one.
SettingsVerdict(e) == Stop(<<Success(provider, e), Must(e # "odd", "UNSAFE_VERSION")>>)

LocalVerdict(p, e) == IF p \in {"help", "modelsHelp"} THEN HelpVerdict(e) ELSE SettingsVerdict(e)

\* Which process comes next in the round, and what the one before has come to.
Next4(code) ==
  LET n == CHOOSE i \in 1..4 : Local[i] = part IN
  IF code = "ok" /\ n < 4 THEN At("prepare") /\ part' = Local[n + 1] ELSE At("close") /\ UNCHANGED part

\* The directories are removed; the outcome of the process is told behind that.
Clean ==
  /\ at = "clean" /\ Cleans /\ dirs' = FALSE
  /\ fail' = LET code == Active(fail)
             IN  IF code = "ok" /\ part # "model" THEN LocalVerdict(part, ending) ELSE code
  /\ IF part = "model" THEN At("close") /\ UNCHANGED part ELSE Next4(fail')
  /\ UNCHANGED <<provider, op, answer, registry, lease, sound, profile, process>>

CleanStops ==
  /\ at = "clean" /\ CleanFails /\ dirs' \in BOOLEAN
  /\ fail' = "RESIDUAL_DATA" /\ At("close")
  /\ UNCHANGED <<provider, op, answer, part, registry, lease, sound, profile, process>>

\* The end of #withProfile; the round's own failure comes behind that of the profile.
CloseProfile ==
  /\ at = "close" /\ Cleans /\ profile = "whole"
  /\ At(IF fail # "ok" THEN "final" ELSE IF part = "model" THEN "judge" ELSE "credential")
  /\ UNCHANGED <<provider, op, answer, part, fail, registry, machine>>

CloseFails ==
  /\ at = "close" /\ At("final")
  /\ profile = "whole" => CleanFails
  /\ profile # "whole" => UNCHANGED limits
  /\ fail' = "RESIDUAL_DATA"
  /\ UNCHANGED <<provider, op, answer, part, registry, machine>>

Judge ==
  /\ at = "judge" /\ verdict' = Verdict(ending) /\ fail' = verdict'
  /\ At(IF verdict' = "ok" THEN "credential" ELSE "final")
  /\ UNCHANGED <<provider, op, limits, items, ending, part, registry, machine>>

\* #inspectCredential, before the model is asked and behind its answer.
Credential ==
  /\ at = "credential" /\ Goes
  /\ IF part = "model" \/ op = "inspect" THEN At("final") /\ UNCHANGED fail
     ELSE \/ At("rebind") /\ UNCHANGED fail
          \/ At("final") /\ fail' = "AUTH_REQUIRED"
  /\ UNCHANGED <<provider, op, answer, part, registry, machine>>

CredentialFails ==
  /\ at = "credential" /\ At("final")
  /\ \E code \in {"CANCELLED", "UNSAFE_VERSION", "RESIDUAL_DATA"} :
       Stops(code, {"UNSAFE_VERSION", "RESIDUAL_DATA"}) /\ fail' = code
  /\ UNCHANGED <<provider, op, answer, part, registry, machine>>

Rebind ==
  /\ at = "rebind" /\ Goes /\ At("open") /\ part' = "model"
  /\ UNCHANGED <<provider, op, answer, fail, registry, machine>>

RebindFails ==
  /\ at = "rebind" /\ At("final")
  /\ \E code \in {"CANCELLED", "RESIDUAL_DATA"} \cup BindingFails : Stops(code, BindingFails) /\ fail' = code
  /\ UNCHANGED <<provider, op, answer, part, registry, machine>>

\* The last look at the binding, and at a lease that was verified.
FinalCheck ==
  /\ at = "final" /\ (lease = "verified" => sound)
  /\ At(IF lease = "none" THEN "leave" ELSE "release")
  /\ UNCHANGED <<provider, op, limits, answer, part, fail, registry, machine>>

FinalFails ==
  /\ at = "final"
  /\ \E code \in BindingFails \cup {"RESIDUAL_DATA"} :
       /\ \/ code = "RESIDUAL_DATA" /\ lease = "verified" /\ ~sound /\ UNCHANGED limits
          \/ Fault
       /\ fail' = Select(fail, code)
  /\ At(IF lease = "none" THEN "leave" ELSE "release")
  /\ UNCHANGED <<provider, op, answer, part, registry, machine>>

Release ==
  /\ at = "release" /\ lease' = "none" /\ At("leave")
  /\ UNCHANGED <<provider, op, limits, answer, part, fail, registry, sound, profile, dirs, process>>

ReleaseFails ==
  /\ at = "release" /\ CleanFails /\ At("leave")
  /\ fail' = Select(fail, "RESIDUAL_DATA")
  /\ UNCHANGED <<provider, op, answer, part, registry, machine>>

\* What a bug would make of the end: the cancellation of the last await is not seen.
LeaveUnasked ==
  /\ at = "leave" /\ At("over")
  /\ UNCHANGED <<provider, op, limits, answer, part, fail, registry, machine>>

\* execute() asks once more whether it has been cancelled, and the others do not.
Leave ==
  /\ at = "leave" /\ At("over")
  /\ fail' = IF op = "execute" /\ fail = "ok" THEN Active(fail) ELSE fail
  /\ UNCHANGED <<provider, op, limits, answer, part, registry, machine>>

-----------------------------------------------------------------------------
(* What others do.                                                         *)

\* The caller's signal, or cancel(): a runner the registry knows is told.
Cancel ==
  /\ Bracketed /\ ~aborted /\ at # "over" /\ aborted' = TRUE
  /\ told' = (told \/ attached)
  /\ UNCHANGED <<provider, op, limits, answer, adapter, attached, machine>>

\* Someone takes the letter away or touches the profile.
Tamper ==
  /\ Bracketed /\ at # "over"
  /\ limits.tampers > 0 /\ limits' = [limits EXCEPT !.tampers = @ - 1]
  /\ \/ lease # "none" /\ sound' = FALSE /\ UNCHANGED profile
     \/ profile' \in Profiles \ {"whole"} /\ UNCHANGED sound
  /\ UNCHANGED <<provider, op, answer, adapter, registry, lease, dirs, process>>

Next ==
  \/ Begin \/ BeginRefused \/ Bind \/ BindFails \/ Acquire \/ AcquireFails
  \/ VerifyLease \/ VerifyFails \/ OpenProfile \/ OpenFails
  \/ Prepare \/ PrepareFails \/ PrepareLeft \/ Start \/ StartFails
  \/ \E k \in Answers : Receive(k)
  \/ \E e \in Ended : Finish(e) \/ Respond(e)
  \/ RunFails \/ Clean \/ CleanStops \/ CloseProfile \/ CloseFails \/ Judge
  \/ Credential \/ CredentialFails \/ Rebind \/ RebindFails
  \/ FinalCheck \/ FinalFails \/ Release \/ ReleaseFails \/ Leave
  \/ Cancel \/ Tamper

Spec == Init /\ [][Next]_vars

-----------------------------------------------------------------------------
(* Properties.                                                             *)

Places == {"idle", "bind", "acquire", "verify", "open", "prepare", "start", "running", "clean",
           "close", "judge", "credential", "rebind", "final", "release", "leave", "over"}
Codes == {"CANCELLED", "NOT_READY", "UNSAFE_VERSION", "CLI_CHANGED", "RESIDUAL_DATA", "TIMEOUT",
          "EXECUTION_FAILED", "OUTPUT_INVALID", "TOOL_ACTIVITY", "MODEL_INCOMPATIBLE", "REFUSED",
          "AUTH_REQUIRED", "QUOTA_OR_BILLING", "RATE_LIMITED", "NETWORK_FAILED",
          "TEMPORARILY_UNAVAILABLE", "ACCOUNT_UNSUPPORTED", "SHARED_CREDENTIAL_CONSENT_REQUIRED",
          "DATA_RETENTION_CONSENT_REQUIRED"}

\* Every variable keeps its type.
TypeOK ==
  /\ provider \in AllProviders /\ op \in Operations
  /\ limits \in [items : Nat, strays : Nat, faults : Nat, tampers : Nat]
  /\ items \in Seq(UNION {Kinds[p] \cup ListKinds(p) : p \in AllProviders})
  /\ ending \in {"none", "odd"} \cup UNION {Endings(p) : p \in AllProviders}
  /\ verdict \in {"none", "ok"} \cup Codes
  /\ at \in Places /\ part \in {"none", "model"} \cup {Local[n] : n \in 1..4}
  /\ fail \in {"ok"} \cup Codes
  /\ \A b \in {aborted, attached, told, sound, dirs} : b \in BOOLEAN
  /\ lease \in {"none", "taken", "verified"}
  /\ profile \in Profiles
  /\ process \in {"none", "running", "stray"}

\* An answer is taken exactly when it is the one that was agreed on with its provider:
\* the parsers check line by line, each with its own order of checks, and between them
\* they let through no answer of another shape and refuse none of the right one.
AnswersAreSound ==
  verdict # "none" =>
    (verdict = "ok") = (IF Listing THEN SoundList(provider, items, ending)
                        ELSE SoundAnswer(provider, items, ending))

\* The least number of lines a parser asks for before it looks at any.
Least == [codex_cli |-> 4, antigravity_cli |-> 2, gemini_cli |-> 2, openai_api |-> 0, claude_api |-> 0]

\* A provider that used a tool, or was ready to, is told as that and not as an answer
\* that cannot be read, whenever what came before the sign was a good beginning, or
\* the sign is all that is wrong: every parser but Gemini's over HTTP, which tells
\* nothing apart, looks for tools before it looks at the shape.
ToolsAreTold ==
  verdict # "none" /\ ~Listing /\ provider \in DOMAIN Least /\ ending = "clean" =>
    \A n \in DOMAIN items :
      \/ /\ items[n] = "tool" /\ Viable(provider, SubSeq(items, 1, n - 1))
         /\ Len(items) >= Least[provider] /\ \A i \in DOMAIN items : items[i] # "broken"
      \/ /\ Harmless(items[n]) # items[n]
         /\ SoundAnswer(provider, [items EXCEPT ![n] = Harmless(@)], ending)
      => verdict = "TOOL_ACTIVITY"

\* A cancelled request never comes back as done, at whichever await the signal came,
\* and as long as its process runs the runner has been told.
CancelledIsDropped ==
  /\ aborted /\ at = "over" /\ op = "execute" => fail # "ok"
  /\ aborted /\ attached => told

\* A call that ends with something of its own left behind, a directory, a drive letter
\* or a process, says so, whatever else went wrong before or after, unless it has been
\* cancelled (#runReserved drops the code of a cancelled call).
ResidueIsTold ==
  at = "over" /\ ~aborted /\ (dirs \/ lease # "none" \/ process # "none")
    => fail = "RESIDUAL_DATA"
=============================================================================
