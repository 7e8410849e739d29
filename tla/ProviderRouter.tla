--------------------------- MODULE ProviderRouter ---------------------------
(***************************************************************************)
(* The provider router (src/application/providers/aiProviderRouter.ts) with *)
(* the limits it takes a lease from (core/providers/providerConcurrency.ts),*)
(* its retry policy, and the two tables it writes: the provider diagnostics *)
(* and the invocations.  Its calls of an HTTP adapter are those of ApiCall; *)
(* a call of a command-line adapter is one step here.                       *)
(*                                                                         *)
(* Requests run concurrently.  An action runs from one await of a request   *)
(* to its next; aborts, timers and the shutdown come between.               *)
(***************************************************************************)
EXTENDS ApiCall, SequencesExt

CONSTANTS
  Feature,       \* [Requests -> Features]: the feature a request is made for
  Features,
  Providers,     \* those the features may be routed to
  Models,
  Workloads,     \* the routes at first, the requests that will be made, and the bound
                 \* on failing writes, saved routes and checked providers
  CliOutcomes,   \* what a command-line call may come to, beside "CANCELLED"
  MaxCloses,     \* bound: calls of shutdown()
  None

CliProviders == {"codex_cli"}

\* What an attempt or a request may end with.
Codes == {"CANCELLED", "BUSY", "DATABASE", "NOT_CONFIGURED", "NOT_READY", "TIMEOUT",
          "NETWORK_FAILED", "RATE_LIMITED", "TEMPORARILY_UNAVAILABLE", "AUTH_REQUIRED",
          "QUOTA_OR_BILLING", "REQUEST_TOO_LARGE", "RESPONSE_TOO_LARGE", "EXECUTION_FAILED",
          "OUTPUT_INVALID", "MODEL_INCOMPATIBLE", "REFUSED", "TOOL_ACTIVITY_DETECTED",
          "RESIDUAL_DATA", "MEDIA_UNSUPPORTED", "EXECUTABLE_NOT_FOUND", "CLI_CHANGED",
          "UNSAFE_VERSION"}

ASSUME RouterAssumption ==
  /\ IsFiniteSet(Requests)
  /\ Feature \in [Requests -> Features]
  /\ Providers \subseteq ApiProviders \cup CliProviders
  /\ Workloads \subseteq [to: [Features -> Providers \cup {None}], made: SUBSET Requests, disturbances: Nat]
  /\ Models # {}
  /\ CliOutcomes \subseteq Codes \cup {"ok"}
  /\ MaxCloses \in Nat
  /\ None \notin Providers \cup Models \cup Requests

VARIABLES
  route,    \* provider_routes: the provider and model of a feature
  diag,     \* provider_diagnostics: status, selected model, revision
  rows,     \* provider_invocations: the status of the row of r's n-th attempt
  phase,    \* r -> where execute() is
  snap,     \* r -> the provider and the diagnostic's revision it read
  turn,     \* r -> the attempts begun
  answer,   \* r -> "" until it settles, then "accepted" or a code
  active,   \* p -> leases the limit counts
  queue,    \* p -> requests waiting for a lease
  stopped,  \* shutdown() has been called
  drain,    \* where the last shutdown() is
  closes, disturbances

routerVars == <<route, diag, rows, phase, snap, turn, answer, active, queue, stopped, drain,
                closes, disturbances>>
vars == <<callVars, routerVars>>

Phases == {"unmade", "idle", "queued", "granted", "calling", "delay", "settled"}
DiagStatuses == {"ready", "missing_executable", "unsafe_version", "auth_required",
              "incompatible_model", "quota_or_billing", "temporarily_unavailable",
              "invalid_provider_output"}

Limit(p) == IF p \in CliProviders THEN 1 ELSE 2

\* FAMILY_MEDIA: the source files a provider may be sent.
FamilyMedia(p) ==
  CASE p = "codex_cli" -> {"image"}
    [] p = "gemini_api" -> {"audio", "document", "image"}
    [] OTHER -> {"document", "image"}

\* terminalStatusFor; "" is null.
TerminalStatus(code) ==
  CASE code = "EXECUTABLE_NOT_FOUND" -> "missing_executable"
    [] code \in {"CLI_CHANGED", "UNSAFE_VERSION", "RESIDUAL_DATA"} -> "unsafe_version"
    [] code = "AUTH_REQUIRED" -> "auth_required"
    [] code = "MODEL_INCOMPATIBLE" -> "incompatible_model"
    [] code = "QUOTA_OR_BILLING" -> "quota_or_billing"
    [] code \in {"NETWORK_FAILED", "RATE_LIMITED", "TEMPORARILY_UNAVAILABLE", "TIMEOUT"} ->
         "temporarily_unavailable"
    [] code = "OUTPUT_INVALID" -> "invalid_provider_output"
    [] OTHER -> ""

\* categoryFor, as far as the retry policy tells the categories apart.
Retryable(code) ==
  code \in {"NETWORK_FAILED", "RATE_LIMITED", "TEMPORARILY_UNAVAILABLE", "TIMEOUT",
            "OUTPUT_INVALID"}

\* classifyProviderRetry after n attempts.
Retries(code, n) == n < MaxAttempts /\ Retryable(code)

-----------------------------------------------------------------------------
Init ==
  /\ CallInit
  /\ LET m == CHOOSE model \in Models: TRUE IN \E w \in Workloads:
       /\ route = [f \in Features |-> [provider |-> w.to[f], model |-> m]]
       /\ phase = [r \in Requests |-> IF r \in w.made THEN "idle" ELSE "unmade"]
       /\ disturbances = w.disturbances
       /\ diag = [p \in Providers |-> [status |-> "ready", model |-> m, rev |-> 0]]
  /\ rows = [r \in Requests |-> [n \in Attempts |-> "none"]]
  /\ snap = [r \in Requests |-> [provider |-> None, rev |-> 0]]
  /\ turn = [r \in Requests |-> 0]
  /\ answer = [r \in Requests |-> ""]
  /\ active = [p \in Providers |-> 0]
  /\ queue = [p \in Providers |-> <<>>]
  /\ stopped = FALSE /\ drain = "no"
  /\ closes = 0

To(r, p) == phase' = [phase EXCEPT ![r] = p]

Settle(r, code) == To(r, "settled") /\ answer' = [answer EXCEPT ![r] = code]

(* #release: the lease goes to the head of the queue, unless the limits are *)
(* shut down.                                                              *)
Release(p) ==
  IF queue[p] = <<>> \/ stopped
  THEN active' = [active EXCEPT ![p] = @ - 1] /\ UNCHANGED queue
  ELSE queue' = [queue EXCEPT ![p] = Tail(@)] /\ UNCHANGED active

\* A request that holds a lease settles and hands the lease on.
Leave(r, code) ==
  LET p == snap[r].provider
      handed == queue[p] # <<>> /\ ~stopped IN
  /\ Release(p)
  /\ answer' = [answer EXCEPT ![r] = code]
  /\ phase' = [q \in Requests |->
       IF q = r THEN "settled"
       ELSE IF handed /\ q = Head(queue[p]) THEN "granted" ELSE phase[q]]

\* What goes wrong or comes from outside costs the bound one disturbance.
Disturbed == disturbances > 0 /\ disturbances' = disturbances - 1
WriteFails == Disturbed
NoFault == UNCHANGED disturbances

-----------------------------------------------------------------------------
(* What execute() refuses before it asks for a lease.  (The two consents    *)
(* it also demands are those of providers no adapter is registered for.)    *)
Refusal(r) ==
  LET f == route[Feature[r]]
      p == f.provider IN
  IF p = None THEN "NOT_CONFIGURED"
  ELSE IF r \in WithFiles /\ Media[r] \notin FamilyMedia(p) THEN "MEDIA_UNSUPPORTED"
  ELSE IF diag[p].status # "ready" THEN "NOT_READY"
  ELSE IF diag[p].model # f.model THEN "MODEL_INCOMPATIBLE"
  ELSE IF aborted[r] THEN "CANCELLED" ELSE ""

ExecuteRefused(r) ==
  /\ phase[r] = "idle"
  /\ stopped \/ Refusal(r) # ""
  /\ Settle(r, IF stopped THEN "CANCELLED" ELSE Refusal(r))
  /\ UNCHANGED <<callVars, route, diag, rows, snap, turn, active, queue, stopped, drain,
                 closes, disturbances>>

(* The snapshot of route and diagnostic, and the lease or a place in line.  *)
Execute(r) ==
  /\ phase[r] = "idle" /\ ~stopped /\ Refusal(r) = ""
  /\ LET p == route[Feature[r]].provider IN
     /\ snap' = [snap EXCEPT ![r] = [provider |-> p, rev |-> diag[p].rev]]
     /\ IF active[p] < Limit(p)
        THEN To(r, "granted") /\ active' = [active EXCEPT ![p] = @ + 1] /\ UNCHANGED queue
        ELSE To(r, "queued") /\ queue' = [queue EXCEPT ![p] = Append(@, r)]
             /\ UNCHANGED active
  /\ UNCHANGED <<callVars, route, diag, rows, turn, answer, stopped, drain, closes, disturbances>>

\* removeAndReject: its place in the queue is taken away.
OutOfQueue(r) ==
  [queue EXCEPT ![snap[r].provider] = RemoveAt(@, CHOOSE n \in DOMAIN @: @[n] = r)]

\* A slip: the request stays in the queue.
QueueTimeoutSlip(r) ==
  /\ phase[r] = "queued"
  /\ Settle(r, "BUSY")
  /\ UNCHANGED <<callVars, route, diag, rows, snap, turn, active, queue, stopped, drain,
                 closes, disturbances>>

QueueTimeout(r) ==
  /\ phase[r] = "queued"
  /\ Settle(r, "BUSY")
  /\ queue' = OutOfQueue(r)
  /\ UNCHANGED <<callVars, route, diag, rows, snap, turn, active, stopped, drain,
                 closes, disturbances>>

(* An attempt: the row of the invocation, then the adapter.                 *)
EnterAdapter(r) ==
  IF snap[r].provider \in CliProviders
  THEN stage' = [stage EXCEPT ![r] = "cli"] /\ UNCHANGED <<aborted, verdict, socket, space>>
  ELSE BeginCall(r, snap[r].provider)

BeginAttempt(r) ==
  \/ /\ NoFault
     /\ turn' = [turn EXCEPT ![r] = @ + 1]
     /\ rows' = [rows EXCEPT ![r][turn[r] + 1] = "running"]
     /\ To(r, "calling") /\ EnterAdapter(r)
     /\ UNCHANGED <<answer, active, queue>>
  \/ WriteFails /\ Leave(r, "DATABASE") /\ UNCHANGED <<callVars, turn, rows>>

\* The continuation of acquire(): the signal is looked at once more.
Start(r) ==
  /\ phase[r] = "granted"
  /\ IF aborted[r]
     THEN Leave(r, "CANCELLED") /\ UNCHANGED <<callVars, turn, rows, disturbances>>
     ELSE BeginAttempt(r)
  /\ UNCHANGED <<route, diag, snap, stopped, drain, closes>>

DelayEnds(r) ==
  /\ phase[r] = "delay"
  /\ BeginAttempt(r)
  /\ UNCHANGED <<route, diag, snap, stopped, drain, closes>>

-----------------------------------------------------------------------------
(* The adapter has ended: the row is completed and the answer decided.      *)

\* The code the attempt failed with: an abort outranks all but residual data.
FailureCode(r) ==
  IF aborted[r] /\ verdict[r] # "RESIDUAL_DATA" THEN "CANCELLED" ELSE verdict[r]

\* A slip: the row of the first attempt is completed.
CompleteRowSlip(r, status) == rows' = [rows EXCEPT ![r][1] = status]
CompleteRow(r, status) == rows' = [rows EXCEPT ![r][turn[r]] = status]

\* A slip: the revision is not compared.
UpdateDiagnosticSlip(r, status) ==
  LET p == snap[r].provider IN diag' = [diag EXCEPT ![p].status = status, ![p].rev = @ + 1]

\* #updateDiagnostic: a stale revision is let go silently.
UpdateDiagnostic(r, status) ==
  LET p == snap[r].provider IN
  IF diag[p].rev = snap[r].rev
  THEN diag' = [diag EXCEPT ![p].status = status, ![p].rev = @ + 1]
  ELSE UNCHANGED diag

Ended(r) == phase[r] = "calling" /\ stage[r] = "over"

Accept(r) ==
  /\ Ended(r) /\ verdict[r] = "ok" /\ ~aborted[r]
  /\ CompleteRow(r, "completed")
  /\ \/ NoFault /\ UpdateDiagnostic(r, "ready") /\ Leave(r, "accepted")
     \/ WriteFails /\ UNCHANGED diag /\ Leave(r, "DATABASE")
  /\ EndCall(r)
  /\ UNCHANGED <<route, snap, turn, stopped, drain, closes>>

\* An answer of another model, or one parseOutput does not take, is a failure.
AttemptFailures(r) ==
  CASE verdict[r] # "ok" -> {FailureCode(r)}
    [] verdict[r] = "ok" /\ aborted[r] -> {"CANCELLED"}
    [] OTHER -> {"MODEL_INCOMPATIBLE", "OUTPUT_INVALID"}

\* #completeFailure: what its row says.
Completion(code) == IF code = "CANCELLED" THEN "cancelled" ELSE "failed"

\* #lowerDiagnostic
Lower(r, code) ==
  IF TerminalStatus(code) = "" THEN UNCHANGED diag ELSE UpdateDiagnostic(r, TerminalStatus(code))

Fail(r, code) ==
  /\ Ended(r)
  /\ CompleteRow(r, Completion(code))
  /\ IF Retries(code, turn[r])
     THEN To(r, "delay") /\ NoFault /\ UNCHANGED <<diag, answer, active, queue>>
     ELSE \/ NoFault /\ Leave(r, code) /\ Lower(r, code)
          \/ TerminalStatus(code) # "" /\ WriteFails /\ UNCHANGED diag /\ Leave(r, "DATABASE")
  /\ EndCall(r)
  /\ UNCHANGED <<route, snap, turn, stopped, drain, closes>>

\* The row cannot be completed: it stays "running" and the error is the answer.
CompleteFails(r) ==
  /\ Ended(r) /\ WriteFails /\ Leave(r, "DATABASE")
  /\ EndCall(r)
  /\ UNCHANGED <<route, diag, rows, snap, turn, stopped, drain, closes>>

-----------------------------------------------------------------------------
(* The caller's signal.                                                     *)
Abort(r) ==
  /\ phase[r] \notin {"unmade", "settled"} /\ ~aborted[r]
  /\ CancelCalls({r}, turn)
  /\ CASE phase[r] = "queued" ->
            /\ Settle(r, "CANCELLED")
            /\ queue' = OutOfQueue(r)
            /\ UNCHANGED active
       [] phase[r] = "delay" -> Leave(r, "CANCELLED")
       [] OTHER -> UNCHANGED <<phase, answer, active, queue>>
  /\ UNCHANGED <<route, diag, rows, snap, turn, stopped, drain, closes, disturbances>>

\* Who holds a lease of a provider, and who waits for one.
Holding(p) == {r \in Requests: phase[r] \in {"granted", "calling", "delay"} /\ snap[r].provider = p}
Waiting(p) == {r \in Requests: phase[r] = "queued" /\ snap[r].provider = p}

InFlight == {r \in Requests: phase[r] \notin {"unmade", "idle", "settled"}}

(* shutdown(): the limits are shut first, which empties the queues, then    *)
(* every request is aborted; those in a delay settle at once.               *)
Shutdown ==
  /\ drain \in {"no", "failed"} /\ closes < MaxCloses
  /\ closes' = closes + 1
  /\ stopped' = TRUE
  /\ drain' = "waiting"
  /\ LET settling == {r \in InFlight: phase[r] \in {"queued", "delay"}}
         leaving(p) == {r \in InFlight: phase[r] = "delay" /\ snap[r].provider = p} IN
     /\ CancelCalls(InFlight, turn)
     /\ queue' = [p \in Providers |-> <<>>]
     /\ phase' = [r \in Requests |-> IF r \in settling THEN "settled" ELSE phase[r]]
     /\ answer' = [r \in Requests |-> IF r \in settling THEN "CANCELLED" ELSE answer[r]]
     /\ active' = [p \in Providers |-> active[p] - Cardinality(leaving(p))]
  /\ UNCHANGED <<route, diag, rows, snap, turn, disturbances>>

Drained ==
  /\ drain = "waiting" /\ InFlight = {}
  /\ drain' = "done"
  /\ UNCHANGED <<callVars, route, diag, rows, phase, snap, turn, answer, active, queue, stopped,
                 closes, disturbances>>

\* The ten seconds are over: shutdown() rejects and may be called again.
DrainFails ==
  /\ drain = "waiting" /\ InFlight # {}
  /\ drain' = "failed"
  /\ UNCHANGED <<callVars, route, diag, rows, phase, snap, turn, answer, active, queue, stopped,
                 closes, disturbances>>

-----------------------------------------------------------------------------
(* From outside: a route is saved, a provider is checked.  (Bound: while a  *)
(* request could tell.)                                                     *)
SaveRoute(f, p, m) ==
  /\ \E r \in Requests: Feature[r] = f /\ phase[r] = "idle"
  /\ Disturbed
  /\ route' = [route EXCEPT ![f] = [provider |-> p, model |-> m]]
  /\ UNCHANGED <<callVars, diag, rows, phase, snap, turn, answer, active, queue, stopped, drain,
                 closes>>

CheckProvider(p, status, m) ==
  /\ \E r \in Requests: phase[r] = "idle" \/ r \in Holding(p) \cup Waiting(p)
  /\ Disturbed
  /\ diag' = [diag EXCEPT ![p] = [status |-> status, model |-> m, rev |-> @.rev + 1]]
  /\ UNCHANGED <<callVars, route, rows, phase, snap, turn, answer, active, queue, stopped, drain,
                 closes>>

(* The steps of a call of an adapter.  That of a command line ends as in    *)
(* CliCall; an abort behind its last check is left to the router.           *)
CliEnds(r) ==
  /\ stage[r] = "cli"
  /\ \E code \in CliOutcomes \cup (IF aborted[r] THEN {"CANCELLED", "RESIDUAL_DATA"} ELSE {}): Over(r, code)
  /\ UNCHANGED <<aborted, socket, space>>

\* What runs on this machine and returns: files, keys, timers, processes.
LocalStep(r) ==
  /\ \/ MakeSpace(r) \/ CopySources(r) \/ ReadCopies(r) \/ CleanSpace(r) \/ CleanFails(r)
     \/ KeyRefused(r) \/ SendRequest(r, turn[r])
     \/ HttpTimeout(r, turn[r])
     \/ CliEnds(r)
  /\ UNCHANGED routerVars

\* What a server does, or never does.
RemoteStep(r) ==
  /\ \/ \E s \in Statuses: Respond(r, turn[r], s)
     \/ TransportFails(r, turn[r])
     \/ ReadBody(r, turn[r], snap[r].provider)
     \/ ReadErrorBody(r, turn[r], snap[r].provider)
     \/ \E n \in Attempts: LateResponse(r, n, n = turn[r])
  /\ UNCHANGED routerVars

RequestStep(r) ==
  \/ Start(r) \/ DelayEnds(r) \/ Accept(r) \/ CompleteFails(r)
  \/ \E code \in AttemptFailures(r): Fail(r, code)

Next ==
  \/ \E r \in Requests:
       Execute(r) \/ ExecuteRefused(r) \/ QueueTimeout(r) \/ RequestStep(r)
       \/ LocalStep(r) \/ RemoteStep(r) \/ Abort(r)
  \/ Shutdown \/ Drained \/ DrainFails
  \/ \E f \in Features, p \in Providers \cup {None}, m \in Models: SaveRoute(f, p, m)
  \/ \E p \in Providers, s \in {"ready", "auth_required"}, m \in Models: CheckProvider(p, s, m)

(* Continuations run, local work returns and timers fire; a server, a       *)
(* caller and the user owe nothing.                                         *)
Spec ==
  /\ Init /\ [][Next]_vars
  /\ \A r \in Requests: WF_vars(RequestStep(r)) /\ WF_vars(LocalStep(r))

-----------------------------------------------------------------------------

TypeOK ==
  /\ aborted \in [Requests -> BOOLEAN]
  /\ stage \in [Requests -> Stages]
  /\ verdict \in [Requests -> Codes \cup {"ok"}]
  /\ socket \in [Requests -> [Attempts -> Sockets]]
  /\ space \in [Requests -> Spaces]
  /\ route \in [Features -> [provider: Providers \cup {None}, model: Models]]
  /\ diag \in [Providers -> [status: DiagStatuses, model: Models, rev: Nat]]
  /\ rows \in [Requests -> [Attempts -> {"none", "running", "completed", "failed", "cancelled"}]]
  /\ phase \in [Requests -> Phases]
  /\ snap \in [Requests -> [provider: Providers \cup {None}, rev: Nat]]
  /\ turn \in [Requests -> 0..MaxAttempts]
  /\ answer \in [Requests -> Codes \cup {"", "accepted"}]
  /\ active \in [Providers -> 0..2]
  /\ queue \in [Providers -> Seq(Requests)]
  /\ stopped \in BOOLEAN /\ drain \in {"no", "waiting", "done", "failed"}
  /\ closes \in 0..MaxCloses /\ disturbances \in Nat

(* The counter of a provider is the leases its requests hold, never more    *)
(* than its limit; whoever waits is in its queue once, and waits only while *)
(* the limit is reached (providerConcurrency.ts:32-117).                    *)
SlotsHeld ==
  \A p \in Providers:
    /\ active[p] = Cardinality(Holding(p)) /\ active[p] <= Limit(p)
    /\ ToSet(queue[p]) = Waiting(p) /\ Len(queue[p]) = Cardinality(Waiting(p))
    /\ queue[p] # <<>> => active[p] = Limit(p) /\ ~stopped

(* The rows tell what became of a request: an accepted one has its last     *)
(* attempt completed and no other, a refused one has none completed, and no *)
(* row of a settled request is "running", unless the database failed under  *)
(* it (aiProviderRouter.ts:403-581).                                        *)
RowsTellTruth ==
  \A r \in Requests:
    LET completed == {n \in Attempts: rows[r][n] = "completed"} IN
    /\ answer[r] = "accepted" => completed = {turn[r]}
    /\ answer[r] \notin {"accepted", "DATABASE"} => completed = {}
    /\ phase[r] = "settled" /\ answer[r] # "DATABASE" =>
         \A n \in Attempts: rows[r][n] # "running"
    /\ \A n \in Attempts: rows[r][n] # "none" <=> n <= turn[r]

(* A settled request has no body open and no copies of its sources on disk; *)
(* copies that could not be removed are the answer, and the diagnostic they *)
(* lower is no longer the one the request was let in by.  No copies are on  *)
(* disk while the request is on its way (providerApiMedia.ts:165-265,       *)
(* providerHttpClient.ts:525-642).                                          *)
NothingLeftBehind ==
  \A r \in Requests:
    /\ phase[r] = "settled" => \A n \in Attempts: socket[r][n] # "open"
    /\ phase[r] = "settled" /\ space[r] = "made" => answer[r] \in {"RESIDUAL_DATA", "DATABASE"}
    /\ answer[r] = "RESIDUAL_DATA" => diag[snap[r].provider].rev > snap[r].rev
    /\ InExchange(r) => space[r] # "made"

(* No attempt begins and no request leaves for a server once the caller has *)
(* aborted or the router is stopped (aiProviderRouter.ts:178-218, 299-304;  *)
(* openAiApiAdapter.ts:206-244).                                            *)
NoCallAfterStop ==
  [][\A r \in Requests:
       (turn'[r] # turn[r] \/ \E n \in Attempts: socket[r][n] = "none" /\ socket'[r][n] = "sent")
         => ~aborted[r] /\ ~stopped]_vars

(* Only evidence about the current revision counts: a request writes a      *)
(* diagnostic once, while it is as the request read it, so a provider once  *)
(* lowered is raised by no older call still under way (aiProviderRouter.ts: *)
(* 583-625).                                                                *)
VerdictsAreFresh ==
  [][disturbances' = disturbances =>
       \A p \in Providers: diag'[p] # diag[p] =>
         /\ diag[p].status = "ready"
         /\ \E r \in Holding(p): phase'[r] = "settled" /\ snap[r].rev = diag[p].rev
              /\ answer'[r] \in {"accepted"} \cup {c \in Codes: TerminalStatus(c) = diag'[p].status}
              /\ aborted[r] => answer'[r] = "RESIDUAL_DATA"]_vars

(* What execute() and shutdown() promise their callers, and that every open *)
(* request settles: CallPromise.                                            *)
Promise == INSTANCE CallPromise WITH
  outcome <- [r \in Requests |->
                CASE phase[r] \in {"unmade", "idle"} -> "idle"
                  [] phase[r] = "settled" -> (IF answer[r] = "accepted" THEN "accepted" ELSE "refused")
                  [] OTHER -> "open"],
  revoked <- {r \in Requests: aborted[r]},
  closed <- stopped

KeepsCallPromise == Promise!Spec
=============================================================================
