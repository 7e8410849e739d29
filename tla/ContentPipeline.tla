--------------------------- MODULE ContentPipeline ---------------------------
(***************************************************************************)
(* The six stages that make study content of a job's sources (application/  *)
(* content/pipelineOperations.ts, studyPipelineOperations.ts), the store of *)
(* what each stage came to (infrastructure/filesystem/jsonPipelineArtifact- *)
(* Store.ts), the runtime around them (main/contentPipelineRuntime.ts) and  *)
(* the end of the program (main/bootstrap.ts, foundationApplication.ts).    *)
(*                                                                         *)
(* One job.  An attempt goes through the stages in order: a stage whose row *)
(* names a payload made of the same things is taken as it is, any other is  *)
(* asked of the provider, written to a file and then named by the row.      *)
(* Between two awaits routes and prompts may change, the program may be told *)
(* to quit or simply end.                                                   *)
(***************************************************************************)
EXTENDS Naturals, Sequences, FiniteSets

CONSTANTS
  SourceCount,    \* sources of the job; each is asked for on its own up to evidence
  Workloads       \* the bounds: what may still happen

ASSUME PipelineAssumption == SourceCount \in Nat \ {0}

Stages == 1..6    \* classification, extraction, evidence; clustering, synthesis, verification
ContentStages == 1..3
StudyStages == 4..6
Profiles == [global: {0, 1}, course: {0, 1}, feature: [Stages -> {0, 1}]]    \* saved versions
FirstProfiles == [global |-> 0, course |-> 0, feature |-> [s \in Stages |-> 0]]

VARIABLES
  routes,       \* stage -> the version of its saved route
  profiles,     \* the versions of the saved instructions
  topics,       \* the version of the course's topics
  payloads,     \* the files written so far; a sha256 is a position
  damaged,      \* those that cannot be read any more
  rows,         \* stage -> the payload its row names, 0 for none
  attempt,      \* the attempt under way
  pass,         \* the operation of the application: "idle", "job", "rest"
  aborted,      \* lifetime.signal
  polling,
  quit,         \* how far the program's end has come; "no" when it is not under way
  drained,      \* contentRuntime.shutdown() came through
  finished,     \* the job has its content
  budget

pipelineVars == <<routes, profiles, topics, payloads, damaged, rows, attempt, pass, aborted, polling, quit,
          drained, finished, budget>>
world == <<routes, profiles, topics, damaged>>
shell == <<pass, aborted, polling, quit, drained>>

NoAttempt == [at |-> "none", stage |-> 1, chain |-> <<>>, route |-> 0,
              profiles |-> FirstProfiles, topics |-> 0, left |-> 0]

PipelineInit ==
  /\ routes = [s \in Stages |-> 0] /\ profiles = FirstProfiles /\ topics = 0
  /\ payloads = <<>> /\ damaged = {} /\ rows = [s \in Stages |-> 0]
  /\ attempt = NoAttempt /\ pass = "idle" /\ aborted = FALSE /\ polling = TRUE
  /\ quit = "no" /\ drained = FALSE /\ finished = FALSE
  /\ budget \in Workloads

Spend(what) == budget[what] > 0 /\ budget' = [budget EXCEPT ![what] = @ - 1]
Free == UNCHANGED budget

-----------------------------------------------------------------------------
(* What a stage is made of.                                                 *)

\* The layers a prompt of the stage is composed of.
Prompt(s, saved) == <<saved.global, saved.course, saved.feature[s]>>

\* A content stage names the payload before it, a study stage all of them.
Upstream(s, chain) == IF s \in StudyStages \/ s = 1 THEN SubSeq(chain, 1, s - 1) ELSE <<chain[s - 1]>>

Identity(a) ==
  [stage |-> a.stage, route |-> a.route, prompt |-> Prompt(a.stage, a.profiles),
   upstream |-> Upstream(a.stage, a.chain), topics |-> IF a.stage \in StudyStages THEN a.topics ELSE 0]

\* A slip: the classification, of schema version 2, is read as one of version 1.
HitSlip(a) == a.stage # 1 /\ rows[a.stage] # 0 /\ payloads[rows[a.stage]] = Identity(a)

\* The row names a payload of this identity.
Hit(a) == rows[a.stage] # 0 /\ payloads[rows[a.stage]] = Identity(a)

Made(s, a) == payloads[a.chain[s]]

-----------------------------------------------------------------------------
(* What is looked at again and again while a stage is under way.            *)

\* assertAttemptCurrent: the editable inputs as they were when the attempt began.
PromptsCurrent(a) == a.profiles = profiles

\* assertRoutesCurrent, and assertCurrent for its own route.
Current(a) == PromptsCurrent(a) /\ routes[a.stage] = a.route

Readable(s, a) == rows[s] = a.chain[s] /\ rows[s] \notin damaged

\* requireCurrentUpstream of a content stage; guard() of a study stage looks at every stage.
Watched(a) == IF a.stage \in StudyStages THEN 1..(a.stage - 1) ELSE {a.stage - 1} \ {0}

\* A slip: the routes of what came before are not looked at any more.
UpstreamCurrentSlip(a) == \A s \in Watched(a): Readable(s, a)

UpstreamCurrent(a) ==
  \A s \in Watched(a): routes[s] = Made(s, a).route /\ Readable(s, a)

Allowed(a) == ~aborted /\ Current(a) /\ UpstreamCurrent(a)

\* Around a request a content stage looks at its own route, a study stage at every one.
MayAsk(a) ==
  /\ ~aborted /\ Current(a)
  /\ a.stage \in StudyStages => \A s \in Watched(a): routes[s] = Made(s, a).route /\ rows[s] = a.chain[s]

-----------------------------------------------------------------------------
(* The steps of an attempt.                                                 *)

EndAttempt == attempt' = NoAttempt /\ pass' = "rest" /\ UNCHANGED <<aborted, polling, quit, drained>>

At(a, where) == attempt' = [a EXCEPT !.at = where] /\ UNCHANGED shell

\* With the last stage the attempt has its result.
StageDone(a, sha) ==
  LET chain == Append(a.chain, sha) IN
  /\ attempt' = IF a.stage = 6 THEN [a EXCEPT !.at = "done", !.chain = chain]
                ELSE [a EXCEPT !.at = "prepare", !.stage = @ + 1, !.chain = chain]
  /\ UNCHANGED shell

\* processBundle: the inputs are copied; nothing begins once the runtime is shut down.
BeginAttempt ==
  /\ pass = "job" /\ attempt.at = "none" /\ ~finished
  /\ IF aborted THEN EndAttempt
     ELSE At([NoAttempt EXCEPT !.profiles = profiles, !.topics = topics], "prepare")
  /\ Free /\ UNCHANGED <<world, payloads, rows, finished>>

\* The route is read; a content stage then measures its sources.
Prepare ==
  /\ attempt.at = "prepare"
  /\ IF aborted THEN EndAttempt
     ELSE LET a == [attempt EXCEPT !.route = routes[attempt.stage]] IN
          IF a.stage \in ContentStages THEN At(a, "measure")
          ELSE IF Allowed(a) THEN At(a, "lookup") ELSE EndAttempt
  /\ Free /\ UNCHANGED <<world, payloads, rows, finished>>

Measure ==
  /\ attempt.at = "measure"
  /\ \/ ~aborted /\ Free /\ At(attempt, "lookup")
     \/ aborted /\ Free /\ EndAttempt
     \/ Spend("faults") /\ EndAttempt
  /\ UNCHANGED <<world, payloads, rows, finished>>

\* A content stage asks about one source after the other.
Requests(s) == IF s \in ContentStages THEN SourceCount ELSE 1

\* A row of this identity whose file cannot be read ends the attempt.
Lookup ==
  /\ attempt.at = "lookup"
  /\ CASE ~Allowed(attempt) -> EndAttempt
       [] Allowed(attempt) /\ Hit(attempt) ->
            IF rows[attempt.stage] \in damaged THEN EndAttempt
            ELSE StageDone(attempt, rows[attempt.stage])
       [] OTHER -> At([attempt EXCEPT !.left = Requests(attempt.stage)], "ask")
  /\ Free /\ UNCHANGED <<world, payloads, rows, finished>>

\* One request to the router; every request begins and ends with a look at the routes.
Ask ==
  /\ attempt.at = "ask"
  /\ IF MayAsk(attempt) THEN At(attempt, "router") ELSE EndAttempt
  /\ Free /\ UNCHANGED <<world, payloads, rows, finished>>

\* The provider fails, or answers what its stage does not accept of these sources.
Rejected == Spend("faults") /\ EndAttempt

Answered ==
  /\ attempt.at = "router"
  /\ \/ /\ Free
        /\ IF ~MayAsk(attempt) THEN EndAttempt
           ELSE IF attempt.left > 1
             THEN At([attempt EXCEPT !.left = @ - 1], "ask")
             ELSE At([attempt EXCEPT !.left = 0], "answered")
     \/ Rejected
  /\ UNCHANGED <<world, payloads, rows, finished>>

\* The payload becomes a file of its own; whatever was there stays.
WritePayload ==
  /\ attempt.at = "answered"
  /\ IF Allowed(attempt)
     THEN /\ payloads' = Append(payloads, Identity(attempt))
          /\ At(attempt, "commit")
     ELSE UNCHANGED payloads /\ EndAttempt
  /\ Free /\ UNCHANGED <<world, rows, finished>>

\* A slip: the store does not look again before it writes the row.
CommitSlip ==
  /\ attempt.at = "commit"
  /\ rows' = [rows EXCEPT ![attempt.stage] = Len(payloads)]
  /\ StageDone(attempt, Len(payloads))
  /\ Free /\ UNCHANGED <<world, payloads, finished>>

\* beforeCommit and the row, which makes the payload count.
CommitRow ==
  /\ attempt.at = "commit"
  /\ \/ /\ Free /\ Allowed(attempt)
        /\ rows' = [rows EXCEPT ![attempt.stage] = Len(payloads)]
        /\ StageDone(attempt, Len(payloads))
     \/ Free /\ ~Allowed(attempt) /\ UNCHANGED rows /\ EndAttempt
     \/ Spend("faults") /\ UNCHANGED rows /\ EndAttempt
  /\ UNCHANGED <<world, payloads, finished>>

\* The content goes to the course's workspace and the job on its way, or that fails.
Deliver ==
  /\ attempt.at = "done"
  /\ EndAttempt
  /\ finished' \in {TRUE, FALSE}
  /\ IF finished' THEN Free ELSE Spend("faults")
  /\ UNCHANGED <<world, payloads, rows>>

-----------------------------------------------------------------------------
(* The application's one queue of operations, and its end.                  *)

StartPass ==
  /\ pass = "idle" /\ polling /\ quit # "closed" /\ ~finished
  /\ pass' = "job"
  /\ UNCHANGED <<world, payloads, rows, attempt, aborted, polling, quit, drained, finished, budget>>

\* What the runner writes after the attempt.
EndPass ==
  /\ pass = "rest" /\ pass' = "idle"
  /\ UNCHANGED <<world, payloads, rows, attempt, aborted, polling, quit, drained, finished, budget>>

Tracked == attempt.at # "none"

Quit ==
  /\ quit = "no" /\ Spend("quits")
  /\ polling' = FALSE /\ aborted' = TRUE
  /\ quit' = IF drained THEN "app" ELSE "router"
  /\ UNCHANGED <<world, payloads, rows, attempt, pass, drained, finished>>

\* A slip: what has been started is not waited for.
RouterStoppedSlip ==
  /\ quit = "router" /\ quit' = "closed"
  /\ UNCHANGED <<world, payloads, rows, attempt, pass, aborted, polling, drained, finished, budget>>

RouterStopped ==
  /\ quit = "router" /\ attempt.at # "router"
  /\ quit' = "active"
  /\ UNCHANGED <<world, payloads, rows, attempt, pass, aborted, polling, drained, finished, budget>>

ContentDrained ==
  /\ quit = "active" /\ ~Tracked
  /\ quit' = "app" /\ drained' = TRUE
  /\ UNCHANGED <<world, payloads, rows, attempt, pass, aborted, polling, finished, budget>>

Close ==
  /\ quit = "app" /\ pass = "idle"
  /\ quit' = "closed"
  /\ UNCHANGED <<world, payloads, rows, attempt, pass, aborted, polling, drained, finished, budget>>

\* Either wait lasts 15 seconds; the program then stays as it is, and may be told again.
DrainTimesOut ==
  /\ \/ quit \in {"router", "active"} /\ Tracked
     \/ quit = "app" /\ pass # "idle"
  /\ quit' = "no"
  /\ UNCHANGED <<world, payloads, rows, attempt, pass, aborted, polling, drained, finished, budget>>

PipelineCrash ==
  /\ quit # "closed" /\ Spend("crashes")
  /\ quit' = "closed" /\ attempt' = NoAttempt /\ pass' = "idle"
  /\ UNCHANGED <<world, payloads, rows, aborted, polling, drained, finished>>

Open ==
  /\ quit = "closed" /\ Free
  /\ quit' = "no" /\ aborted' = FALSE /\ polling' = TRUE /\ drained' = FALSE
  /\ UNCHANGED <<world, payloads, rows, attempt, pass, finished>>

-----------------------------------------------------------------------------
(* From outside: what is saved changes, and changes back; a file is lost.   *)

ChangeRoute ==
  /\ Spend("changes") /\ ~finished
  /\ \E s \in Stages: routes' = [routes EXCEPT ![s] = 1 - @]
  /\ UNCHANGED <<profiles, topics, damaged, payloads, rows, attempt, shell, finished>>

\* save, reset, remove and rollback alike make a version of a profile the current one.
ChangeProfile ==
  /\ Spend("changes") /\ ~finished
  /\ \/ profiles' = [profiles EXCEPT !.global = 1 - @]
     \/ profiles' = [profiles EXCEPT !.course = 1 - @]
     \/ \E s \in Stages: profiles' = [profiles EXCEPT !.feature[s] = 1 - @]
  /\ UNCHANGED <<routes, topics, damaged, payloads, rows, attempt, shell, finished>>

ChangeTopics ==
  /\ Spend("changes") /\ ~finished
  /\ attempt.at = "none"
  /\ topics' = 1 - topics
  /\ UNCHANGED <<routes, profiles, damaged, payloads, rows, attempt, shell, finished>>

Damage ==
  /\ Spend("damages") /\ ~finished
  /\ \E s \in Stages: rows[s] # 0 /\ damaged' = damaged \cup {rows[s]}
  /\ UNCHANGED <<routes, profiles, topics, payloads, rows, attempt, shell, finished>>

PipelineStep ==
  \/ BeginAttempt \/ Prepare \/ Measure \/ Lookup \/ Ask \/ Answered \/ WritePayload \/ CommitRow
  \/ Deliver \/ EndPass

PipelineNext ==
  \/ PipelineStep \/ StartPass
  \/ Quit \/ RouterStopped \/ ContentDrained \/ Close \/ DrainTimesOut \/ PipelineCrash \/ Open
  \/ ChangeRoute \/ ChangeProfile \/ ChangeTopics \/ Damage

\* The event loop goes on, and the timer polls.
PipelineSpec == PipelineInit /\ [][PipelineNext]_pipelineVars /\ WF_pipelineVars(PipelineStep) /\ WF_pipelineVars(StartPass) /\ WF_pipelineVars(Open)

-----------------------------------------------------------------------------

PipelineTypeOK ==
  /\ routes \in [Stages -> {0, 1}] /\ profiles \in Profiles /\ topics \in {0, 1}
  /\ rows \in [Stages -> 0..Len(payloads)]
  /\ damaged \subseteq 1..Len(payloads)
  /\ attempt.at \in {"none", "prepare", "measure", "lookup", "ask", "router", "answered", "commit",
                     "done"}
  /\ attempt.stage \in Stages /\ Len(attempt.chain) < 7
  /\ pass \in {"idle", "job", "rest"}
  /\ quit \in {"no", "router", "active", "app", "closed"}

(* What an attempt hands over is one chain: six rows of which each names the *)
(* payloads before it, made with the routes and instructions that are saved *)
(* at this moment, although any of them changed and changed back while the  *)
(* stages went by (studyPipelineOperations.ts:155-203, 259-261).            *)
ResultsAreCurrent ==
  [][attempt.at # "done" /\ attempt'.at = "done" =>
       \A s \in Stages:
         LET made == payloads'[rows'[s]] IN
         /\ rows'[s] = attempt'.chain[s] /\ rows'[s] # 0
         /\ made.stage = s /\ made.route = routes[s] /\ made.prompt = Prompt(s, profiles)
         /\ made.upstream = Upstream(s, attempt'.chain)]_pipelineVars

(* A row is only written while the program is not shutting down, for a      *)
(* payload whose route and prompt are still the saved ones, behind the rows *)
(* it was made of (jsonPipelineArtifactStore.ts:191-197).                   *)
CommitsAreCurrent ==
  [][\A s \in Stages: rows'[s] # rows[s] =>
       LET made == payloads[rows'[s]] IN
       /\ ~aborted /\ quit # "closed"
       /\ made.route = routes[s] /\ made.prompt = Prompt(s, profiles)
       /\ \A i \in 1..Len(made.upstream): \E t \in 1..(s - 1): rows[t] = made.upstream[i]]_pipelineVars

(* What was committed is not paid for again: however an attempt ended, the  *)
(* next asks only for stages whose row is of another identity               *)
(* (pipelineOperations.ts:459-468, 539-550).                                *)
NothingPaidTwice ==
  [][attempt.at = "ask" /\ attempt'.at = "router" =>
       \A s \in 1..Len(payloads): rows[attempt.stage] = s => payloads[s] # Identity(attempt)]_pipelineVars

(* When the database is closed nothing of the application is at work        *)
(* (bootstrap.ts:364-383, contentPipelineRuntime.ts:152-169).               *)
ClosedIsQuiet == quit = "closed" => ~Tracked /\ pass = "idle"
=============================================================================
