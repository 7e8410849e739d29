------------------------------ MODULE ApiCall ------------------------------
(***************************************************************************)
(* One call of an HTTP provider adapter: the copies of the source files it *)
(* makes and removes, the key it reads, the one request it sends and the   *)
(* body it reads, with the two signals that can end it early (the caller's *)
(* abort and the request's timer).  The OpenAI, Anthropic and Gemini       *)
(* adapters share this control; they differ in what they refuse and in     *)
(* how they read an answer, which the tables of outcomes below give.       *)
(*                                                                         *)
(* An await is the end of an action: what runs between two awaits runs     *)
(* undisturbed.  An action with "n" is about the n-th attempt of request r *)
(* at provider p.                                                          *)
(***************************************************************************)
EXTENDS Naturals, FiniteSets

CONSTANTS
  Requests,    \* the requests of one life of the process
  Media,       \* [Requests -> MediaTypes]: what their source files are
  Statuses     \* the HTTP status codes a provider answers with

MaxAttempts == 2
Attempts == 1..MaxAttempts

MediaTypes == {"none", "document", "image", "audio"}
WithFiles == {r \in Requests: Media[r] # "none"}

ASSUME ApiAssumption == Media \in [Requests -> MediaTypes] /\ Statuses \subseteq 200..599

VARIABLES
  aborted,  \* r -> the signal of the request has been aborted
  stage,    \* r -> where its call is
  verdict,  \* r -> "ok" or the error code the call ends, or will end, with
  socket,   \* r, n -> the HTTP exchange of the attempt
  space     \* r -> the request's directory of copied sources

callVars == <<aborted, stage, verdict, socket, space>>

\* What the adapters' own copies of a request are refused with.
OpenAiRefusals == {"EXECUTION_FAILED", "MODEL_INCOMPATIBLE", "MEDIA_UNSUPPORTED"}
AnthropicRefusals == {"EXECUTION_FAILED", "MODEL_INCOMPATIBLE", "MEDIA_UNSUPPORTED"}
GeminiRefusals == {"EXECUTION_FAILED", "MODEL_INCOMPATIBLE"}

\* What the work on files, the key and the request may fail with.
SourceFails == {"EXECUTION_FAILED"}        \* a file that is not, or does not stay, as declared
MediaFails == {"MEDIA_UNSUPPORTED"}        \* bytes that are not of the declared format
SecretFails == {"AUTH_REQUIRED", "EXECUTION_FAILED"}
RequestFails == {"EXECUTION_FAILED", "REQUEST_TOO_LARGE"}

(* A body of a 2xx is what its checks tell apart: the answer asked for, a   *)
(* call of a tool, a refusal, or anything else (not JSON of the expected    *)
(* shape, not finished, not what parseOutput takes).                        *)
Bodies == {"answer", "tool", "refusal", "other"}

OpenAiReading(b) ==
  CASE b = "answer" -> "ok"
    [] b = "tool" -> "TOOL_ACTIVITY_DETECTED"
    [] b = "refusal" -> "REFUSED"
    [] OTHER -> "OUTPUT_INVALID"

AnthropicReading(b) ==
  CASE b = "answer" -> "ok"
    [] b = "tool" -> "TOOL_ACTIVITY_DETECTED"
    [] b = "refusal" -> "REFUSED"
    [] OTHER -> "OUTPUT_INVALID"

GeminiReading(b) == IF b = "answer" THEN "ok" ELSE "OUTPUT_INVALID"

\* An error body of the expected shape is its machine code.
ErrorBodies == {"model", "refusal", "precondition", "not_found", "invalid_request", "other"}

OpenAiClass(s, e) ==
  CASE e = "model" -> "MODEL_INCOMPATIBLE"
    [] e = "refusal" -> "REFUSED"
    [] OTHER -> "EXECUTION_FAILED"

AnthropicClass(s, e) ==
  IF (s \in {400, 422} /\ e = "invalid_request") \/ (s = 404 /\ e = "not_found")
  THEN "MODEL_INCOMPATIBLE" ELSE "EXECUTION_FAILED"

GeminiClass(s, e) ==
  CASE e = "refusal" -> "REFUSED"
    [] e = "precondition" -> "QUOTA_OR_BILLING"
    [] \/ e = "model"
       \/ s = 404 /\ e = "not_found"
       \/ s \in {400, 422} /\ e = "invalid_request" -> "MODEL_INCOMPATIBLE"
    [] OTHER -> "EXECUTION_FAILED"

Refusals(p) ==
  CASE p = "openai_api" -> OpenAiRefusals
    [] p = "claude_api" -> AnthropicRefusals
    [] p = "gemini_api" -> GeminiRefusals

Reading(p, b) ==
  CASE p = "openai_api" -> OpenAiReading(b)
    [] p = "claude_api" -> AnthropicReading(b)
    [] p = "gemini_api" -> GeminiReading(b)

Class(p, s, e) ==
  CASE p = "openai_api" -> OpenAiClass(s, e)
    [] p = "claude_api" -> AnthropicClass(s, e)
    [] p = "gemini_api" -> GeminiClass(s, e)

ApiProviders == {"openai_api", "claude_api", "gemini_api"}

\* statusErrorCode
StatusCode(s) ==
  CASE s \in {401, 403} -> "AUTH_REQUIRED"
    [] s = 402 -> "QUOTA_OR_BILLING"
    [] s \in {408, 504} -> "TIMEOUT"
    [] s = 413 -> "REQUEST_TOO_LARGE"
    [] s = 429 -> "RATE_LIMITED"
    [] s \in {500, 502, 503, 529} -> "TEMPORARILY_UNAVAILABLE"
    [] OTHER -> "EXECUTION_FAILED"

ClassifiableStatuses == {400, 404, 409, 422}

-----------------------------------------------------------------------------
Stages == {"none", "making", "copying", "reading", "cleaning", "secret",
           "headers", "body", "errorBody", "cli", "over"}
Sockets == {"none", "sent", "open"}
Spaces == {"none", "made"}

CallInit ==
  /\ aborted = [r \in Requests |-> FALSE]
  /\ stage = [r \in Requests |-> "none"]
  /\ verdict = [r \in Requests |-> "ok"]
  /\ socket = [r \in Requests |-> [n \in Attempts |-> "none"]]
  /\ space = [r \in Requests |-> "none"]

At(r, s) == stage' = [stage EXCEPT ![r] = s]

Over(r, code) == At(r, "over") /\ verdict' = [verdict EXCEPT ![r] = code]

Socket(r, n, s) == socket' = [socket EXCEPT ![r][n] = s]

-----------------------------------------------------------------------------
(* The adapter is entered: its copy of the request, the operation it       *)
(* registers, the checks on the files before anything is copied.           *)

BeginRefused(r, p) ==
  \E code \in IF aborted[r] THEN {"CANCELLED"} ELSE Refusals(p): Over(r, code)

MediaRefused(r) ==
  /\ ~aborted[r] /\ r \in WithFiles
  /\ \E code \in {"MEDIA_UNSUPPORTED", "REQUEST_TOO_LARGE"}: Over(r, code)

Begin(r) ==
  /\ ~aborted[r]
  /\ At(r, IF r \in WithFiles THEN "making" ELSE "secret")
  /\ verdict' = [verdict EXCEPT ![r] = "ok"]

BeginCall(r, p) ==
  /\ BeginRefused(r, p) \/ MediaRefused(r) \/ Begin(r)
  /\ UNCHANGED <<aborted, socket, space>>

(* The private directory of the request.                                   *)
MakeSpace(r) ==
  /\ stage[r] = "making"
  /\ \/ ~aborted[r] /\ At(r, "copying") /\ space' = [space EXCEPT ![r] = "made"]
        /\ UNCHANGED verdict
     \/ /\ Over(r, IF aborted[r] THEN "CANCELLED" ELSE "EXECUTION_FAILED")
        /\ UNCHANGED space
  /\ UNCHANGED <<aborted, socket>>

(* The sources are read, verified and copied into it.                      *)
CopySources(r) ==
  /\ stage[r] = "copying"
  /\ \/ ~aborted[r] /\ At(r, "reading") /\ UNCHANGED verdict
     \/ /\ At(r, "cleaning")
        /\ \E code \in IF aborted[r] THEN {"CANCELLED"} ELSE SourceFails:
             verdict' = [verdict EXCEPT ![r] = code]
  /\ UNCHANGED <<aborted, socket, space>>

(* The copies are read back into the body of the request.                  *)
ReadCopies(r) ==
  /\ stage[r] = "reading"
  /\ At(r, "cleaning")
  /\ \E code \in IF aborted[r] THEN {"CANCELLED"}
                 ELSE {"ok"} \cup SourceFails \cup MediaFails:
       verdict' = [verdict EXCEPT ![r] = code]
  /\ UNCHANGED <<aborted, socket, space>>

(* Cleaning runs whatever the reading came to; residual data outranks      *)
(* success and every other failure.                                        *)
CleanSpace(r) ==
  /\ stage[r] = "cleaning"
  /\ space' = [space EXCEPT ![r] = "none"]
  /\ IF verdict[r] = "ok" /\ ~aborted[r] THEN At(r, "secret") /\ UNCHANGED verdict
     ELSE Over(r, IF verdict[r] = "ok" THEN "CANCELLED" ELSE verdict[r])
  /\ UNCHANGED <<aborted, socket>>

CleanFails(r) ==
  /\ stage[r] = "cleaning"
  /\ Over(r, "RESIDUAL_DATA")
  /\ UNCHANGED <<aborted, socket, space>>

-----------------------------------------------------------------------------
(* The key, and in the same breath the request: header, body and timer.    *)

KeyRefused(r) ==
  /\ stage[r] = "secret"
  /\ \E code \in IF aborted[r] THEN {"CANCELLED"}
                 ELSE SecretFails \cup RequestFails: Over(r, code)
  /\ UNCHANGED <<aborted, socket, space>>

SendRequest(r, n) ==
  /\ stage[r] = "secret" /\ ~aborted[r]
  /\ At(r, "headers") /\ Socket(r, n, "sent")
  /\ UNCHANGED <<aborted, verdict, space>>

(* A response ends the call with its body cancelled, or leaves a body to   *)
(* read.                                                                   *)
DropResponse(r, n, code) == Over(r, code) /\ Socket(r, n, "none")

Respond(r, n, s) ==
  /\ stage[r] = "headers"
  /\ \/ s \in 200..299 /\ At(r, "body") /\ Socket(r, n, "open") /\ UNCHANGED verdict
     \/ /\ s \in 200..299
        /\ \E code \in {"RESPONSE_TOO_LARGE", "OUTPUT_INVALID"}: DropResponse(r, n, code)
     \/ s \in 300..399 /\ DropResponse(r, n, "NETWORK_FAILED")
     \/ s \in ClassifiableStatuses /\ At(r, "errorBody") /\ Socket(r, n, "open")
        /\ UNCHANGED verdict
     \/ s \in ClassifiableStatuses /\ DropResponse(r, n, "RESPONSE_TOO_LARGE")
     \/ s \in (400..599) \ ClassifiableStatuses /\ DropResponse(r, n, StatusCode(s))
  /\ UNCHANGED <<aborted, space>>

TransportFails(r, n) ==
  /\ stage[r] = "headers"
  /\ DropResponse(r, n, "NETWORK_FAILED")
  /\ UNCHANGED <<aborted, space>>

(* The body of a success: too long, broken off, or read and parsed.  Of an  *)
(* error: its class depends on a status that was one of the classifiable.  *)
ReadBody(r, n, p) ==
  /\ stage[r] = "body"
  /\ \E code \in {"RESPONSE_TOO_LARGE", "NETWORK_FAILED"} \cup {Reading(p, b): b \in Bodies}:
       DropResponse(r, n, code)
  /\ UNCHANGED <<aborted, space>>

ReadErrorBody(r, n, p) ==
  /\ stage[r] = "errorBody"
  /\ \E code \in {"RESPONSE_TOO_LARGE", "EXECUTION_FAILED"}
                  \cup {Class(p, s, e): s \in Statuses \cap ClassifiableStatuses, e \in ErrorBodies}:
       DropResponse(r, n, code)
  /\ UNCHANGED <<aborted, space>>

\* A slip: the body of the response is left open.
CutExchangeSlip(r, n, code) == Over(r, code) /\ UNCHANGED socket

(* A signal while the exchange is under way: before the headers the call   *)
(* leaves the transport behind, after them it cancels the body.            *)
CutExchange(r, n, code) ==
  /\ Over(r, code)
  /\ IF stage[r] = "headers" THEN UNCHANGED socket ELSE Socket(r, n, "none")

InExchange(r) == stage[r] \in {"headers", "body", "errorBody"}

\* A slip: the timer is cleared when the headers are there.
HttpTimeoutSlip(r, n) ==
  /\ stage[r] = "headers"
  /\ CutExchange(r, n, "TIMEOUT")
  /\ UNCHANGED <<aborted, space>>

HttpTimeout(r, n) ==
  /\ InExchange(r)
  /\ CutExchange(r, n, "TIMEOUT")
  /\ UNCHANGED <<aborted, space>>

(* The transport of a call that is over settles: a response that comes     *)
(* after all has its body cancelled.                                       *)
LateResponse(r, n, current) ==
  /\ socket[r][n] = "sent" /\ ~(current /\ stage[r] = "headers")
  /\ Socket(r, n, "none")
  /\ UNCHANGED <<aborted, stage, verdict, space>>

(* The caller takes the call's outcome; nothing of the call remains.        *)
EndCall(r) ==
  /\ At(r, "none") /\ verdict' = [verdict EXCEPT ![r] = "ok"]
  /\ UNCHANGED <<aborted, socket, space>>

(* The request's signal reaches every call that listens: at once in the    *)
(* exchange, at the next check elsewhere.                                  *)
CancelCalls(R, turn) ==
  /\ aborted' = [r \in Requests |-> aborted[r] \/ r \in R]
  /\ LET cut(r) == r \in R /\ ~aborted[r] /\ InExchange(r) IN
     /\ stage' = [r \in Requests |-> IF cut(r) THEN "over" ELSE stage[r]]
     /\ verdict' = [r \in Requests |-> IF cut(r) THEN "CANCELLED" ELSE verdict[r]]
     /\ socket' = [r \in Requests |-> [n \in Attempts |->
          IF cut(r) /\ n = turn[r] /\ stage[r] # "headers" THEN "none" ELSE socket[r][n]]]
  /\ UNCHANGED <<space>>
=============================================================================
