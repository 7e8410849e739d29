-------------------------- MODULE ProviderAnswers --------------------------
(***************************************************************************)
(* What the program makes of the answers of its six providers: the parsers *)
(* of the command lines (codexCliProtocol.ts, antigravityCliProtocol.ts,   *)
(* geminiCliProtocol.ts) and of the HTTP interfaces                        *)
(* (openAiApiProtocol.ts, anthropicApiProtocol.ts, geminiApiProtocol.ts).  *)
(*                                                                         *)
(* An answer is the sequence of its items, an event of a stream, an item   *)
(* of an output or a model of a list, and the way it ended.  An item is    *)
(* what the parser tells it apart as: "odd" is one whose fields are not    *)
(* those agreed on, "misfit" a text that is not what the request asked     *)
(* for.  The largest sizes and counts are left out.                        *)
(***************************************************************************)
EXTENDS Naturals, Sequences, FiniteSetsExt

CommandLines == {"codex_cli", "antigravity_cli", "gemini_cli"}
Interfaces == {"openai_api", "claude_api", "gemini_api"}
AllProviders == CommandLines \cup Interfaces

\* What the items of an answer are told apart as.  "armed" names a tool nobody
\* knows, "unknown" is a step of another kind, "counted" a result that counts the
\* use of tools, "other" and "rerouted" name another model than the one asked for,
\* and "broken" is no JSON as the program writes it.
Kinds == [
  codex_cli |-> {"thread", "turn", "reasoning", "message", "misfit", "completed", "tool",
                 "odd", "untyped", "broken"},
  antigravity_cli |-> {"init", "armed", "step", "unknown", "result", "misfit", "tool", "odd",
                       "broken"},
  gemini_cli |-> {"init", "other", "echo", "delta", "misfit", "result", "counted", "rerouted",
                  "tool", "odd", "untimed", "broken"},
  openai_api |-> {"reasoning", "message", "misfit", "refusal", "tool", "odd"},
  claude_api |-> {"reasoning", "message", "misfit", "tool", "odd"},
  gemini_api |-> {"message", "misfit", "tool", "odd"}]

\* The models of a list that are what a list may name; Gemini leaves out the third,
\* which generates nothing, after it has been looked at.
Models == {"first", "second", "third"}
ListKinds(p) == Models \cup {"odd"} \cup IF p = "antigravity_cli" THEN {"header"} ELSE {}

\* The fixed words by which a command line says why it failed.
Tokens == [
  codex_cli |-> {"AUTH_REQUIRED", "QUOTA_OR_BILLING", "RATE_LIMITED", "CANCELLED"},
  antigravity_cli |-> {"AUTH_REQUIRED", "QUOTA_OR_BILLING", "CANCELLED", "MODEL_INCOMPATIBLE",
                       "RATE_LIMITED", "NETWORK_FAILED", "TEMPORARILY_UNAVAILABLE", "REFUSED"},
  gemini_cli |-> {"ACCOUNT_UNSUPPORTED"}]

\* How an answer ends: a process, with text on its error output, with another exit
\* code than zero, or one of the words; a response, with a root that is not that of
\* a completed one ("partial"), an account of tokens that is wrong ("spent"), or, at
\* Claude, a reason of its own or tools counted by the server ("served").
Endings(p) ==
  CASE p \in CommandLines -> {"clean", "noisy", "exit"} \cup Tokens[p]
    [] p = "claude_api" -> {"clean", "partial", "spent", "refusal", "tool_use", "served"}
    [] OTHER -> {"clean", "partial", "spent"}
ListEndings(p) == Endings(p) \ {"spent", "refusal", "tool_use", "served"}

-----------------------------------------------------------------------------
(* The parsers, check by check in their order.                             *)

\* The first of the codes that refuses, in the order of the places.
Stop(says) ==
  LET bad == {n \in DOMAIN says : says[n] # "ok"}
  IN  IF bad = {} THEN "ok" ELSE says[Min(bad)]

Must(holds, code) == IF holds THEN "ok" ELSE code
Item(s, n) == IF n \in DOMAIN s THEN s[n] ELSE "none"
Ends(s) == Item(s, Len(s))
Before(s, n, kinds) == \E i \in 1..(n - 1) : s[i] \in kinds
Texts == {"message", "misfit", "refusal"}

\* assert...Success: the exit code, then the error output.
ExitCode(p, e) == IF e = "exit" THEN "EXECUTION_FAILED" ELSE IF e \in Tokens[p] THEN e ELSE "ok"
Success(p, e) == Stop(<<ExitCode(p, e), Must(e # "noisy", "OUTPUT_INVALID")>>)

\* parseJsonlLines, parseStreamLines: every line, before any event is looked at.
Lines(s, least) ==
  Must(Len(s) >= least /\ \A n \in DOMAIN s : s[n] # "broken", "OUTPUT_INVALID")

\* rejectToolLikeEvents: whatever comes first, a tool or an event without a type.
CodexTools(s) == Stop([n \in DOMAIN s |->
  CASE s[n] = "tool" -> "TOOL_ACTIVITY"
    [] s[n] = "untyped" -> "OUTPUT_INVALID"
    [] OTHER -> "ok"])

\* The loop over the items of a turn: thoughts, then one text.
CodexItems(s) == Stop([n \in 3..(Len(s) - 1) |->
  Must(CASE s[n] = "reasoning" -> ~Before(s, n, Texts)
         [] s[n] \in {"message", "misfit"} -> ~Before(s, n, Texts)
         [] OTHER -> FALSE, "OUTPUT_INVALID")])

\* What a bug would make of it: the ends are looked at before the tools.
CodexEndsFirst(s) == Stop(<<
  Lines(s, 4),
  Must(Item(s, 1) = "thread" /\ Item(s, 2) = "turn" /\ Ends(s) = "completed", "OUTPUT_INVALID"),
  CodexTools(s), CodexItems(s),
  Must(\E n \in DOMAIN s : s[n] = "message", "OUTPUT_INVALID")>>)

Codex(s) == Stop(<<
  Lines(s, 4),
  CodexTools(s),
  Must(Item(s, 1) = "thread" /\ Item(s, 2) = "turn" /\ Ends(s) = "completed", "OUTPUT_INVALID"),
  CodexItems(s),
  Must(\E n \in DOMAIN s : s[n] = "message", "OUTPUT_INVALID")>>)

AntigravityTools(s) == Must(\A n \in DOMAIN s : s[n] # "tool", "TOOL_ACTIVITY")

\* The first event, with the tools it names.
AntigravityInit(s) == Stop(<<
  Must(Item(s, 1) \in {"init", "armed"}, "OUTPUT_INVALID"),
  Must(Item(s, 1) # "armed", "TOOL_ACTIVITY")>>)

AntigravitySteps(s) == Stop([n \in 2..(Len(s) - 1) |->
  CASE s[n] = "step" -> "ok"
    [] s[n] = "unknown" -> "TOOL_ACTIVITY"
    [] OTHER -> "OUTPUT_INVALID"])

Antigravity(s) == Stop(<<
  Lines(s, 2), AntigravityTools(s), AntigravityInit(s), AntigravitySteps(s),
  Must(Ends(s) = "result", "OUTPUT_INVALID")>>)

\* Event by event: an object, no tool, a time.
GeminiTools(s) == Stop([n \in DOMAIN s |->
  CASE s[n] = "tool" -> "TOOL_ACTIVITY"
    [] s[n] = "untimed" -> "OUTPUT_INVALID"
    [] OTHER -> "ok"])

GeminiInit(s) == Stop(<<
  Must(Item(s, 1) \in {"init", "other"}, "OUTPUT_INVALID"),
  Must(Item(s, 1) # "other", "MODEL_INCOMPATIBLE"),
  Must(Item(s, 2) = "echo", "OUTPUT_INVALID")>>)

GeminiDeltas(s) == Must(\A n \in 3..(Len(s) - 1) : s[n] \in {"delta", "misfit"}, "OUTPUT_INVALID")

\* parseStats: the tools counted, then the models.
GeminiStats(s) ==
  CASE Ends(s) = "result" -> "ok"
    [] Ends(s) = "counted" -> "TOOL_ACTIVITY"
    [] Ends(s) = "rerouted" -> "MODEL_INCOMPATIBLE"
    [] OTHER -> "OUTPUT_INVALID"

Gemini(s) == Stop(<<
  Lines(s, 2), GeminiTools(s), Must(Len(s) >= 4, "OUTPUT_INVALID"), GeminiInit(s), GeminiDeltas(s),
  GeminiStats(s), Must(\A n \in DOMAIN s : s[n] # "misfit", "OUTPUT_INVALID")>>)

\* What a bug would make of it: thoughts may follow the text.
OutputItemLate(s, n) ==
  IF s[n] = "tool" THEN "TOOL_ACTIVITY"
  ELSE IF s[n] = "odd" \/ (s[n] \in Texts /\ Before(s, n, Texts)) THEN "OUTPUT_INVALID"
  ELSE IF s[n] = "refusal" THEN "REFUSED" ELSE "ok"

\* What a loop over the items of an output says of one: thoughts, then one text.
OutputItem(s, n) ==
  IF s[n] = "tool" THEN "TOOL_ACTIVITY"
  ELSE IF s[n] = "odd" \/ Before(s, n, Texts) THEN "OUTPUT_INVALID"
  ELSE IF s[n] = "refusal" THEN "REFUSED" ELSE "ok"

Output(s) == Stop([n \in DOMAIN s |-> OutputItem(s, n)])

\* The blocks of a content: the same, without a refusal among them.
ContentBlock(s, n) ==
  IF s[n] = "tool" THEN "TOOL_ACTIVITY"
  ELSE IF s[n] = "odd" \/ Before(s, n, Texts) THEN "OUTPUT_INVALID" ELSE "ok"

Content(s) == Stop([n \in DOMAIN s |-> ContentBlock(s, n)])

\* parseGeneratedOutput: the text is the one that was asked for.
Generated(s) == Must(\E n \in DOMAIN s : s[n] = "message", "OUTPUT_INVALID")

OpenAiRoot(e) == Must(e # "partial", "OUTPUT_INVALID")
OpenAiUsage(e) == Must(e # "spent", "OUTPUT_INVALID")
OpenAi(s, e) == Stop(<<OpenAiRoot(e), Output(s), Generated(s), OpenAiUsage(e)>>)

AnthropicReason(e) ==
  CASE e = "refusal" -> "REFUSED"
    [] e = "tool_use" -> "TOOL_ACTIVITY"
    [] e = "partial" -> "OUTPUT_INVALID"
    [] OTHER -> "ok"

AnthropicUsage(e) ==
  CASE e = "served" -> "TOOL_ACTIVITY"
    [] e = "spent" -> "OUTPUT_INVALID"
    [] OTHER -> "ok"

Anthropic(s, e) == Stop(<<AnthropicReason(e), Content(s), Generated(s), AnthropicUsage(e)>>)

\* One step with one text; nothing is told apart, tools neither.
Interaction(s, e) == Must(e = "clean" /\ s = <<"message">>, "OUTPUT_INVALID")

Judged(p, s, e) ==
  CASE p = "codex_cli" -> Stop(<<Success(p, e), Codex(s)>>)
    [] p = "antigravity_cli" -> Stop(<<Success(p, e), Antigravity(s)>>)
    [] p = "gemini_cli" -> Stop(<<Success(p, e), Gemini(s)>>)
    [] p = "openai_api" -> OpenAi(s, e)
    [] p = "claude_api" -> Anthropic(s, e)
    [] p = "gemini_api" -> Interaction(s, e)

\* The lists of models: each sound, and none twice.
Fresh(s, from) == Stop([n \in from..Len(s) |->
  Must(s[n] \in Models /\ \A m \in from..(n - 1) : s[m] # s[n], "OUTPUT_INVALID")])

AntigravityList(s, e) == Stop(<<
  Success("antigravity_cli", e),
  Must(Len(s) >= 2 /\ Item(s, 1) = "header", "OUTPUT_INVALID"), Fresh(s, 2)>>)
OpenAiList(s, e) == Stop(<<Must(e = "clean", "OUTPUT_INVALID"), Fresh(s, 1)>>)
AnthropicList(s, e) == Stop(<<Must(e = "clean", "OUTPUT_INVALID"), Fresh(s, 1)>>)
GeminiList(s, e) == Stop(<<Must(e = "clean", "OUTPUT_INVALID"), Fresh(s, 1)>>)

Listed(p, s, e) ==
  CASE p = "antigravity_cli" -> AntigravityList(s, e)
    [] p = "openai_api" -> OpenAiList(s, e)
    [] p = "claude_api" -> AnthropicList(s, e)
    [] p = "gemini_api" -> GeminiList(s, e)

-----------------------------------------------------------------------------
(* The answers agreed on, stated without the order of the checks.          *)

Repeat(k, n) == [i \in 1..n |-> k]

\* The sound answer of a provider with n thoughts, steps or pieces.
Shape(p, n) ==
  CASE p = "codex_cli" -> <<"thread", "turn">> \o Repeat("reasoning", n) \o <<"message", "completed">>
    [] p = "antigravity_cli" -> <<"init">> \o Repeat("step", n) \o <<"result">>
    [] p = "gemini_cli" -> <<"init", "echo", "delta">> \o Repeat("delta", n) \o <<"result">>
    [] p \in {"openai_api", "claude_api"} -> Repeat("reasoning", n) \o <<"message">>
    [] p = "gemini_api" -> <<"message">>

SoundAnswer(p, s, e) == e = "clean" /\ \E n \in 0..Len(s) : s = Shape(p, n)

SoundList(p, s, e) ==
  LET from == IF p = "antigravity_cli" THEN 2 ELSE 1 IN
  /\ e = "clean"
  /\ from = 2 => Len(s) >= 2 /\ s[1] = "header"
  /\ \A n \in from..Len(s) : s[n] \in Models
  /\ Cardinality({s[n] : n \in from..Len(s)}) = Len(s) - from + 1

\* What may still become a sound answer.
Viable(p, s) == \E n \in 0..Len(s) :
  Len(s) <= Len(Shape(p, n)) /\ s = SubSeq(Shape(p, n), 1, Len(s))

\* The harmless item that one with a sign of tools stands in for.
Harmless(k) ==
  CASE k = "armed" -> "init" [] k = "unknown" -> "step" [] k = "counted" -> "result" [] OTHER -> k
=============================================================================
