------------------------------- MODULE LLMCalls -------------------------------
(***************************************************************************)
(* A call of a language model (llm/): which provider and model a task      *)
(* gets (router.py), how often a provider is tried (base.py), and what     *)
(* becomes of a conversation with tool calls on its way to each provider   *)
(* (claude.py, gemini.py, deepseek.py, claude_code.py).                    *)
(*                                                                         *)
(* A model is named by what it is for; "" is no model.  What a provider    *)
(* answers to the attempts of one call is a sequence that is given.        *)
(***************************************************************************)
EXTENDS Orders, SequencesExt

CONSTANTS MaxRetries \* max_retries

ASSUME LLMCallsAssumption == MaxRetries \in Nat \ {0}

Tasks == {"route", "search", "tools", "deep", "embed", "image"}
Providers == {"claude", "claude_code", "gemini", "deepseek"}

(* TASK_REQUIREMENTS *)
Needed(task) ==
  CASE task \in {"route", "search"} -> {"chat", "json_mode"}
    [] task = "tools" -> {"chat", "tools"}
    [] task = "deep"  -> {"chat"}
    [] task = "embed" -> {"embed"}
    [] task = "image" -> {"image_gen"}

(* The credentials of this process: a Claude key, token or profile; the CLI and its login. *)
AutoProvider(env) ==
  IF env.claude_auth THEN "claude"
  ELSE IF env.claude_code_auto /\ env.cli_logged_in THEN "claude_code"
  ELSE "gemini"

EffectiveProvider(name, env) == IF name = "auto" THEN AutoProvider(env) ELSE name

DefaultModel(provider, task) ==
  IF task \in {"embed", "image"}
  THEN IF provider \in {"claude", "claude_code", "deepseek"} THEN "" ELSE task
  ELSE IF provider = "deepseek" /\ task = "deep" THEN "reasoner" ELSE "chat"

(* capabilities of the four providers; a Claude model is one whose name begins so. *)
Capabilities(provider, model) ==
  CASE provider = "claude"      -> IF model = "claude" \/ model = "chat" THEN {"chat", "tools", "json_mode"} ELSE {}
    [] provider = "claude_code" -> IF model = "" THEN {} ELSE {"chat", "json_mode"}
    [] provider = "gemini"      -> CASE model = "embed" -> {"embed"}
                                     [] model = "image" -> {"chat", "tools", "json_mode", "image_gen"}
                                     [] OTHER -> {"chat", "tools", "json_mode"}
    [] provider = "deepseek"    -> {"chat", "json_mode"} \cup (IF model = "chat" THEN {"tools"} ELSE {})

Can(provider, model, task) == model # "" /\ Needed(task) \subseteq Capabilities(provider, model)

NoProvider == [provider |-> "error", model |-> ""]

(* LLM_TASK_<task> is provider:model, provider, or empty. *)
Requested(cfg, env, task) ==
  LET name == EffectiveProvider(IF cfg.task_provider = "" THEN cfg.provider ELSE cfg.task_provider, env) IN
  [provider |-> name,
   model |-> IF cfg.task_provider # "" /\ cfg.task_model # "" THEN cfg.task_model ELSE DefaultModel(name, task)]

(* Mutated: the fallback's abilities are not looked at. *)
Fallback_Unchecked(cfg, env, task) ==
  LET name == EffectiveProvider(cfg.fallback, env) IN
  [provider |-> name, model |-> DefaultModel(name, task)]

Fallback(cfg, env, task) ==
  LET name == EffectiveProvider(cfg.fallback, env)
      model == DefaultModel(name, task) IN
  IF Can(name, model, task) THEN [provider |-> name, model |-> model] ELSE NoProvider

Resolve(cfg, env, task) ==
  LET r == Requested(cfg, env, task) IN
  IF r.provider \notin Providers THEN NoProvider
  ELSE IF Can(r.provider, r.model, task) THEN r
  ELSE IF EffectiveProvider(cfg.fallback, env) \notin Providers THEN NoProvider
  ELSE Fallback(cfg, env, task)

-----------------------------------------------------------------------------
(* _with_retry.  An attempt ends in "ok", "retryable" (a status of         *)
(* RETRYABLE_STATUS), "network" (no status), "final" (another status).     *)

Retryable == {"retryable", "network"}

(* Mutated: every error is tried again. *)
GivesUp_Never(outcome) == outcome = "ok"

GivesUp(outcome) == outcome \notin Retryable

Attempts(outcomes) ==
  LET ends == {i \in DOMAIN outcomes : GivesUp(outcomes[i])} IN
  Min(ends \cup {MaxRetries})

WithRetry(outcomes) == [attempts |-> Attempts(outcomes), last |-> outcomes[Attempts(outcomes)]]

(* The statuses that a provider's error has: those of an HTTP answer; no status when there was none *)
(* (deepseek.py, claude.py, gemini.py), when a body is not JSON, or when the CLI says nothing that   *)
(* is known (claude_code.py).                                                                        *)
Outcome(provider, event) ==
  CASE event = "answer" -> "ok"
    [] event \in {"timeout", "unreachable", "not_json"} -> "network"
    [] event \in {"429", "500", "overloaded"} -> "retryable"
    [] event \in {"400", "401"} -> "final"
    [] event = "not_started" -> IF provider = "claude_code" THEN "final" ELSE "network"

-----------------------------------------------------------------------------
(* Conversations.  A message has a role, whether it has text, the ids of   *)
(* its tool calls, and for a result the id of the call.                    *)

Blocks(m) == [i \in DOMAIN m.calls |-> [type |-> "tool_use", id |-> m.calls[i]]]
ResultBlock(m) == [type |-> "tool_result", id |-> m.answers]

IsResults(x) == x.role = "user" /\ x.blocks # <<>> /\ \A i \in DOMAIN x.blocks : x.blocks[i].type = "tool_result"

(* Mutated: one user message for each result. *)
AddToClaude_Apart(out, m) ==
  CASE m.role = "system" -> out
    [] m.role = "tool" -> Append(out, [role |-> "user", text |-> FALSE, blocks |-> <<ResultBlock(m)>>])
    [] OTHER -> Append(out, [role |-> m.role, text |-> m.text, blocks |-> Blocks(m)])

(* split_messages of claude.py: the results of one round are one message of the user. *)
AddToClaude(out, m) ==
  CASE m.role = "system" -> out
    [] m.role = "tool" ->
         IF out # <<>> /\ IsResults(out[Len(out)])
         THEN [out EXCEPT ![Len(out)].blocks = Append(@, ResultBlock(m))]
         ELSE Append(out, [role |-> "user", text |-> FALSE, blocks |-> <<ResultBlock(m)>>])
    [] OTHER ->
         IF ~m.text /\ m.calls = <<>> THEN out
         ELSE Append(out, [role |-> m.role, text |-> m.text, blocks |-> Blocks(m)])

ToClaude(messages) == FoldLeft(AddToClaude, <<>>, messages)

(* The messages that are a turn: not the system's, nor those without text, calls and result. *)
Turns(messages) ==
  Selected(messages, {i \in DOMAIN messages :
    LET m == messages[i] IN m.role # "system" /\ (m.text \/ m.calls # <<>> \/ m.role = "tool")})

(* _split_messages of gemini.py: one content for each message; calls and results are parts. *)
ToGemini(messages) ==
  LET kept == Turns(messages) IN
  [i \in DOMAIN kept |->
     [role |-> IF kept[i].role = "assistant" THEN "model" ELSE "user",
      text |-> kept[i].text,
      blocks |-> IF kept[i].role = "tool" THEN <<ResultBlock(kept[i])>> ELSE Blocks(kept[i])]]

(* _to_openai_msg of deepseek.py: one for each message, the system's too. *)
ToOpenAI(messages) ==
  [i \in DOMAIN messages |->
     [role |-> messages[i].role, text |-> messages[i].text,
      blocks |-> IF messages[i].role = "tool" THEN <<ResultBlock(messages[i])>> ELSE Blocks(messages[i])]]

(* render_prompt of claude_code.py: turns of one text; calls and results are lines of it. *)
ToTranscript(messages) ==
  LET turns == Turns(messages) IN
  [i \in DOMAIN turns |-> IF turns[i].role = "tool" THEN "tool_result" ELSE turns[i].role]

-----------------------------------------------------------------------------
(* Replies.  A reply has text or not, the ids of its calls in order,       *)
(* whether the model refused to go on, and whether it is a choice at all.  *)

Result(text, calls) == [ok |-> TRUE, text |-> text, calls |-> calls]
Failed == [ok |-> FALSE, text |-> FALSE, calls |-> <<>>]

(* Mutated: a refused reply keeps the calls that had been written. *)
ParseClaude_KeepsCalls(reply) ==
  IF reply.refused THEN Result(FALSE, reply.calls) ELSE Result(reply.text, reply.calls)

(* parse_response: of a refused reply nothing is used. *)
ParseClaude(reply) ==
  IF reply.refused THEN Result(FALSE, <<>>) ELSE Result(reply.text, reply.calls)

(* _parse_chat of gemini.py: an answer without candidates is an empty one. *)
ParseGemini(reply) ==
  IF reply.chosen THEN Result(reply.text, reply.calls) ELSE Result(FALSE, <<>>)

(* _parse_chat of deepseek.py *)
ParseDeepSeek(reply) ==
  IF reply.chosen THEN Result(reply.text, reply.calls) ELSE Failed

(* _decode and parse_result: the CLI's own error is an error; it has no calls. *)
ParseCli(reply) ==
  IF reply.chosen THEN Result(reply.text, <<>>) ELSE Failed

Parse(provider, reply) ==
  CASE provider = "claude"      -> ParseClaude(reply)
    [] provider = "gemini"      -> ParseGemini(reply)
    [] provider = "deepseek"    -> ParseDeepSeek(reply)
    [] provider = "claude_code" -> ParseCli(reply)
=============================================================================
