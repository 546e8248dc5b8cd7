------------------------------ MODULE Calculations ------------------------------
(***************************************************************************)
(* The calculations that turns and jobs rest on, each from every input of  *)
(* a small set: one step asks, one step answers.  What an answer must be   *)
(* is stated by properties that do not repeat how it is computed.          *)
(***************************************************************************)
EXTENDS Search, Tools, LLMCalls, Metrics, Limits

CONSTANT Cases \* records [what, input]

-----------------------------------------------------------------------------
(* What is asked for: the inputs that the callers of a calculation may give it. *)

IsSeq(s) == s \in Seq(Range(s))
Ordered(s) == \A i, j \in DOMAIN s : i < j => s[i] < s[j]

ContextCase(in) ==
  /\ in.chat \in Seq([id : Nat, cost : Nat]) /\ Ordered([i \in DOMAIN in.chat |-> in.chat[i].id])
  /\ in.q.window \in Nat /\ in.limit \in Nat \ {0} /\ in.budget \in Nat

(* A search returns no message twice, and far fewer than LongRanking. *)
LongRanking == 1000
FusionCase(in) ==
  \A list \in {in.fts, in.vec} : IsSeq(list) /\ IsInjective(list) /\ Len(list) <= LongRanking

PartsCase(in) == in \in Seq(Nat)
BatchesCase(in) == IsSeq(in.ids) /\ in.requests \in Nat

ToolCase(in) ==
  /\ \A c \in in.chats : in.msgs[c.id] \in Seq(Int) /\ Ordered(in.msgs[c.id])
  /\ in.call.tool \in {"recent", "around", "search"} /\ {in.call.id, in.call.limit} \subseteq Int
  /\ in.call.arg.kind \in {"none", "number", "word"}

RouteCase(in) == in.task \in Tasks

RetryCase(in) ==
  /\ in.provider \in Providers
  /\ in.events \in [1..MaxRetries -> {"answer", "timeout", "unreachable", "not_json", "not_started",
                                     "429", "500", "overloaded", "400", "401"}]

(* run_agent: only the assistant calls, and the results of its calls follow at once, in their order. *)
ConvertCase(in) ==
  /\ IsSeq(in)
  /\ \A i \in DOMAIN in :
       /\ in[i].role \in {"system", "user", "assistant", "tool"} /\ in[i].text \in BOOLEAN /\ IsSeq(in[i].calls)
       /\ in[i].calls # <<>> => in[i].role = "assistant"
       /\ \A k \in DOMAIN in[i].calls :
            i + k \in DOMAIN in /\ in[i + k].role = "tool" /\ in[i + k].answers = in[i].calls[k]
       /\ in[i].role = "tool" => \E j \in 1..(i - 1) : i - j \in DOMAIN in[j].calls

(* Only Claude says that it refuses; a reply that is no choice has nothing; the CLI offers no tools. *)
ReplyCase(in) ==
  /\ in.provider \in Providers
  /\ in.reply.text \in BOOLEAN /\ IsSeq(in.reply.calls) /\ {in.reply.refused, in.reply.chosen} \subseteq BOOLEAN
  /\ in.reply.refused => in.provider = "claude"
  /\ in.reply.calls # <<>> => in.reply.chosen /\ in.provider # "claude_code"

(* A post that is still of an age for its next snapshot. *)
SnapshotCase(in) == in.published \in 0..(Day - 1) /\ in.age \in Nat /\ in.age + 27 < 90 * Day

StatsCase(in) ==
  /\ IsFiniteSet(in.posts) /\ \A m \in in.posts : m.at \in Int /\ m.views \in Nat
  /\ IsFiniteSet(in.snapshots) /\ \A s \in in.snapshots : s.at \in Int
  /\ in.until \in Int /\ in.days \in Nat

(* time.monotonic() *)
RateCase(in) == in \in Seq(Int) /\ \A i, j \in DOMAIN in : i < j => in[i] <= in[j]

IsCase(c) ==
  \/ c.what = "context" /\ ContextCase(c.input)
  \/ c.what = "fusion" /\ FusionCase(c.input)
  \/ c.what = "parts" /\ PartsCase(c.input)
  \/ c.what = "tool" /\ ToolCase(c.input)
  \/ c.what = "route" /\ RouteCase(c.input)
  \/ c.what = "retry" /\ RetryCase(c.input)
  \/ c.what = "convert" /\ ConvertCase(c.input)
  \/ c.what = "reply" /\ ReplyCase(c.input)
  \/ c.what = "snapshot" /\ SnapshotCase(c.input)
  \/ c.what = "batches" /\ BatchesCase(c.input)
  \/ c.what = "stats" /\ StatsCase(c.input)
  \/ c.what = "rate" /\ RateCase(c.input)

ASSUME CalculationsAssumption == \A c \in Cases : IsCase(c)

-----------------------------------------------------------------------------
VARIABLES case, answer

asked == <<case, answer>>

NoAnswer == <<>>
Answers(what, value) == case.what = what /\ answer = NoAnswer /\ answer' = <<value>> /\ UNCHANGED case

SelectMessages ==
  LET in == case.input IN
  Answers("context", ResolveContext(in.synced, in.chat, in.q, in.fts, in.vec, in.limit, in.budget))

Fuse == Answers("fusion", RRF(case.input.fts, case.input.vec))

Split == Answers("parts", [chunks |-> Chunks(case.input), kept |-> NewestChunks(case.input)])

CallTool ==
  LET in == case.input
      account == TurnAccount(in.context, in.given, in.conversation) IN
  /\ case.what = "tool"
  /\ \E r \in RunTool(in.chats, account, Pinned(in.chats, in.context), in.call, in.msgs) : Answers("tool", r)

Route == Answers("route", Resolve(case.input.cfg, case.input.env, case.input.task))

Retry ==
  LET in == case.input IN
  Answers("retry", WithRetry([i \in DOMAIN in.events |-> Outcome(in.provider, in.events[i])]))

Convert ==
  LET in == case.input IN
  Answers("convert", [claude |-> ToClaude(in), gemini |-> ToGemini(in),
                      openai |-> ToOpenAI(in), transcript |-> ToTranscript(in)])

(* The reply to one call, and the message of it that the next call of the turn carries. *)
Read ==
  LET in == case.input
      got == Parse(in.provider, in.reply) IN
  Answers("reply", [parsed |-> got,
                    next |-> <<[role |-> "assistant", text |-> got.text, calls |-> got.calls, answers |-> <<>>]>>])

Snapshot == Answers("snapshot", NextSnapshot(case.input.published, case.input.age))

Batches == Answers("batches", SnapshotChat(case.input.ids, case.input.requests))

Stats == Answers("stats", ChatStats(case.input.posts, case.input.snapshots, case.input.until, case.input.days))

Rate == Answers("rate", Answered(case.input))

Ask == answer = NoAnswer /\ case \in Cases

Calculate ==
  \/ SelectMessages \/ Fuse \/ Split \/ CallTool
  \/ Route \/ Retry \/ Convert \/ Read
  \/ Snapshot \/ Batches \/ Stats \/ Rate

Calculations == Ask /\ [][Calculate]_asked

Given(what) == case.what = what /\ answer # NoAnswer

-----------------------------------------------------------------------------
(* The prompt has the newest messages of what was chosen, in their order, within the budget unless one *)
(* alone exceeds it; a chat with messages is never passed over, but for an empty window (select_context). *)
ContextIsUsable ==
  Given("context") =>
    LET in == case.input
        got == answer[1].messages
        newest == in.chat[Len(in.chat)] IN
    /\ Cost(got) <= in.budget \/ Len(got) = 1
    /\ \A i, j \in DOMAIN got : i < j => got[i].id < got[j].id
    /\ got = <<>> => in.chat = <<>> \/ answer[1].strategy \in {"digests", "window"}
    /\ got # <<>> => got[Len(got)] = newest

(* The fused ranking has each message once, and a message that no list ranks below another, and one *)
(* list above, comes first (rrf). *)
FusionIsFair ==
  Given("fusion") =>
    LET lists == <<case.input.fts, case.input.vec>>
        Place(l, id) == IF Contains(l, id) THEN Rank(l, id) ELSE Len(l) + 1
        got == answer[1] IN
    /\ IsInjective(got)
    /\ Range(got) = Range(lists[1]) \cup Range(lists[2])
    /\ \A i, j \in DOMAIN got :
         (/\ \A l \in Range(lists) : Place(l, got[i]) <= Place(l, got[j])
          /\ \E l \in Range(lists) : Place(l, got[i]) < Place(l, got[j])) => i < j

(* Parts lose no line and no post: those of a window together are the window, those that are summarised *)
(* its end, and a part is larger than its size only if it is one line (compact_window); what a snapshot *)
(* has stored is the beginning of the list (_chunks). *)
PartsAreWhole ==
  /\ Given("parts") =>
       LET parts == answer[1].chunks IN
       /\ FlattenSeq(parts) = case.input
       /\ IsSuffix(answer[1].kept, parts) /\ Len(answer[1].kept) <= MaxChunks
       /\ \A i \in DOMAIN parts : Size(parts[i]) <= ChunkSize + 1 \/ Len(parts[i]) = 1
  /\ Given("batches") =>
       /\ IsPrefix(answer[1], case.input.ids)
       /\ Len(answer[1]) = Min({Len(case.input.ids), SnapshotBatch * case.input.requests})

(* Whatever chat the model names, it is shown one of the turn's account, few messages of it, and *)
(* none that was not there (_resolve_chat, run_tool). *)
ToolsStayInside ==
  Given("tool") =>
    LET in == case.input IN
    answer[1].chat # NoChat =>
      /\ answer[1].chat.account = TurnAccount(in.context, in.given, in.conversation)
      /\ Range(answer[1].shown) \subseteq Range(in.msgs[answer[1].chat.id])
      /\ Len(answer[1].shown) <= Max({SearchMax, RecentMax, 2 * RadiusMax + 1})

(* A task goes to a provider that can do it, to the one that is configured whenever that can, and is *)
(* refused only when neither it nor the fallback can, or the configuration names no provider (resolve). *)
TaskIsServed ==
  Given("route") =>
    LET in == case.input
        wanted == Requested(in.cfg, in.env, in.task)
        second == EffectiveProvider(in.cfg.fallback, in.env)
        got == answer[1] IN
    /\ got # NoProvider => Needed(in.task) \subseteq Capabilities(got.provider, got.model)
    /\ wanted.provider \in Providers /\ Can(wanted.provider, wanted.model, in.task) => got = wanted
    /\ got = NoProvider /\ wanted.provider \in Providers /\ second \in Providers
         => ~Can(second, DefaultModel(second, in.task), in.task)

(* A call that a provider has refused for good is not repeated, any other at most MaxRetries times, *)
(* and no answer is asked for twice (_with_retry). *)
RetriesAreSpent ==
  Given("retry") =>
    LET in == case.input
        got == answer[1] IN
    /\ got.attempts \in 1..MaxRetries
    /\ \A i \in 1..(got.attempts - 1) : Outcome(in.provider, in.events[i]) \in {"retryable", "network"}
    /\ got.last \in {"retryable", "network"} => got.attempts = MaxRetries

(* On its way to a provider every tool call keeps its result, at the place where the provider wants it: *)
(* Claude in the next message, all together; DeepSeek one by one; Gemini as many as there were calls. *)
ResultsFollowCalls ==
  Given("convert") =>
    LET c == answer[1].claude
        o == answer[1].openai
        g == answer[1].gemini
        Ids(blocks) == [i \in DOMAIN blocks |-> blocks[i].id]
        Calls(x) == x.role \in {"assistant", "model"} /\ x.blocks # <<>> IN
    /\ \A i \in DOMAIN c : Calls(c[i]) =>
         i < Len(c) /\ IsResults(c[i + 1]) /\ Ids(c[i + 1].blocks) = Ids(c[i].blocks)
    /\ \A i \in DOMAIN o : Calls(o[i]) =>
         \A k \in DOMAIN o[i].blocks : o[i + k].role = "tool" /\ o[i + k].blocks[1].id = o[i].blocks[k].id
    /\ \A i \in DOMAIN g : Calls(g[i]) =>
         \A k \in DOMAIN g[i].blocks : IsResults(g[i + k])
    /\ Cardinality({i \in DOMAIN answer[1].transcript : answer[1].transcript[i] = "tool_result"})
         = Cardinality({i \in DOMAIN case.input : case.input[i].role = "tool"})

(* A reply's calls come back to the model as it wrote them; a reply that was refused, or of a provider *)
(* without tools, runs none, whatever stands in it; only an error has neither answer nor calls. *)
RepliesComeBack ==
  Given("reply") =>
    LET in == case.input
        got == answer[1].parsed
        Sent == CASE in.provider = "claude"   -> ToClaude(answer[1].next)
                  [] in.provider = "gemini"   -> ToGemini(answer[1].next)
                  [] in.provider = "deepseek" -> ToOpenAI(answer[1].next)
                  [] OTHER -> <<>> IN
    /\ got.calls # <<>> =>
         /\ got.calls = in.reply.calls
         /\ [i \in DOMAIN got.calls |-> Sent[1].blocks[i].id] = in.reply.calls
         /\ ~in.reply.refused /\ "tools" \in Capabilities(in.provider, "chat")
    /\ ~got.ok => ~in.reply.chosen

(* Every channel post of less than 90 days is measured again within an hour, six hours or, older than *)
(* a week, twenty-seven hours: three hours more than a day when it has just left the six-hour tier. *)
(* No run measures it twice (snapshot_tiers). *)
SnapshotsKeepUp ==
  Given("snapshot") =>
    LET in == case.input IN
    /\ answer[1] <= (IF in.age + 1 < Day THEN 1 ELSE IF in.age + 6 < 7 * Day THEN 6 ELSE 27)
    /\ Cardinality(TakenBy((in.published + in.age) % Day, in.age)) <= 1

(* The days and the hours of a period add up to its posts, and a period and the one it is compared *)
(* with to what both are together: no post is in both or in neither (chat_stats). *)
StatsAddUp ==
  Given("stats") =>
    LET in == case.input
        got == answer[1]
        both == ChatStats(in.posts, in.snapshots, in.until, 2 * in.days)
        Total(f) == FoldFunction(+, 0, f) IN
    /\ Total(got.by_weekday) = got.posts /\ Total(got.by_hour) = got.posts
    /\ got.posts + got.previous.posts = both.posts
    /\ got.views + got.previous.views = both.views
    /\ got.coverage <= both.coverage

(* No window of time has more accepted requests than the limit, and none is refused before: one who *)
(* asks too often is served again as soon as the window has moved on (RateLimiter). *)
RateIsLimited ==
  Given("rate") =>
    LET times == case.input
        Before(i) == {j \in 1..(i - 1) : answer[1][j] /\ times[i] - times[j] < Window} IN
    \A i \in DOMAIN times : answer[1][i] <=> Cardinality(Before(i)) < RateLimit

(* The prompt is fit for the question: what is chosen, ranked, split or shown by a tool is neither too *)
(* much nor of another account, and lacks nothing that it should have. *)
PromptsAreFit == ContextIsUsable /\ FusionIsFair /\ PartsAreWhole /\ ToolsStayInside

(* A call goes to a model that can answer it, as often as it has to, and with all that belongs to it. *)
ModelCallsAreSound == TaskIsServed /\ RetriesAreSpent /\ ResultsFollowCalls /\ RepliesComeBack

(* What is counted over windows of time is counted once: measurements, posts, requests. *)
WindowsAreExact == SnapshotsKeepUp /\ StatsAddUp /\ RateIsLimited
=============================================================================
