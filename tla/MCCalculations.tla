----------------------------- MODULE MCCalculations -----------------------------
(***************************************************************************)
(* The inputs of Calculations.                                             *)
(***************************************************************************)
EXTENDS Calculations

Case(what, inputs) == {[what |-> what, input |-> in] : in \in inputs}
Lists(S, n) == {<<>>} \cup UNION {{s \in [1..k -> S] : IsInjective(s)} : k \in 1..n}

(* Chats of up to four messages, of equal or of different lengths. *)
Chats(ids) == {[i \in DOMAIN SetToSortSeq(ids, <) |->
                  [id |-> SetToSortSeq(ids, <)[i], cost |-> IF long THEN 1 + (SetToSortSeq(ids, <)[i] % 2) ELSE 1]] :
                  long \in BOOLEAN}

Questions ==
  {[strategy |-> "auto", timed |-> t, keywords |-> k, summary |-> s, window |-> w] :
     t \in BOOLEAN, k \in BOOLEAN, s \in BOOLEAN, w \in {0, 2}}
  \cup {[strategy |-> x, timed |-> FALSE, keywords |-> FALSE, summary |-> FALSE, window |-> w] :
          x \in {"recent", "search", "window"}, w \in {0, 2}}

Contexts ==
  UNION {{[chat |-> c, q |-> q, fts |-> f, vec |-> v, synced |-> s, limit |-> 3, budget |-> b] :
            c \in Chats(ids), q \in Questions, f \in Lists(ids, 1), v \in Lists(ids, 1),
            s \in (IF ids = {} THEN {FALSE} ELSE BOOLEAN), b \in {2, 3}} : ids \in {{}, {2}, {1, 4}, {1, 2, 4}, 1..4}}

Fusions == {[fts |-> f, vec |-> v] : f \in Lists(1..3, 3), v \in Lists(1..3, 3)}

Windows == UNION {[1..n -> {1, 4, 7}] : n \in 1..5}

(* Two chats of account A that one name matches, one of account B, one not synchronised. *)
Database ==
  {[id |-> 1, account |-> "A", peer |-> 11, synced |-> 3, username |-> {"news"}, title |-> {"daily"}],
   [id |-> 2, account |-> "A", peer |-> 3, synced |-> 2, username |-> {"news"}, title |-> {"daily", "x"}],
   [id |-> 3, account |-> "B", peer |-> 11, synced |-> 5, username |-> {"news"}, title |-> {"daily"}],
   [id |-> 4, account |-> "A", peer |-> 12, synced |-> 0, username |-> {"new"}, title |-> {"y"}]}

ToolCalls ==
  {[chats |-> Database, msgs |-> [c \in 1..4 |-> SubSeq(<<1, 2, 4, 5>>, 1, c)],
    context |-> x, given |-> g, conversation |-> "B",
    call |-> [tool |-> t, id |-> 4, limit |-> n, arg |-> a]] :
     x \in {NoChat} \cup {[account |-> c, peer |-> p] : c \in {"A", "B"}, p \in {11, 12}},
     g \in {NoChat, "A", "B"}, t \in {"recent", "around", "search"}, n \in {-1, 1, 3},
     a \in {[kind |-> "none", number |-> 0, word |-> ""]}
           \cup {[kind |-> "number", number |-> i, word |-> "i"] : i \in {1, 3, 4, 11, 12, 99}}
           \cup {[kind |-> "word", number |-> 0, word |-> w] : w \in {"news", "daily", "x", "z"}}}

Names == Providers \cup {"auto", "other"}

Routes ==
  {[cfg |-> [task_provider |-> s[1], task_model |-> s[2], provider |-> p, fallback |-> f],
    env |-> [claude_auth |-> e = 1, claude_code_auto |-> e # 3, cli_logged_in |-> e \in {2, 3}], task |-> t] :
     s \in {<<"", "">>, <<"auto", "">>, <<"deepseek", "">>, <<"deepseek", "reasoner">>, <<"gemini", "embed">>,
            <<"claude_code", "chat">>, <<"other", "">>},
     p \in Names, f \in Names, e \in 1..4, t \in Tasks}

Retries ==
  {[provider |-> p, events |-> s] :
     p \in Providers, s \in [1..MaxRetries -> {"answer", "timeout", "429", "401", "not_started", "not_json"}]}

(* The prompts that run_agent builds: history, question, rounds of calls and results, notes. *)
Msg(role, calls, answers) == [role |-> role, text |-> role # "assistant" \/ calls = <<>>, calls |-> calls, answers |-> answers]
Round(r, n, note) ==
  LET ids == [k \in 1..n |-> <<r, k>>] IN
  <<Msg("assistant", ids, <<>>)>> \o [k \in 1..n |-> Msg("tool", <<>>, ids[k])]
    \o (IF note THEN <<Msg("user", <<>>, <<>>)>> ELSE <<>>)

Conversations ==
  {<<Msg("system", <<>>, <<>>)>>
     \o (IF old THEN <<Msg("user", <<>>, <<>>), Msg("assistant", <<>>, <<>>)>> ELSE <<>>)
     \o <<Msg("user", <<>>, <<>>)>>
     \o FlattenSeq([r \in DOMAIN s |-> Round(r, s[r], notes[r])]) :
     old \in BOOLEAN, s \in UNION {[1..n -> 1..3] : n \in 1..2}, notes \in [1..2 -> BOOLEAN]}

Replies ==
  {[provider |-> x[1], reply |-> x[2]] :
     x \in {y \in Providers \X [text : BOOLEAN, calls : {<<>>, <<"a">>, <<"a", "b">>, <<"">>},
                                refused : BOOLEAN, chosen : BOOLEAN] :
            /\ y[2].refused => y[1] = "claude" /\ y[2].chosen
            /\ y[2].calls # <<>> => y[2].chosen /\ y[1] # "claude_code"
            /\ <<"">> = y[2].calls => y[1] = "gemini"
            /\ y[2].text => y[2].chosen}}

Posts ==
  {[published |-> h, age |-> a] : h \in 0..23, a \in (0..30) \cup (150..200) \cup (2100..2130)}

PostBatches == {[ids |-> [i \in 1..n |-> i], requests |-> r] : n \in 0..7, r \in 0..4}

Periods ==
  {[posts |-> {[id |-> i, at |-> f[i], views |-> i] : i \in 1..2},
    snapshots |-> {[post |-> 1, at |-> f[3], views |-> 3], [post |-> 1, at |-> 30, views |-> 5]},
    until |-> 48, days |-> 1] : f \in [1..3 -> {0, 23, 24, 30, 47, 48}]}

Requests == {s \in [1..5 -> 0..6] : \A i \in 1..4 : s[i] <= s[i + 1]}

MCCases ==
  Case("context", Contexts) \cup Case("fusion", Fusions) \cup Case("parts", Windows)
    \cup Case("tool", ToolCalls) \cup Case("route", Routes) \cup Case("retry", Retries)
    \cup Case("convert", Conversations) \cup Case("reply", Replies) \cup Case("snapshot", Posts) \cup Case("batches", PostBatches)
    \cup Case("stats", Periods) \cup Case("rate", Requests)
=============================================================================
