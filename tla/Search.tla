-------------------------------- MODULE Search --------------------------------
(***************************************************************************)
(* Which messages of a chat go into the prompt (services/search.py), and   *)
(* how direct mode finds and renders them (services/chat_service.py).      *)
(*                                                                         *)
(* A message is its id and the tokens it costs; a chat is the sequence of  *)
(* its messages, oldest first.  What the two searches of PostgreSQL find   *)
(* is given, best first; the words of a question are three flags.          *)
(***************************************************************************)
EXTENDS Orders, SequencesExt

CONSTANTS
  Neighbors,   \* NEIGHBORS
  RecentTail,  \* RECENT_TAIL
  TopK,        \* top_k of search_context
  ChunkSize,   \* MAP_CHUNK_CHARS
  MaxChunks,   \* MAP_MAX_CHUNKS
  LiveMax      \* LIVE_CONTEXT_MAX

ASSUME SearchAssumption ==
  /\ Neighbors \in Nat
  /\ {RecentTail, TopK, ChunkSize, MaxChunks, LiveMax} \subseteq Nat \ {0}

Cost(infos) == FoldSeq(LAMBDA m, n : m.cost + n, 0, infos)
From(infos, i) == SubSeq(infos, i, Len(infos))
Newest(infos, n) == From(infos, Max({1, Len(infos) - n + 1}))

(* Mutated: the oldest messages are kept. *)
FitBudget_Oldest(infos, budget) ==
  SubSeq(infos, 1, Max({i \in 0..Len(infos) : i <= 1 \/ Cost(SubSeq(infos, 1, i)) <= budget}))

(* fit_budget: the newest message, and those before it while they fit. *)
FitBudget(infos, budget) ==
  IF infos = <<>> THEN <<>>
  ELSE From(infos, Min({i \in DOMAIN infos :
                          i = Len(infos) \/ Cost(From(infos, i)) <= budget}))

-----------------------------------------------------------------------------
(* Two rankings become one.                                                *)

RRFK == 60
Scale == 61 * 62 * 63 * 64 \* the scores of the first four ranks are whole numbers of 1/Scale

Rank(list, id) == CHOOSE i \in DOMAIN list : list[i] = id
ListScore(list, id) == IF Contains(list, id) THEN Scale \div (RRFK + Rank(list, id)) ELSE 0

Score(fts, vec, id) == ListScore(fts, id) + ListScore(vec, id)

(* Equal scores stay in the order in which they were first met. *)
RRF(fts, vec) ==
  LET met == fts \o vec
      First(id) == Min({i \in DOMAIN met : met[i] = id})
      Before(a, b) == \/ Score(fts, vec, a) > Score(fts, vec, b)
                      \/ /\ Score(fts, vec, a) = Score(fts, vec, b)
                         /\ First(a) < First(b) IN
  InOrder(Range(met), Before)

(* What one search returns of its ranking: nothing without words, or without vectors. *)
Found(ranking, limit) == SubSeq(ranking, 1, Min({Len(ranking), limit}))

(* Each search finds twice as many as are asked for; without vectors, the words' ranking stands. *)
HybridSearch(fts, vec, limit) ==
  LET f == Found(fts, 2 * limit)
      v == Found(vec, 2 * limit) IN
  Found(IF v = <<>> THEN f ELSE RRF(f, v), limit)

-----------------------------------------------------------------------------
(* Strategies.                                                             *)

Bundle(strategy, messages) == [strategy |-> strategy, messages |-> messages]

(* The digests of the days instead of messages, however many days there are. *)
DigestBundle == Bundle("digests", <<>>)

RecentContext(chat, limit, budget) == Bundle("recent", FitBudget(Newest(chat, limit), budget))

(* The hits with their neighbours by number, and the newest messages. *)
SearchContext(chat, hits, budget) ==
  LET ids == (UNION {(h - Neighbors)..(h + Neighbors) : h \in Range(hits)})
               \cup {m.id : m \in Range(Newest(chat, RecentTail))} IN
  Bundle("search", FitBudget(Selected(chat, {i \in DOMAIN chat : chat[i].id \in ids}), budget))

(* The messages since the beginning of a window: n of the newest. *)
WindowMessages(chat, n) == From(chat, Len(chat) + 1 - Min({n, Len(chat)}))

WindowContext(infos, budget) ==
  IF Cost(infos) <= budget THEN Bundle("window", infos) ELSE DigestBundle

(* q.strategy is the user's; q.window is how many of the newest messages the question's time window, *)
(* or a week, has; q.timed, q.keywords, q.summary: what detect_window, keywords, looks_like_summary say. *)
Strategy(q) ==
  IF q.strategy # "auto" THEN q.strategy
  ELSE IF q.timed THEN "window"
  ELSE IF q.keywords /\ ~q.summary THEN "search"
  ELSE "recent"

SelectContext(chat, q, fts, vec, limit, budget) ==
  LET found == SearchContext(chat, HybridSearch(fts, vec, TopK), budget) IN
  IF Strategy(q) = "search" /\ found.messages # <<>> THEN found
  ELSE IF Strategy(q) = "window" THEN WindowContext(WindowMessages(chat, q.window), budget)
  ELSE RecentContext(chat, limit, budget)

(* A chat that is not synchronised is read live, no more than LiveMax messages of it. *)
ResolveContext(synced, chat, q, fts, vec, limit, budget) ==
  IF synced
  THEN SelectContext(chat, q, fts, vec, limit, budget)
  ELSE RecentContext(chat, Min({limit, LiveMax}), budget)

-----------------------------------------------------------------------------
(* compact_window: lines in parts, of which the newest are summarised.     *)

(* Each line of a part ends with a newline. *)
Size(lines) == FoldSeq(LAMBDA n, sum : n + 1 + sum, 0, lines)

(* Mutated: the line that begins a part is lost. *)
AddLine_Lost(line, chunks) ==
  LET open == chunks[Len(chunks)] IN
  IF open # <<>> /\ Size(open) + line > ChunkSize
  THEN Append(chunks, <<>>)
  ELSE [chunks EXCEPT ![Len(chunks)] = Append(@, line)]

AddLine(line, chunks) ==
  LET open == chunks[Len(chunks)] IN
  IF open # <<>> /\ Size(open) + line > ChunkSize
  THEN Append(chunks, <<line>>)
  ELSE [chunks EXCEPT ![Len(chunks)] = Append(@, line)]

Chunks(lines) == FoldLeft(LAMBDA chunks, line : AddLine(line, chunks), <<<<>>>>, lines)
NewestChunks(lines) == Newest(Chunks(lines), MaxChunks)
=============================================================================
