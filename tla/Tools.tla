--------------------------------- MODULE Tools ---------------------------------
(***************************************************************************)
(* The read tools of the agent (services/tools.py): which chat a call      *)
(* means, and which messages of it the model is shown.                     *)
(*                                                                         *)
(* A chat is a record of the database: its id, account, peer, whether it   *)
(* is synchronised, and the words that ILIKE finds in its username and in  *)
(* its title.  A call's argument has a word, and a number when it is one.   *)
(***************************************************************************)
EXTENDS Orders, SequencesExt

CONSTANTS
  SearchMax,  \* SEARCH_LIMIT_MAX
  RecentMax,  \* RECENT_LIMIT_MAX
  RadiusMax,  \* CONTEXT_RADIUS_MAX
  NoChat      \* no chat is meant

ASSUME ToolsAssumption == {SearchMax, RecentMax, RadiusMax} \subseteq Nat \ {0}

(* max(1, min(n, max)), where n is the call's number, or the tool's own when it has none. *)
Clamped(n, max) == Max({1, Min({n, max})})

-----------------------------------------------------------------------------
(* The account of a turn and the chat that is pinned (chat_service.py).    *)

(* A question with a context is about the context's account. *)
TurnAccount(context, given, conversation) ==
  IF context # NoChat THEN context.account ELSE IF given # NoChat THEN given ELSE conversation

Pinned(chats, context) ==
  IF context = NoChat THEN {} ELSE {c \in chats : c.account = context.account /\ c.peer = context.peer}

-----------------------------------------------------------------------------
(* _resolve_chat: the set of the chats that the call may mean; a query     *)
(* without an order may return any of its rows.                            *)

Synced(chats, account) == {c \in chats : c.account = account /\ c.synced > 0}

(* Mutated: the id of any chat will do. *)
ById_Any(chats, account, n) == {c \in chats : c.id = n}

ById(chats, account, n) == {c \in chats : c.id = n /\ c.account = account}

ByPeer(chats, account, n) == {c \in Synced(chats, account) : c.peer = n}
ByName(chats, account, w) == {c \in Synced(chats, account) : w \in c.username}

(* The chat with the most messages among those whose title has the words. *)
ByTitle(chats, account, w) ==
  LET titled == {c \in Synced(chats, account) : w \in c.title} IN
  {c \in titled : \A d \in titled : d.synced <= c.synced}

FirstFound(candidates) ==
  LET found == {i \in DOMAIN candidates : candidates[i] # {}} IN
  IF found = {} THEN {} ELSE candidates[Min(found)]

ResolveChat(chats, account, pinned, arg) ==
  LET ByWord == <<ByName(chats, account, arg.word), ByTitle(chats, account, arg.word)>>
      ByNumber == <<ById(chats, account, arg.number), ByPeer(chats, account, arg.number)>> IN
  CASE arg.kind = "none"   -> pinned
    [] arg.kind = "number" -> FirstFound(ByNumber \o ByWord)
    [] arg.kind = "word"   -> FirstFound(ByWord)

-----------------------------------------------------------------------------
(* The messages that a tool shows: ids in the order of the answer.         *)

RecentMessages(msgs, limit) ==
  SubSeq(msgs, Max({1, Len(msgs) - Clamped(limit, RecentMax) + 1}), Len(msgs))

MessageContext(msgs, id, radius) ==
  LET r == Clamped(radius, RadiusMax) IN
  Selected(msgs, {i \in DOMAIN msgs : msgs[i] \in (id - r)..(id + r)})

(* The days are counted after the best have been taken. *)
SearchMessages(ranked, since, limit) ==
  LET best == SubSeq(ranked, 1, Min({Len(ranked), Clamped(limit, SearchMax)})) IN
  Selected(best, {i \in DOMAIN best : best[i] >= since})

(* run_tool: a tool that is not there, a chat that is not found and any exception are answers. *)
RunTool(chats, account, pinned, call, msgs) ==
  LET answers == ResolveChat(chats, account, pinned, call.arg)
      Show(c) == CASE call.tool = "recent" -> RecentMessages(msgs[c.id], call.limit)
                   [] call.tool = "around" -> MessageContext(msgs[c.id], call.id, call.limit)
                   [] call.tool = "search" -> SearchMessages(Reverse(msgs[c.id]), call.id, call.limit) IN
  IF answers = {} THEN {[ok |-> FALSE, chat |-> NoChat, shown |-> <<>>]}
  ELSE {[ok |-> call.tool # "around" \/ Show(c) # <<>>, chat |-> c, shown |-> Show(c)] : c \in answers}
=============================================================================
