------------------------------- MODULE ChatTurn -------------------------------
(***************************************************************************)
(* A question of the user and its answer (services/chat_service.py), with  *)
(* the agent loop (services/agent.py), the budget of the day               *)
(* (services/limits.py), the deletion of the conversation, and what comes  *)
(* after: the user's rating and the judge's (services/evaluation.py).      *)
(*                                                                         *)
(* One user, one day.  A turn is one transaction of the request: it sees what is    *)
(* committed, and its own rows are committed with its answer or not at     *)
(* all.  A row of conversations is locked against deletion from the first  *)
(* row that a turn adds to it until the turn ends.  What a tool answers is *)
(* its length and whether it left the session usable; sends of the agent   *)
(* are those of WriteActions, here only the rows they leave.               *)
(***************************************************************************)
EXTENDS Integers, FiniteSets, SequencesExt

CONSTANTS
  None,
  Requests,   \* requests at the same time (bound)
  Convs,      \* conversations
  MaxTurns,   \* bound: questions asked
  DayLimit,   \* llm_daily_token_budget, in model calls; 0 is no limit
  MaxIter,    \* agent_max_iterations
  MapCost,    \* most model calls that the digests of one window take: MAX_DAYS_PER_QUERY days, in chunks
  MaxCalls,   \* MAX_CALLS_PER_TURN
  MaxBatch,   \* bound: tool calls in one reply of the model
  Budget,     \* agent_tool_result_tokens
  MinCut,     \* the 200 tokens that a cut result may have at least
  Lengths,    \* lengths of a tool's result
  Ratings     \* 1 and -1, thumb up and thumb down; 0 takes a rating back

ASSUME ChatTurnAssumption ==
  /\ {MaxTurns, DayLimit, MapCost, MinCut, MaxBatch} \subseteq Nat
  /\ {MaxIter, MaxCalls, Budget} \subseteq Nat \ {0}
  /\ MinCut <= Budget
  /\ IsFiniteSet(Requests)
  /\ Lengths \subseteq Nat
  /\ Ratings \subseteq {-1, 1}

VARIABLES
  convs,     \* convs[c]: "new" before it is created, "live", "deleted"
  rows,      \* committed conversation_messages
  proposals, \* turns whose agent run has committed rows of write tools
  req,       \* req[q]: the local variables of a request
  evals,     \* evals[t]: the judge of turn t's answer
  given,     \* the last rating that the user was told of, by turn (history)
  asked      \* turns so far

vars == <<convs, rows, proposals, req, evals, given, asked>>

(* turn: the number of the question, of its agent run too.  mine: rows that *)
(* are added, not committed.  prompt: the tool calls and results since the  *)
(* question.  todo: calls of the last reply without a result.  used: tokens *)
(* of results.  wrote: a row of a write tool is added.  broken: the database *)
(* refuses the session's statements.                                        *)
Idle == [pc |-> "idle", conv |-> None, turn |-> 0, mine |-> {},
         iter |-> 0, prompt |-> <<>>, todo |-> <<>>, used |-> 0, calls |-> 0,
         tokens |-> 0, wrote |-> FALSE, broken |-> FALSE]

At(q, pc) == req[q].pc = pc
Set(q, r) == req' = [req EXCEPT ![q] = r]
Failed(q) == Set(q, Idle)

UserRow(r, n) == [conv |-> r.conv, turn |-> r.turn, role |-> "user", n |-> n,
                  mode |-> None, tokens |-> 0, rating |-> 0, auto |-> FALSE]
AnswerRow(r, mode) == [conv |-> r.conv, turn |-> r.turn, role |-> "assistant", n |-> 0,
                       mode |-> mode, tokens |-> r.tokens, rating |-> 0, auto |-> FALSE]

Answers == {m \in rows : m.role = "assistant"}

-----------------------------------------------------------------------------
(* The request: conversation, budget, rows so far.                         *)

(* Mutated: the tokens of the user's own rows. *)
Usage_UserRows == FoldSet(LAMBDA m, n : n + m.tokens, 0, {m \in rows : m.role = "user"})

Usage == FoldSet(LAMBDA m, n : n + m.tokens, 0, Answers)

Exceeded == DayLimit # 0 /\ Usage >= DayLimit

Create(c) ==
  /\ convs[c] = "new"
  /\ convs' = [convs EXCEPT ![c] = "live"]
  /\ UNCHANGED <<rows, proposals, req, evals, given, asked>>

(* choose_mode is the user's choice or a guess at the question's wording: either mode. *)
Begin(q, c) ==
  /\ At(q, "idle")
  /\ asked < MaxTurns
  /\ convs[c] = "live"
  /\ ~Exceeded
  /\ asked' = asked + 1
  /\ \E pc \in {"agent", "context"} :
       Set(q, [Idle EXCEPT !.pc = pc, !.conv = c, !.turn = asked + 1])
  /\ UNCHANGED <<convs, rows, proposals, evals, given>>

(* The insert waits for a deletion, and fails when the conversation is gone. *)
Add(q, r) ==
  IF convs[r.conv] = "live" /\ ~r.broken
  THEN Set(q, [r EXCEPT !.mine = @ \cup {UserRow(r, Cardinality(r.mine) + 1)}])
  ELSE Failed(q)

(* The end of session_scope: the rows of the turn, and the judge in the background. *)
Commit(q, mode) ==
  LET r == req[q] IN
  IF r.broken
  THEN Failed(q) /\ UNCHANGED <<rows, proposals, evals>>
  ELSE /\ rows' = rows \cup r.mine \cup {AnswerRow(r, mode)}
       /\ proposals' = IF r.wrote THEN proposals \cup {r.turn} ELSE proposals
       /\ evals' = [evals EXCEPT ![r.turn] = [pc |-> "judging", read |-> {}]]
       /\ Set(q, Idle)

-----------------------------------------------------------------------------
(* Direct mode: context, question, answer.                                 *)

(* resolve_context: from the database, or live.  A long window is read as digests: *)
(* the model is called for the days and chunks that have none yet, and all that    *)
(* is counted in the turn.                                                         *)
Context(q) ==
  /\ At(q, "context")
  /\ \/ \E n \in 0..MapCost : Set(q, [req[q] EXCEPT !.pc = "question", !.tokens = n])
     \/ Failed(q)
  /\ UNCHANGED <<convs, rows, proposals, evals, given, asked>>

Question(q) ==
  /\ At(q, "question")
  /\ Add(q, [req[q] EXCEPT !.pc = "answer"])
  /\ UNCHANGED <<convs, rows, proposals, evals, given, asked>>

Answer(q) ==
  /\ At(q, "answer")
  /\ Set(q, [req[q] EXCEPT !.tokens = @ + 1, !.pc = "direct"]) \/ Failed(q)
  /\ UNCHANGED <<convs, rows, proposals, evals, given, asked>>

EndDirect(q) ==
  /\ At(q, "direct")
  /\ Commit(q, "direct")
  /\ UNCHANGED <<convs, given, asked>>

-----------------------------------------------------------------------------
(* Agent mode: rounds of calls and results.  The account has a writable    *)
(* chat, so that the tools of WriteActions are among the tools.            *)

StartAgent(q) ==
  /\ At(q, "agent")
  /\ Add(q, [req[q] EXCEPT !.pc = "model"])
  /\ UNCHANGED <<convs, rows, proposals, evals, given, asked>>

(* Mutated: the last round is a round like the others. *)
LastRound_Never(r) == FALSE

LastRound(r) == r.iter + 1 = MaxIter

Call(r, k) == [kind |-> "call", id |-> <<r.iter + 1, k>>]
Result(call) == [kind |-> "result", id |-> call.id]

(* A reply of the model: text, calls, or neither. *)
Model(q) ==
  LET r == [req[q] EXCEPT !.iter = @ + 1, !.tokens = @ + 1] IN
  /\ At(q, "model")
  /\ \/ Set(q, [r EXCEPT !.pc = "done"])
     \/ Set(q, [r EXCEPT !.pc = "final"])
     \/ /\ ~LastRound(req[q])
        /\ \E n \in 1..MaxBatch :
             LET calls == [k \in 1..n |-> Call(req[q], k)] IN
             Set(q, [r EXCEPT !.pc = "tools", !.todo = calls, !.prompt = @ \o calls])
  /\ UNCHANGED <<convs, rows, proposals, evals, given, asked>>

(* Mutated: a result that does not fit is passed on as it is. *)
Cut_Not(r, length) == length

Cut(r, length) ==
  IF r.used + length > Budget
  THEN Min({length, Max({MinCut, Budget - r.used})})
  ELSE length

(* The calls of this reply that have results. *)
Served(r) == Cardinality({i \in DOMAIN r.prompt :
                            r.prompt[i].kind = "result" /\ r.prompt[i].id[1] = r.iter})

(* run_tool and propose_or_execute.  An error is a result like another, but *)
(* one of the database leaves a session that only a rollback makes usable.  *)
Tool(q) ==
  LET r == req[q] IN
  /\ At(q, "tools")
  /\ r.todo # <<>>
  /\ Served(r) < MaxCalls
  /\ \E length \in Lengths, wrote \in BOOLEAN, broken \in BOOLEAN :
       /\ wrote => ~r.broken /\ ~broken
       /\ Set(q, [r EXCEPT !.todo = Tail(@),
                           !.prompt = Append(@, Result(Head(r.todo))),
                           !.used = @ + Cut(r, length),
                           !.calls = @ + 1,
                           !.wrote = @ \/ wrote,
                           !.broken = @ \/ broken])
  /\ UNCHANGED <<convs, rows, proposals, evals, given, asked>>

(* Mutated: the calls above the limit are left without a result. *)
Skipped_Dropped(todo) == <<>>

Skipped(todo) == [i \in DOMAIN todo |-> Result(todo[i])]

(* Mutated: a round ends when each of its calls has been served. *)
EndTools_AllServed(q) ==
  /\ At(q, "tools")
  /\ req[q].todo = <<>>
  /\ Set(q, [req[q] EXCEPT !.pc = "model"])
  /\ UNCHANGED <<convs, rows, proposals, evals, given, asked>>

EndTools(q) ==
  LET r == req[q] IN
  /\ At(q, "tools")
  /\ r.todo = <<>> \/ Served(r) = MaxCalls
  /\ Set(q, [r EXCEPT !.pc = "model", !.todo = <<>>, !.prompt = @ \o Skipped(r.todo)])
  /\ UNCHANGED <<convs, rows, proposals, evals, given, asked>>

(* No text yet: once more, without tools. *)
Final(q) ==
  /\ At(q, "final")
  /\ Set(q, [req[q] EXCEPT !.pc = "done", !.tokens = @ + 1])
  /\ UNCHANGED <<convs, rows, proposals, evals, given, asked>>

EndAgent(q) ==
  /\ At(q, "done")
  /\ Commit(q, "agent")
  /\ UNCHANGED <<convs, given, asked>>

(* Mutated: the agent begins again. *)
Resumed_Agent(r) ==
  [Idle EXCEPT !.pc = "agent", !.conv = r.conv, !.turn = r.turn, !.mine = r.mine]

(* Mutated: the first question row is taken back, the agent's rows are not. *)
Resumed_WithoutRow(r) ==
  [Idle EXCEPT !.pc = "context", !.conv = r.conv, !.turn = r.turn, !.wrote = r.wrote]

(* No provider answers: the same transaction goes on in direct mode, with a *)
(* question row of its own and without what the agent's calls have cost.    *)
Resumed(r) ==
  [Idle EXCEPT !.pc = "context", !.conv = r.conv, !.turn = r.turn, !.mine = r.mine,
               !.wrote = r.wrote, !.broken = r.broken]

FallBack(q) ==
  /\ req[q].pc \in {"model", "final"}
  /\ Set(q, Resumed(req[q]))
  /\ UNCHANGED <<convs, rows, proposals, evals, given, asked>>

-----------------------------------------------------------------------------
(* Other requests, the judge, the end of the process.                      *)

Holds(q, c) == req[q].conv = c /\ req[q].mine # {}

Delete(c) ==
  /\ convs[c] = "live"
  /\ \A q \in Requests : ~Holds(q, c)
  /\ convs' = [convs EXCEPT ![c] = "deleted"]
  /\ rows' = {m \in rows : m.conv # c}
  /\ UNCHANGED <<proposals, req, evals, given, asked>>

Rated(m, v) == (rows \ {m}) \cup {[m EXCEPT !.rating = v]}

(* One step, because a user rates an answer again when the first rating is told: *)
(* two ratings of one answer at the same time are left out.                      *)
Rate(m, v) ==
  /\ m.rating # v
  /\ rows' = Rated(m, v)
  /\ given' = [given EXCEPT ![m.turn] = v]
  /\ UNCHANGED <<convs, proposals, req, evals, asked>>

(* Mutated: the row is written as it was read. *)
Judged_WholeRow(m, read) == [read EXCEPT !.auto = TRUE]

(* Only the columns of the judge are written. *)
Judged(m, read) == [m EXCEPT !.auto = TRUE]

NotYet == [pc |-> "none", read |-> {}]
Over == [pc |-> "over", read |-> {}]

(* The judge's model answers, or not; the row may be gone. *)
Judge(t) ==
  /\ evals[t].pc = "judging"
  /\ \/ evals' = [evals EXCEPT ![t] = Over]
     \/ \E m \in Answers : m.turn = t /\ evals' = [evals EXCEPT ![t] = [pc |-> "judged", read |-> {m}]]
  /\ UNCHANGED <<convs, rows, proposals, req, given, asked>>

WriteJudgement(t) ==
  /\ evals[t].pc = "judged"
  /\ evals' = [evals EXCEPT ![t] = Over]
  /\ rows' = {IF m.turn = t /\ m.role = "assistant"
              THEN CHOOSE w \in {Judged(m, x) : x \in evals[t].read} : TRUE
              ELSE m : m \in rows}
  /\ UNCHANGED <<convs, proposals, req, given, asked>>

(* The web process ends: its transactions are rolled back, its judges forgotten. *)
Crash ==
  /\ \E q \in Requests : ~At(q, "idle")
  /\ req' = [q \in Requests |-> Idle]
  /\ evals' = [t \in DOMAIN evals |-> IF evals[t] = NotYet THEN NotYet ELSE Over]
  /\ UNCHANGED <<convs, rows, proposals, given, asked>>

-----------------------------------------------------------------------------
Init ==
  /\ convs = [c \in Convs |-> "new"]
  /\ rows = {}
  /\ proposals = {}
  /\ req = [q \in Requests |-> Idle]
  /\ evals = [t \in 1..MaxTurns |-> NotYet]
  /\ given = [t \in 1..MaxTurns |-> 0]
  /\ asked = 0

Step(q) ==
  \/ Context(q) \/ Question(q) \/ Answer(q) \/ EndDirect(q)
  \/ StartAgent(q) \/ Model(q) \/ Tool(q) \/ EndTools(q) \/ Final(q)
  \/ EndAgent(q) \/ FallBack(q)

Next ==
  \/ \E q \in Requests : Step(q) \/ \E c \in Convs : Begin(q, c)
  \/ \E c \in Convs : Create(c) \/ Delete(c)
  \/ \E m \in Answers, v \in Ratings \cup {0} : Rate(m, v)
  \/ \E t \in 1..MaxTurns : Judge(t) \/ WriteJudgement(t)
  \/ Crash

Spec == Init /\ [][Next]_vars

(* Every wait of a turn has an end: the providers' and the pool's time limits, the lock of a deletion. *)
LiveSpec == Spec /\ \A q \in Requests : WF_vars(Step(q))

-----------------------------------------------------------------------------
(* Every variable has its type, and only an idle request has no turn. *)
TypeOK ==
  /\ convs \in [Convs -> {"new", "live", "deleted"}]
  /\ \A m \in rows : m.conv \in Convs /\ m.turn \in 1..asked /\ m.role \in {"user", "assistant"}
                     /\ m.rating \in Ratings \cup {0} /\ m.auto \in BOOLEAN
  /\ proposals \subseteq 1..asked
  /\ \A q \in Requests : req[q].pc # "idle" =>
       req[q].conv \in Convs /\ req[q].turn \in 1..asked /\ req[q].iter \in 0..MaxIter
  /\ asked \in 0..MaxTurns

(* The turns that the database has are whole: one answer and one question, two questions when the *)
(* agent gave up half-way and direct mode began again (session_scope, the except of send_message). *)
WholeTurns ==
  \A t \in {m.turn : m \in rows} :
    LET turn == {m \in rows : m.turn = t}
        users == {m \in turn : m.role = "user"} IN
    \E a \in turn : turn \ users = {a} /\ Cardinality(users) \in 1..(IF a.mode = "agent" THEN 1 ELSE 2)

(* Whenever the model is called again, each of its calls has one result in the prompt: providers *)
(* refuse a conversation where one has none, or two (the two loops over res.tool_calls in run_agent). *)
CallsAreAnswered ==
  \A q \in Requests : req[q].pc \in {"model", "final"} =>
    LET prompt == req[q].prompt
        Ids(kind) == {prompt[i].id : i \in {j \in DOMAIN prompt : prompt[j].kind = kind}} IN
    Ids("call") = Ids("result") /\ Len(prompt) = 2 * Cardinality(Ids("call"))

(* Tool results stay within the budget, but for the least that each cut result after the first *)
(* keeps (run_agent). *)
ResultsWithinBudget ==
  \A q \in Requests : req[q].calls > 0 => req[q].used <= Budget + MinCut * (req[q].calls - 1)

(* The most that one turn can cost: every round and the forced answer, or the digests of a direct *)
(* turn's whole window and its answer. *)
TurnCost == Max({MaxIter + 1, MapCost + 1})

(* What the answers of one day have cost passes the limit by no more than one turn for each request *)
(* that was let in before the others ended (assert_within_budget). *)
DayWithinBudget ==
  DayLimit # 0 =>
    FoldSet(LAMBDA m, n : n + m.tokens, 0, Answers) < DayLimit + TurnCost * Cardinality(Requests)

(* A rating is the one the user gave last, whatever the judge wrote since (auto_evaluate, rate_message). *)
RatingsStand == \A m \in Answers : m.rating = given[m.turn]

(* A proposal that waits for the user is under an answer of its run; only a turn that fell back to *)
(* direct mode, or one whose conversation was deleted, leaves it to the page of actions alone. *)
ProposalsAreShown ==
  \A t \in proposals :
    LET turn == {m \in rows : m.turn = t} IN
    \/ turn = {}
    \/ \E m \in turn : m.mode = "agent"
    \/ Cardinality({m \in turn : m.role = "user"}) = 2

(* What a conversation and its prompts are at any moment: whole turns, every call with its result, *)
(* every proposal where the user finds it. *)
TurnInv == TypeOK /\ WholeTurns /\ CallsAreAnswered /\ ProposalsAreShown

(* Neither one turn nor all turns of a day cost more than their budgets and the least that is added. *)
SpendingIsBounded == ResultsWithinBudget /\ DayWithinBudget

(* Every question is answered or refused in the end: its request is idle again and again. *)
TurnsEnd == \A q \in Requests : []<>At(q, "idle")
=============================================================================
