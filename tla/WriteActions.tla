------------------------------ MODULE WriteActions ------------------------------
(***************************************************************************)
(* The write path: an agent turn proposes Telegram writes, the user        *)
(* confirms or rejects them over HTTP, a chat in autonomous mode is        *)
(* written to at once, and every attempt is a row of agent_actions.        *)
(*                                                                         *)
(* Each request handler is one database transaction (session_scope): what  *)
(* it writes is private to it until it commits, an exception rolls all of  *)
(* it back, and an UPDATE keeps the row lock until then.  The isolation    *)
(* level is READ COMMITTED, so a SELECT sees what is committed when it     *)
(* runs, and a blocked UPDATE goes on with the values its handler computed *)
(* before it blocked.  Telegram is outside the transaction: what has been  *)
(* delivered stays delivered.                                              *)
(***************************************************************************)
EXTENDS Integers, FiniteSets

CONSTANTS
  Actions,        \* ids the sequence of agent_actions can hand out (bound)
  Txs,            \* handlers that may be running at the same time (bound)
  Chats,          \* rows of chats; a chat is identified with its Telegram peer
  AccountOf,      \* AccountOf[c]: the account that owns chat c
  Postable,       \* chats with is_writable
  ProtectedSets,  \* the values protected_peers() takes over configurations
  DefaultMode,    \* DEFAULT_WRITE_MODE, the mode of a chat nobody has changed
  RatePerHour,    \* WRITE_RATE_PER_HOUR
  TTL,            \* WRITE_PROPOSAL_TTL_HOURS
  MaxTime,        \* bound: hours the model lets pass
  MaxAsked,       \* bound: how often one row may be sent for execution
  None            \* "no row", "no chat": not a value of any column

Modes == {"read_only", "write_with_confirm", "autonomous"}

ASSUME ConstantsAssumption ==
  /\ Postable \subseteq Chats
  /\ ProtectedSets \subseteq SUBSET Chats
  /\ ProtectedSets # {}
  /\ DefaultMode \in {"read_only", "write_with_confirm"}
  /\ RatePerHour \in Nat \ {0}
  /\ TTL \in Nat \ {0}
  /\ MaxTime \in Nat
  /\ MaxAsked \in Nat
  /\ IsFiniteSet(Txs)

VARIABLES
  row,        \* row[a]: the committed row with id a
  used,       \* ids the sequence has handed out; a rollback does not return one
  mode,       \* mode[c]: committed chats.write_mode
  protected,  \* protected_peers() of the running process
  now,        \* the clock, in hours
  pc,         \* pc[t]: where handler t is
  kind,       \* kind[t]: which handler t runs
  began,      \* began[t]: when t's transaction started, its SQL now()
  act,        \* act[t]: the row t is working on
  goal,       \* goal[t]: the mode change t has checked and not yet written
  pend,       \* pend[t][a]: t's uncommitted version of row a, or None
  lock,       \* lock[a]: the transaction holding the row lock of a
  sent,       \* history: deliveries Telegram made for row a
  asked,      \* history: times row a was handed to execute_action
  told        \* history: what the answers to the user said about row a

rowVars == <<row, used, lock>>
txVars  == <<pc, kind, began, act, goal, pend>>
history == <<sent, asked, told>>
vars    == <<row, used, mode, protected, now, pc, kind, began, act, goal, pend, lock,
             sent, asked, told>>

Statuses == {"absent", "proposed", "confirmed", "executed", "rejected", "failed",
             "blocked"}
Times    == 0..MaxTime
Row      == [status : Statuses, chat : Chats \cup {None}, created : Times,
             confirmed : Times]
Absent   == [status |-> "absent", chat |-> None, created |-> 0, confirmed |-> 0]
NoWrites == [a \in Actions |-> None]
Answers  == {"executed", "rejected", "failed", "expired"}

Goal == [chat : Chats, want : Modes, seen : Modes]

ASSUME NoneAssumption ==
  /\ None \notin Actions /\ None \notin Chats /\ None \notin Txs
  /\ None \notin Row /\ None \notin Goal

-----------------------------------------------------------------------------
(* Transactions.                                                           *)

(* A query of t sees its own flushed rows over the committed ones. *)
Seen(t, a) == IF pend[t][a] = None THEN row[a] ELSE pend[t][a]

(* Mutated: the session is not closed, its row locks are never released. *)
FreeLocks_Never(t) == UNCHANGED lock

Write(t, a, r) == pend' = [pend EXCEPT ![t][a] = r]

FreeLocks(t) == lock' = [a \in Actions |-> IF lock[a] = t THEN None ELSE lock[a]]

End(t) ==
  /\ pc' = [pc EXCEPT ![t] = "idle"]
  /\ kind' = [kind EXCEPT ![t] = "none"]
  /\ began' = [began EXCEPT ![t] = 0]
  /\ act' = [act EXCEPT ![t] = None]
  /\ goal' = [goal EXCEPT ![t] = None]
  /\ pend' = [pend EXCEPT ![t] = NoWrites]
  /\ FreeLocks(t)

Commit(t)   == row' = [a \in Actions |-> Seen(t, a)] /\ End(t)
Rollback(t) == UNCHANGED row /\ End(t)

Tell(a, answer) == told' = [told EXCEPT ![a] = @ \cup {answer}]

-----------------------------------------------------------------------------
(* The agent turn: POST /api/chat, a transaction around the whole LLM loop. *)

AnyWritable == \E c \in Chats : mode[c] # "read_only"

(* Without a writable chat the turn is offered no write tool. *)
BeginAgent(t) ==
  /\ pc[t] = "idle"
  /\ AnyWritable
  /\ pc' = [pc EXCEPT ![t] = "agent"]
  /\ kind' = [kind EXCEPT ![t] = "agent"]
  /\ began' = [began EXCEPT ![t] = now]
  /\ UNCHANGED <<rowVars, mode, protected, now, act, goal, pend, history>>

(* What build_proposal makes of a call: the status of the row recorded.    *)
(* argsOk covers the argument checks that come after the guard.            *)
BuildProposal(c, forward, argsOk) ==
  IF mode[c] = "read_only" \/ (c \notin Postable /\ ~forward) THEN "failed"
  ELSE IF c \in protected THEN "blocked"
  ELSE IF argsOk THEN "proposed" ELSE "failed"

(* A write tool call up to the flush that inserts its row. *)
ProposeTool(t, a, c, forward, argsOk) ==
  LET status == BuildProposal(c, forward, argsOk)
  IN  /\ pc[t] = "agent"
      /\ a \notin used
      /\ used' = used \cup {a}
      /\ Write(t, a, [status |-> status, chat |-> c, created |-> began[t], confirmed |-> 0])
      /\ IF status = "proposed"
         THEN /\ pc' = [pc EXCEPT ![t] = "proposed"]
              /\ act' = [act EXCEPT ![t] = a]
         ELSE UNCHANGED <<pc, act>>
      /\ UNCHANGED <<row, lock, mode, protected, now, kind, began, goal, history>>

(* The chat is read again: anything but autonomous leaves the proposal.    *)
KeepProposal(t) ==
  /\ pc[t] = "proposed"
  /\ mode[pend[t][act[t]].chat] # "autonomous"
  /\ pc' = [pc EXCEPT ![t] = "agent"]
  /\ act' = [act EXCEPT ![t] = None]
  /\ UNCHANGED <<rowVars, mode, protected, now, kind, began, goal, pend, history>>

ExecuteAutonomous(t) ==
  /\ pc[t] = "proposed"
  /\ mode[pend[t][act[t]].chat] = "autonomous"
  /\ asked[act[t]] < MaxAsked
  /\ asked' = [asked EXCEPT ![act[t]] = @ + 1]
  /\ Write(t, act[t],
           [pend[t][act[t]] EXCEPT !.status = "confirmed", !.confirmed = now])
  /\ pc' = [pc EXCEPT ![t] = "guard"]
  /\ UNCHANGED <<rowVars, mode, protected, now, kind, began, act, goal, sent, told>>

AgentCommit(t) ==
  /\ pc[t] = "agent"
  /\ Commit(t)
  /\ UNCHANGED <<used, mode, protected, now, history>>

(* The LLM fails for good: ChatError becomes an HTTPException inside the   *)
(* scope, and everything the turn wrote is rolled back.                    *)
AgentFail(t) ==
  /\ pc[t] = "agent"
  /\ Rollback(t)
  /\ UNCHANGED <<used, mode, protected, now, history>>

-----------------------------------------------------------------------------
(* POST /api/actions/{id}/confirm and /reject.                             *)

Expired(a) == now - row[a].created > TTL

(* Mutated: any row may still be decided. *)
Decidable_Any(a) == row[a].status # "absent"

(* A proposal is open until a committed decision; read without a lock. *)
Decidable(a) == row[a].status = "proposed"

ConfirmedRow(a) == [row[a] EXCEPT !.status = "confirmed", !.confirmed = now]
RejectedRow(a)  == [row[a] EXCEPT !.status = "rejected", !.confirmed = now]

(* Mutated: the expired proposal gets a status the enumeration lacks. *)
ExpiredRow_NewStatus(a) == [row[a] EXCEPT !.status = "expired"]

ExpiredRow(a) == [row[a] EXCEPT !.status = "rejected"]

(* A decision handler up to its first flush, with the row it has computed. *)
Decide(t, a, what, newRow) ==
  /\ pc[t] = "idle"
  /\ Decidable(a)
  /\ pc' = [pc EXCEPT ![t] = "flush"]
  /\ kind' = [kind EXCEPT ![t] = what]
  /\ act' = [act EXCEPT ![t] = a]
  /\ Write(t, a, newRow)
  /\ UNCHANGED <<rowVars, mode, protected, now, began, goal, sent, told>>

ConfirmAction(t, a) ==
  /\ ~Expired(a)
  /\ asked[a] < MaxAsked
  /\ asked' = [asked EXCEPT ![a] = @ + 1]
  /\ Decide(t, a, "confirm", ConfirmedRow(a))

ConfirmExpired(t, a) ==
  /\ Expired(a)
  /\ UNCHANGED asked
  /\ Decide(t, a, "expire", ExpiredRow(a))

RejectAction(t, a) ==
  /\ UNCHANGED asked
  /\ Decide(t, a, "reject", RejectedRow(a))

(* The UPDATE waits for the row lock and then writes what was computed.    *)
(* Mutated: CONFIRMED is not flushed before the call, so no lock is taken. *)
TakeLock_Not(t) == UNCHANGED lock

TakeLock(t) ==
  /\ lock[act[t]] = None
  /\ lock' = [lock EXCEPT ![act[t]] = t]

FlushConfirmed(t) ==
  /\ pc[t] = "flush" /\ kind[t] = "confirm"
  /\ TakeLock(t)
  /\ pc' = [pc EXCEPT ![t] = "guard"]
  /\ UNCHANGED <<row, used, mode, protected, now, kind, began, act, goal, pend, history>>

(* A rejection commits at once; an expiry raises, so its status is undone. *)
FlushRejected(t) ==
  /\ pc[t] = "flush" /\ kind[t] = "reject" /\ lock[act[t]] = None
  /\ Commit(t)
  /\ Tell(act[t], "rejected")
  /\ UNCHANGED <<used, mode, protected, now, sent, asked>>

FlushExpired(t) ==
  /\ pc[t] = "flush" /\ kind[t] = "expire" /\ lock[act[t]] = None
  /\ Rollback(t)
  /\ Tell(act[t], "expired")
  /\ UNCHANGED <<used, mode, protected, now, sent, asked>>

-----------------------------------------------------------------------------
(* execute_action, after its flush: checks, the Telegram call, the result. *)

Target(t) == pend[t][act[t]].chat

(* An ActionError.  Over HTTP it leaves the scope, which rolls the FAILED   *)
(* status back; an agent turn catches it and keeps the status.              *)
Fail(t) ==
  IF kind[t] = "agent"
  THEN /\ Write(t, act[t], [pend[t][act[t]] EXCEPT !.status = "failed"])
       /\ pc' = [pc EXCEPT ![t] = "agent"]
       /\ act' = [act EXCEPT ![t] = None]
       /\ UNCHANGED <<row, lock, kind, began, goal, told>>
  ELSE Rollback(t) /\ Tell(act[t], "failed")

(* A check of execute_action: on to the next step, or an ActionError. *)
Check(t, here, ok, next) ==
  /\ pc[t] = here
  /\ \/ /\ ok
        /\ pc' = [pc EXCEPT ![t] = next]
        /\ UNCHANGED <<row, lock, kind, began, act, goal, pend, told>>
     \/ ~ok /\ Fail(t)
  /\ UNCHANGED <<used, mode, protected, now, sent, asked>>

(* Mutated: only build_proposal asks the guard. *)
AssertWritable_Not(t) == TRUE

AssertWritable(t) == Target(t) \notin protected

(* The executed rows of t's account that count against its next write. *)
InLastHour(r) == r.status = "executed" /\ r.confirmed >= now - 1

Counted(t) ==
  {a \in Actions : /\ InLastHour(Seen(t, a))
                   /\ AccountOf[Seen(t, a).chat] = AccountOf[Target(t)]}

(* Mutated: the limit itself is still let through. *)
RateOk_OffByOne(t) == Cardinality(Counted(t)) <= RatePerHour

RateOk(t) == Cardinality(Counted(t)) < RatePerHour

GuardAndRate(t) == Check(t, "guard", AssertWritable(t) /\ RateOk(t), "mode")

(* In an agent turn session.get returns the chat object the turn has just  *)
(* read as autonomous, so nothing is read again there.                     *)
CheckMode(t) ==
  Check(t, "mode", kind[t] = "agent" \/ mode[Target(t)] # "read_only", "telegram")

(* _run_mtproto: Telegram carries the call out, or refuses it. *)
Deliver(t) ==
  /\ pc[t] = "telegram"
  /\ sent' = [sent EXCEPT ![act[t]] = @ + 1]
  /\ pc' = [pc EXCEPT ![t] = "delivered"]
  /\ UNCHANGED <<rowVars, mode, protected, now, kind, began, act, goal, pend, asked, told>>

Executed(t) == [pend[t][act[t]] EXCEPT !.status = "executed"]

(* Mutated: a call that raised is taken for one that returned no id. *)
Refuse_AsExecuted(t) ==
  /\ pc[t] = "telegram" /\ kind[t] = "confirm"
  /\ row' = [row EXCEPT ![act[t]] = Executed(t)]
  /\ End(t)
  /\ Tell(act[t], "executed")
  /\ UNCHANGED <<used, mode, protected, now, sent, asked>>

Refuse(t) ==
  /\ pc[t] = "telegram"
  /\ Fail(t)
  /\ UNCHANGED <<used, mode, protected, now, sent, asked>>

(* Mutated: a call that timed out is made again. *)
AnswerLost_Retry(t) ==
  /\ pc[t] = "delivered"
  /\ pc' = [pc EXCEPT ![t] = "telegram"]
  /\ UNCHANGED <<rowVars, mode, protected, now, kind, began, act, goal, pend, history>>

(* The answer to a delivered call may still be an OSError or a TimeoutError. *)
AnswerLost(t) ==
  /\ pc[t] = "delivered"
  /\ Fail(t)
  /\ UNCHANGED <<used, mode, protected, now, sent, asked>>

AnswerConfirmed(t) ==
  /\ pc[t] = "delivered" /\ kind[t] = "confirm"
  /\ row' = [row EXCEPT ![act[t]] = Executed(t)]
  /\ End(t)
  /\ Tell(act[t], "executed")
  /\ UNCHANGED <<used, mode, protected, now, sent, asked>>

AnswerAutonomous(t) ==
  /\ pc[t] = "delivered" /\ kind[t] = "agent"
  /\ Write(t, act[t], Executed(t))
  /\ pc' = [pc EXCEPT ![t] = "agent"]
  /\ act' = [act EXCEPT ![t] = None]
  /\ UNCHANGED <<rowVars, mode, protected, now, kind, began, goal, history>>

-----------------------------------------------------------------------------
(* PATCH .../write_mode.                                                   *)

(* Mutated: the other chats of the account are not looked at. *)
MayBeAutonomous_Alone(c) == c \in Postable

MayBeAutonomous(c) ==
  /\ \A d \in Chats \ {c} : AccountOf[d] = AccountOf[c] => mode[d] # "autonomous"
  /\ c \in Postable

(* The checks, on committed rows and without a lock on the other chats. *)
SetChatWriteMode(t, c, m) ==
  /\ pc[t] = "idle"
  /\ m = "autonomous" => MayBeAutonomous(c)
  /\ goal' = [goal EXCEPT ![t] = [chat |-> c, want |-> m, seen |-> mode[c]]]
  /\ pc' = [pc EXCEPT ![t] = "set_mode"]
  /\ kind' = [kind EXCEPT ![t] = "set_mode"]
  /\ UNCHANGED <<rowVars, mode, protected, now, began, act, pend, history>>

(* The flush and the commit; the ORM sends no UPDATE for an unchanged value. *)
WriteMode(t) ==
  /\ pc[t] = "set_mode"
  /\ mode' = IF goal[t].want = goal[t].seen THEN mode
             ELSE [mode EXCEPT ![goal[t].chat] = goal[t].want]
  /\ UNCHANGED row
  /\ End(t)
  /\ UNCHANGED <<used, protected, now, history>>

-----------------------------------------------------------------------------
(* The rest of the world.                                                  *)

(* A handler dies where it stands: an exception outside the except ladder  *)
(* (ValueError from an unknown entity, RpcBlocked), or its cancellation.   *)
Abandon(t) ==
  /\ pc[t] \in {"flush", "proposed", "guard", "mode", "telegram", "delivered", "set_mode"}
  /\ Rollback(t)
  /\ UNCHANGED <<used, mode, protected, now, history>>

(* The process dies and comes up again, perhaps with another control bot.  *)
Restart(newProtected) ==
  /\ protected' = newProtected
  /\ pc' = [t \in Txs |-> "idle"]
  /\ kind' = [t \in Txs |-> "none"]
  /\ began' = [t \in Txs |-> 0]
  /\ act' = [t \in Txs |-> None]
  /\ goal' = [t \in Txs |-> None]
  /\ pend' = [t \in Txs |-> NoWrites]
  /\ lock' = [a \in Actions |-> None]
  /\ UNCHANGED <<row, used, mode, now, history>>

Tick ==
  /\ now < MaxTime
  /\ now' = now + 1
  /\ UNCHANGED <<rowVars, mode, protected, txVars, history>>

Init ==
  /\ row = [a \in Actions |-> Absent]
  /\ used = {}
  /\ mode = [c \in Chats |-> DefaultMode]
  /\ protected \in ProtectedSets
  /\ now = 0
  /\ pc = [t \in Txs |-> "idle"]
  /\ kind = [t \in Txs |-> "none"]
  /\ began = [t \in Txs |-> 0]
  /\ act = [t \in Txs |-> None]
  /\ goal = [t \in Txs |-> None]
  /\ pend = [t \in Txs |-> NoWrites]
  /\ lock = [a \in Actions |-> None]
  /\ sent = [a \in Actions |-> 0]
  /\ asked = [a \in Actions |-> 0]
  /\ told = [a \in Actions |-> {}]

(* The steps a handler takes by itself once its request has arrived. *)
Progress(t) ==
  \/ KeepProposal(t) \/ ExecuteAutonomous(t) \/ AgentCommit(t) \/ AgentFail(t)
  \/ FlushRejected(t) \/ FlushExpired(t) \/ FlushConfirmed(t)
  \/ GuardAndRate(t) \/ CheckMode(t)
  \/ Deliver(t) \/ Refuse(t) \/ AnswerLost(t) \/ AnswerConfirmed(t)
  \/ AnswerAutonomous(t) \/ WriteMode(t)

Request(t) ==
  \/ BeginAgent(t)
  \/ \E a \in Actions : ConfirmAction(t, a) \/ ConfirmExpired(t, a) \/ RejectAction(t, a)
  \/ \E c \in Chats, m \in Modes : SetChatWriteMode(t, c, m)

CallTool(t) ==
  \E a \in Actions, c \in Chats, forward, argsOk \in BOOLEAN :
    ProposeTool(t, a, c, forward, argsOk)

Next ==
  \/ \E t \in Txs : Request(t) \/ CallTool(t) \/ Progress(t) \/ Abandon(t)
  \/ \E p \in ProtectedSets : Restart(p)
  \/ Tick

Spec == Init /\ [][Next]_vars

(* Every step of a handler is a callback the event loop runs, and a blocked *)
(* UPDATE is served in the order of its row's wait queue.  Nothing makes a  *)
(* handler die.                                                             *)
LiveSpec ==
  /\ Spec
  /\ \A t \in Txs :
       /\ WF_vars(Progress(t))
       /\ SF_vars(FlushRejected(t) \/ FlushExpired(t) \/ FlushConfirmed(t))

-----------------------------------------------------------------------------
(* Properties.                                                             *)

(* Every variable keeps to the values the code can give it. *)
TypeOK ==
  /\ row \in [Actions -> Row]
  /\ used \subseteq Actions
  /\ mode \in [Chats -> Modes]
  /\ protected \in ProtectedSets
  /\ now \in Times
  /\ pc \in [Txs -> {"idle", "agent", "proposed", "flush", "guard", "mode", "telegram",
                     "delivered", "set_mode"}]
  /\ kind \in [Txs -> {"none", "agent", "confirm", "expire", "reject", "set_mode"}]
  /\ began \in [Txs -> Times]
  /\ act \in [Txs -> Actions \cup {None}]
  /\ goal \in [Txs -> Goal \cup {None}]
  /\ pend \in [Txs -> [Actions -> Row \cup {None}]]
  /\ lock \in [Actions -> Txs \cup {None}]
  /\ sent \in [Actions -> Nat]
  /\ asked \in [Actions -> Nat]
  /\ told \in [Actions -> SUBSET Answers]

(* Between the flush of CONFIRMED and the end of execute_action at most    *)
(* one handler is at work on a row: the flush really is the lock, although *)
(* no SELECT ... FOR UPDATE is ever issued.                                *)
Executing == {"guard", "mode", "telegram", "delivered"}

OneCallInFlight ==
  \A t, u \in Txs :
    (pc[t] \in Executing /\ pc[u] \in Executing /\ act[t] = act[u]) => t = u

(* Each delivery is paid for by a confirmation of its own or by the one    *)
(* execution an autonomous chat grants; no call is made on credit.         *)
NotYetSent(a) == {t \in Txs : act[t] = a /\ pc[t] \in {"guard", "mode", "telegram"}}

DeliveriesAreAsked ==
  \A a \in Actions : sent[a] + Cardinality(NotYetSent(a)) <= asked[a]

(* A row the ledger shows as executed names a message Telegram delivered,  *)
(* whatever raced with it; so does the answer "executed".                  *)
ExecutedWasDelivered ==
  \A a \in Actions :
    (row[a].status = "executed" \/ "executed" \in told[a]) => sent[a] >= 1

(* The control bot, 777000 and @replies are never written to, even when    *)
(* the proposal was made under a configuration that did not protect them.  *)
ProtectedNeverWritten ==
  [][\A t \in Txs : (pc[t] = "telegram" /\ pc'[t] = "delivered")
                      => Target(t) \notin protected]_vars

(* The table is append-only: a row once committed keeps its call, never    *)
(* returns to proposed, and is final once failed or blocked.               *)
CodeEdges ==
  ({"absent"} \X {"proposed", "executed", "failed", "blocked"})
    \cup ({"proposed", "executed", "rejected"} \X {"executed", "rejected"})

Kept == INSTANCE ActionLedger WITH ledger <- row, Edges <- CodeEdges
LedgerKept == Kept!LedgerSpec

(* The lifecycle drawn in services/actions.py and docs/security.md: a      *)
(* proposal is decided once, and the decision stands.                      *)
DocEdges ==
  ({"absent"} \X {"proposed", "executed", "failed", "blocked"})
    \cup ({"proposed"} \X {"executed", "rejected", "failed"})

Documented == INSTANCE ActionLedger WITH ledger <- row, Edges <- DocEdges
DocumentedLifecycle == Documented!LedgerSpec

(* WRITE_RATE_PER_HOUR bounds the writes the table shows for an account    *)
(* over the last hour.                                                     *)
RateRespected ==
  \A c \in Chats :
    Cardinality({a \in Actions : /\ InLastHour(row[a])
                                 /\ AccountOf[row[a].chat] = AccountOf[c]}) <= RatePerHour

(* An account has at most one chat in autonomous mode. *)
OneAutonomousChat ==
  \A c, d \in Chats :
    (mode[c] = "autonomous" /\ mode[d] = "autonomous" /\ AccountOf[c] = AccountOf[d])
      => c = d

(* The two limits on what happens without a question to the user.          *)
LimitsRespected == RateRespected /\ OneAutonomousChat

(* What the user was told stays true: executed stays executed, rejected    *)
(* stays rejected, and nobody hears both.                                  *)
AnswersStand ==
  \A a \in Actions :
    /\ "executed" \in told[a] => row[a].status = "executed"
    /\ "rejected" \in told[a] => row[a].status = "rejected"

(* A proposal is sent to Telegram at most once. *)
SentAtMostOnce == \A a \in Actions : sent[a] <= 1

(* What the user is told of a proposal that was not sent is also recorded:  *)
(* a failed execution as failed, an expired proposal as rejected.           *)
OutcomeIsRecorded ==
  \A a \in Actions :
    /\ "failed" \in told[a] => row[a].status = "failed"
    /\ "expired" \in told[a] => row[a].status = "rejected"

(* Every handler finishes: nobody waits for a row lock for ever.  (That a   *)
(* busy handler becomes idle is that it is idle again and again.)           *)
HandlersFinish == \A t \in Txs : []<>(pc[t] = "idle")
=============================================================================
