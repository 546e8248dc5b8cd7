--------------------------- MODULE WriteActionsProofs ---------------------------
(***************************************************************************)
(* What holds of WriteActions for every set of rows, handlers and chats.   *)
(***************************************************************************)
EXTENDS WriteActions, FiniteSetTheorems, TLAPS

(* A row whose status alone, or status and decision time, has been edited. *)
LEMMA StatusEdit ==
  ASSUME NEW r \in Row, NEW s \in Statuses
  PROVE  /\ [r EXCEPT !.status = s] \in Row
         /\ [r EXCEPT !.status = s].status = s
         /\ Kept!SameCall(r, [r EXCEPT !.status = s])
  BY DEF Row, Kept!SameCall

LEMMA DecisionEdit ==
  ASSUME NEW r \in Row, NEW s \in Statuses, NEW h \in Times
  PROVE  /\ [r EXCEPT !.status = s, !.confirmed = h] \in Row
         /\ [r EXCEPT !.status = s, !.confirmed = h].status = s
         /\ Kept!SameCall(r, [r EXCEPT !.status = s, !.confirmed = h])
  BY DEF Row, Kept!SameCall

Working == {"proposed", "flush"} \cup Executing

(* Which handler is where, and the row a handler at work has written. *)
Places ==
  \A t \in Txs :
    /\ pc[t] = "idle" => kind[t] = "none"
    /\ pc[t] = "set_mode" => kind[t] = "set_mode" /\ goal[t] # None
    /\ pc[t] \in {"agent", "proposed"} => kind[t] = "agent"
    /\ pc[t] = "flush" => kind[t] \in {"confirm", "expire", "reject"}
    /\ pc[t] \in Executing => kind[t] \in {"agent", "confirm"}
    /\ pc[t] \in Working => act[t] \in Actions /\ pend[t][act[t]] \in Row
    /\ kind[t] \in {"none", "set_mode"} => pend[t] = NoWrites

TypeInv == TypeOK /\ Places

LEMMA EndTypes ==
  ASSUME TypeInv, NEW t \in Txs, End(t)
  PROVE  /\ pc' \in [Txs -> {"idle", "agent", "proposed", "flush", "guard", "mode",
                            "telegram", "delivered", "set_mode"}]
         /\ kind' \in [Txs -> {"none", "agent", "confirm", "expire", "reject", "set_mode"}]
         /\ began' \in [Txs -> Times]
         /\ act' \in [Txs -> Actions \cup {None}]
         /\ goal' \in [Txs -> Goal \cup {None}]
         /\ pend' \in [Txs -> [Actions -> Row \cup {None}]]
         /\ lock' \in [Actions -> Txs \cup {None}]
         /\ Places'
  <1>1. NoWrites \in [Actions -> Row \cup {None}]
    BY DEF NoWrites
  <1>2. 0 \in Times
    BY ConstantsAssumption DEF Times
  <1>3. pend' \in [Txs -> [Actions -> Row \cup {None}]]
    BY <1>1 DEF End, TypeInv, TypeOK
  <1>4. Places'
    BY DEF End, TypeInv, TypeOK, Places, Working, Executing
  <1> QED
    BY <1>2, <1>3, <1>4 DEF End, FreeLocks, TypeInv, TypeOK

(* A refused or failed execution, in an agent turn and over HTTP. *)
LEMMA FailTypes ==
  ASSUME TypeInv, NEW t \in Txs, pc[t] \in Executing, Fail(t),
         UNCHANGED <<used, mode, protected, now, sent, asked>>
  PROVE  TypeInv'
  <1> DEFINE a == act[t]
  <1>1. a \in Actions /\ pend[t][a] \in Row
    BY DEF TypeInv, Places, Working, Executing
  <1>2. CASE kind[t] = "agent"
    <2>1. [pend[t][a] EXCEPT !.status = "failed"] \in Row
      BY <1>1, StatusEdit DEF Statuses
    <2>2. pend' = [pend EXCEPT ![t][a] = [pend[t][a] EXCEPT !.status = "failed"]]
      BY <1>2 DEF Fail, Write
    <2>3. pend' \in [Txs -> [Actions -> Row \cup {None}]]
      BY <1>1, <2>1, <2>2 DEF TypeInv, TypeOK
    <2>4. TypeOK'
      BY <1>2, <2>3 DEF Fail, TypeInv, TypeOK
    <2>5. Places'
      BY <1>1, <1>2, <2>2 DEF Fail, TypeInv, TypeOK, Places, Working, Executing
    <2> QED
      BY <2>4, <2>5 DEF TypeInv
  <1>3. CASE kind[t] # "agent"
    <2>1. Rollback(t) /\ Tell(a, "failed")
      BY <1>3 DEF Fail
    <2>2. told' \in [Actions -> SUBSET Answers]
      BY <1>1, <2>1 DEF Tell, TypeInv, TypeOK, Answers
    <2> QED
      BY <2>1, <2>2, EndTypes DEF Rollback, TypeInv, TypeOK
  <1> QED
    BY <1>2, <1>3

LEMMA CheckTypes ==
  ASSUME TypeInv, NEW t \in Txs, NEW here \in Executing, NEW next \in Executing,
         NEW ok \in BOOLEAN, Check(t, here, ok, next)
  PROVE  TypeInv'
  <1>1. CASE ok
    BY <1>1 DEF Check, TypeInv, TypeOK, Places, Working, Executing
  <1>2. CASE ~ok
    BY <1>2, FailTypes DEF Check
  <1> QED
    BY <1>1, <1>2

(* A handler that begins to decide row a, with a row of the right type. *)
LEMMA DecideTypes ==
  ASSUME TypeInv, NEW t \in Txs, NEW a \in Actions, NEW r \in Row,
         NEW what \in {"confirm", "expire", "reject"}, Decide(t, a, what, r),
         asked' \in [Actions -> Nat]
  PROVE  TypeInv'
  <1>1. pend' = [pend EXCEPT ![t][a] = r]
    BY DEF Decide, Write
  <1>2. TypeOK'
    BY <1>1 DEF Decide, TypeInv, TypeOK, rowVars
  <1>3. Places'
    BY <1>1 DEF Decide, TypeInv, TypeOK, Places, Working, Executing
  <1> QED
    BY <1>2, <1>3 DEF TypeInv

LEMMA EndStep ==
  ASSUME TypeInv, NEW t \in Txs, End(t), row' \in [Actions -> Row],
         UNCHANGED <<used, mode, protected, now, sent, asked>>,
         told' \in [Actions -> SUBSET Answers]
  PROVE  TypeInv'
  BY EndTypes DEF TypeInv, TypeOK

LEMMA SeenTypes ==
  ASSUME TypeInv, NEW t \in Txs
  PROVE  [a \in Actions |-> Seen(t, a)] \in [Actions -> Row]
  BY NoneAssumption DEF TypeInv, TypeOK, Seen

LEMMA TellTypes ==
  ASSUME TypeInv, NEW a \in Actions, NEW answer \in Answers, Tell(a, answer)
  PROVE  told' \in [Actions -> SUBSET Answers]
  BY DEF Tell, TypeInv, TypeOK

LEMMA ProgressTypes ==
  ASSUME TypeInv, NEW t \in Txs, Progress(t)
  PROVE  TypeInv'
  <1> DEFINE a == act[t]
  <1>0. pc[t] \in Working => a \in Actions /\ pend[t][a] \in Row
    BY DEF TypeInv, Places
  <1>1. CASE KeepProposal(t)
    BY <1>1 DEF KeepProposal, TypeInv, TypeOK, Places, Working, Executing, rowVars, history
  <1>2. CASE ExecuteAutonomous(t)
    <2> DEFINE r == [pend[t][a] EXCEPT !.status = "confirmed", !.confirmed = now]
    <2>1. a \in Actions /\ pend[t][a] \in Row
      BY <1>0, <1>2 DEF ExecuteAutonomous, Working
    <2>2. r \in Row
      BY <2>1, DecisionEdit DEF TypeInv, TypeOK, Statuses
    <2>3. pend' = [pend EXCEPT ![t][a] = r]
      BY <1>2 DEF ExecuteAutonomous, Write
    <2> HIDE DEF r
    <2>4. asked' \in [Actions -> Nat]
      BY <1>2, <2>1 DEF ExecuteAutonomous, TypeInv, TypeOK
    <2>5. TypeOK'
      BY <1>2, <2>2, <2>3, <2>4 DEF ExecuteAutonomous, TypeInv, TypeOK, rowVars
    <2>6. Places'
      BY <1>2, <2>1, <2>2, <2>3 DEF ExecuteAutonomous, TypeInv, TypeOK, Places, Working, Executing
    <2> QED
      BY <2>5, <2>6 DEF TypeInv
  <1>3. CASE AgentCommit(t) \/ AgentFail(t)
    BY <1>3, EndStep, SeenTypes
    DEF AgentCommit, AgentFail, Commit, Rollback, TypeInv, TypeOK, history
  <1>4. CASE FlushRejected(t)
    BY <1>0, <1>4, EndStep, SeenTypes, TellTypes DEF FlushRejected, Commit, Working, Answers
  <1>5. CASE FlushExpired(t)
    <2>1. row' \in [Actions -> Row]
      BY <1>5 DEF FlushExpired, Rollback, TypeInv, TypeOK
    <2> QED
      BY <1>0, <1>5, <2>1, EndStep, TellTypes DEF FlushExpired, Rollback, Working, Answers
  <1>6. CASE FlushConfirmed(t)
    <2>1. a \in Actions /\ pend[t][a] \in Row
      BY <1>0, <1>6 DEF FlushConfirmed, Working
    <2>2. TypeOK'
      BY <1>6, <2>1 DEF FlushConfirmed, TakeLock, TypeInv, TypeOK, history
    <2>3. Places'
      BY <1>6, <2>1 DEF FlushConfirmed, TakeLock, TypeInv, TypeOK, Places, Working, Executing
    <2> QED
      BY <2>2, <2>3 DEF TypeInv
  <1>7. CASE GuardAndRate(t)
    BY <1>7, CheckTypes DEF GuardAndRate, Executing, AssertWritable, RateOk
  <1>8. CASE CheckMode(t)
    BY <1>8, CheckTypes DEF CheckMode, Executing
  <1>9. CASE Deliver(t)
    <2>1. a \in Actions /\ pend[t][a] \in Row
      BY <1>0, <1>9 DEF Deliver, Working, Executing
    <2>2. TypeOK'
      BY <1>9, <2>1 DEF Deliver, TypeInv, TypeOK, rowVars
    <2>3. Places'
      BY <1>9, <2>1 DEF Deliver, TypeInv, TypeOK, Places, Working, Executing
    <2> QED
      BY <2>2, <2>3 DEF TypeInv
  <1>10. CASE Refuse(t) \/ AnswerLost(t)
    BY <1>10, FailTypes DEF Refuse, AnswerLost, Executing
  <1>11. CASE AnswerConfirmed(t)
    <2>1. a \in Actions /\ pend[t][a] \in Row
      BY <1>0, <1>11 DEF AnswerConfirmed, Working, Executing
    <2>2. Executed(t) \in Row
      BY <2>1, StatusEdit DEF Executed, Statuses
    <2>3. row' \in [Actions -> Row]
      BY <1>11, <2>2 DEF AnswerConfirmed, TypeInv, TypeOK
    <2> QED
      BY <1>11, <2>1, <2>3, EndStep, TellTypes DEF AnswerConfirmed, Answers
  <1>12. CASE AnswerAutonomous(t)
    <2>1. a \in Actions /\ pend[t][a] \in Row
      BY <1>0, <1>12 DEF AnswerAutonomous, Working, Executing
    <2>2. Executed(t) \in Row
      BY <2>1, StatusEdit DEF Executed, Statuses
    <2>3. pend' = [pend EXCEPT ![t][a] = Executed(t)]
      BY <1>12 DEF AnswerAutonomous, Write
    <2>4. TypeOK'
      BY <1>12, <2>2, <2>3 DEF AnswerAutonomous, TypeInv, TypeOK, rowVars, history
    <2>5. Places'
      BY <1>12, <2>1, <2>2, <2>3 DEF AnswerAutonomous, TypeInv, TypeOK, Places, Working, Executing
    <2> QED
      BY <2>4, <2>5 DEF TypeInv
  <1>13. CASE WriteMode(t)
    <2>1. goal[t] \in Goal
      BY <1>13 DEF WriteMode, TypeInv, TypeOK, Places
    <2>2. mode' \in [Chats -> Modes]
      BY <1>13, <2>1 DEF WriteMode, Goal, TypeInv, TypeOK
    <2> QED
      BY <1>13, <2>2, EndTypes DEF WriteMode, TypeInv, TypeOK, history
  <1> QED
    BY <1>1, <1>2, <1>3, <1>4, <1>5, <1>6, <1>7, <1>8, <1>9, <1>10, <1>11, <1>12, <1>13
    DEF Progress
LEMMA RequestTypes ==
  ASSUME TypeInv, NEW t \in Txs, Request(t)
  PROVE  TypeInv'
  <1>1. CASE BeginAgent(t)
    BY <1>1 DEF BeginAgent, TypeInv, TypeOK, Places, Working, Executing, rowVars, history
  <1>2. ASSUME NEW a \in Actions, ConfirmAction(t, a)
        PROVE  TypeInv'
    <2>1. ConfirmedRow(a) \in Row
      BY DecisionEdit DEF ConfirmedRow, TypeInv, TypeOK, Statuses
    <2>2. asked' \in [Actions -> Nat]
      BY <1>2 DEF ConfirmAction, TypeInv, TypeOK
    <2> QED
      BY <1>2, <2>1, <2>2, DecideTypes DEF ConfirmAction
  <1>3. ASSUME NEW a \in Actions, ConfirmExpired(t, a)
        PROVE  TypeInv'
    <2>1. ExpiredRow(a) \in Row
      BY StatusEdit DEF ExpiredRow, TypeInv, TypeOK, Statuses
    <2>2. asked' \in [Actions -> Nat]
      BY <1>3 DEF ConfirmExpired, TypeInv, TypeOK
    <2> QED
      BY <1>3, <2>1, <2>2, DecideTypes DEF ConfirmExpired
  <1>4. ASSUME NEW a \in Actions, RejectAction(t, a)
        PROVE  TypeInv'
    <2>1. RejectedRow(a) \in Row
      BY DecisionEdit DEF RejectedRow, TypeInv, TypeOK, Statuses
    <2>2. asked' \in [Actions -> Nat]
      BY <1>4 DEF RejectAction, TypeInv, TypeOK
    <2> QED
      BY <1>4, <2>1, <2>2, DecideTypes DEF RejectAction
  <1>5. ASSUME NEW c \in Chats, NEW m \in Modes, SetChatWriteMode(t, c, m)
        PROVE  TypeInv'
    <2>1. [chat |-> c, want |-> m, seen |-> mode[c]] \in Goal
      BY DEF Goal, TypeInv, TypeOK
    <2>2. goal' = [goal EXCEPT ![t] = [chat |-> c, want |-> m, seen |-> mode[c]]]
      BY <1>5 DEF SetChatWriteMode
    <2>3. goal' \in [Txs -> Goal \cup {None}] /\ goal'[t] # None
      BY <2>1, <2>2, NoneAssumption DEF TypeInv, TypeOK
    <2>4. TypeOK'
      BY <1>5, <2>3 DEF SetChatWriteMode, TypeInv, TypeOK, rowVars, history
    <2>5. Places'
      BY <1>5, <2>3 DEF SetChatWriteMode, TypeInv, TypeOK, Places, Working, Executing
    <2> QED
      BY <2>4, <2>5 DEF TypeInv
  <1> QED
    BY <1>1, <1>2, <1>3, <1>4, <1>5 DEF Request

LEMMA ProposeTypes ==
  ASSUME TypeInv, NEW t \in Txs, NEW a \in Actions, NEW c \in Chats,
         NEW forward \in BOOLEAN, NEW argsOk \in BOOLEAN,
         ProposeTool(t, a, c, forward, argsOk)
  PROVE  TypeInv'
  <1> DEFINE r == [status |-> BuildProposal(c, forward, argsOk), chat |-> c,
                   created |-> began[t], confirmed |-> 0]
  <1>1. r \in Row
    BY ConstantsAssumption DEF BuildProposal, Row, Statuses, Times, TypeInv, TypeOK
  <1>2. pend' = [pend EXCEPT ![t][a] = r]
    BY DEF ProposeTool, Write
  <1> HIDE DEF r
  <1>3. TypeOK'
    BY <1>1, <1>2 DEF ProposeTool, TypeInv, TypeOK, history
  <1>4. Places'
    BY <1>1, <1>2 DEF ProposeTool, TypeInv, TypeOK, Places, Working, Executing
  <1> QED
    BY <1>3, <1>4 DEF TypeInv

LEMMA TypeStep ==
  ASSUME TypeInv, [Next]_vars
  PROVE  TypeInv'
  <1>1. ASSUME NEW t \in Txs, CallTool(t)
        PROVE  TypeInv'
    BY <1>1, ProposeTypes DEF CallTool
  <1>2. ASSUME NEW t \in Txs, Abandon(t)
        PROVE  TypeInv'
    BY <1>2, EndStep DEF Abandon, Rollback, TypeInv, TypeOK, history
  <1>3. ASSUME NEW p \in ProtectedSets, Restart(p)
        PROVE  TypeInv'
    <2>1. NoWrites \in [Actions -> Row \cup {None}] /\ 0 \in Times
      BY ConstantsAssumption DEF NoWrites, Times
    <2> QED
      BY <1>3, <2>1 DEF Restart, TypeInv, TypeOK, Places, Working, Executing, history
  <1>4. CASE Tick
    <2>1. now' \in Times
      BY <1>4, ConstantsAssumption DEF Tick, TypeInv, TypeOK, Times
    <2> QED
      BY <1>4, <2>1 DEF Tick, TypeInv, TypeOK, Places, Working, Executing, rowVars, txVars, history
  <1>5. CASE UNCHANGED vars
    BY <1>5 DEF vars, TypeInv, TypeOK, Places, Working, Executing
  <1> QED
    BY <1>1, <1>2, <1>3, <1>4, <1>5, RequestTypes, ProgressTypes DEF Next

LEMMA TypeStart ==
  ASSUME Init
  PROVE  TypeInv
  <1>1. Absent \in Row /\ 0 \in Times
    BY ConstantsAssumption DEF Absent, Row, Statuses, Times
  <1>2. DefaultMode \in Modes
    BY ConstantsAssumption DEF Modes
  <1> QED
    BY <1>1, <1>2 DEF Init, TypeInv, TypeOK, Places, Working, Executing, NoWrites

(* Whatever rows, handlers and chats there are, every variable keeps to    *)
(* the values the columns and the handlers of services/actions.py allow.   *)
THEOREM TypeCorrect == Spec => []TypeOK
  <1>1. Spec => []TypeInv
    BY TypeStart, TypeStep, PTL DEF Spec
  <1> QED
    BY <1>1, PTL DEF TypeInv
-----------------------------------------------------------------------------
(* Why the races are harmless where they are: the inductive invariant.     *)

(* The sequence never hands out the id of a committed row. *)
Fresh == \A a \in Actions : row[a].status # "absent" => a \in used

(* A row inserted by an agent turn is seen by nobody else until it commits. *)
Private ==
  \A t \in Txs, a \in Actions :
    (kind[t] = "agent" /\ pend[t][a] # None) =>
      /\ a \in used
      /\ row[a].status = "absent"
      /\ \A u \in Txs : pend[u][a] # None => u = t

(* A decision is about one committed row, which was proposed when it was   *)
(* read and which nothing can have turned into anything but a decided row. *)
Decisions ==
  \A t \in Txs, a \in Actions :
    (kind[t] \in {"confirm", "expire", "reject"} /\ pend[t][a] # None) =>
      /\ a = act[t]
      /\ row[a].status \in {"proposed", "executed", "rejected"}
      /\ Kept!SameCall(row[a], pend[t][a])
      /\ kind[t] = "reject" => pend[t][a].status = "rejected"

(* What an agent turn has written is settled unless it is being executed. *)
Settled ==
  \A t \in Txs, a \in Actions :
    (kind[t] = "agent" /\ pend[t][a] # None /\ ~(pc[t] \in Executing /\ act[t] = a)) =>
      pend[t][a].status \in {"proposed", "executed", "failed", "blocked"}

(* A confirmation at work holds the lock of its row. *)
Locks == \A t \in Txs : (kind[t] = "confirm" /\ pc[t] \in Executing) => lock[act[t]] = t

(* "executed" is written, committed and answered only after a delivery. *)
Delivered ==
  /\ \A a \in Actions :
       (row[a].status = "executed" \/ "executed" \in told[a]) => sent[a] >= 1
  /\ \A t \in Txs : pc[t] = "delivered" => sent[act[t]] >= 1
  /\ \A t \in Txs, a \in Actions :
       (kind[t] = "agent" /\ pend[t][a] # None /\ pend[t][a].status = "executed")
         => sent[a] >= 1

(* The guard's answer lasts until the call: a new configuration needs a    *)
(* restart, and a restart leaves no handler behind it.                     *)
Guarded == \A t \in Txs : pc[t] \in {"mode", "telegram"} => Target(t) \notin protected

Inv ==
  TypeInv /\ Fresh /\ Private /\ Decisions /\ Settled /\ Locks /\ Delivered /\ Guarded
(* What the end of handler t may do to the committed row a: nothing, insert *)
(* what an agent turn wrote, or decide a row that is there.                 *)
Inserted(t, a) == kind[t] = "agent" /\ pc[t] = "agent" /\ pend[t][a] # None /\ row'[a] = pend[t][a]

Decided(a) ==
  /\ row[a].status \in {"proposed", "executed", "rejected"}
  /\ row'[a].status \in {"executed", "rejected"}
  /\ row'[a].status = "executed" => sent[a] >= 1
  /\ Kept!SameCall(row[a], row'[a])

RowMove(t, a) == row'[a] = row[a] \/ Inserted(t, a) \/ Decided(a)

LEMMA EndKeepsInv ==
  ASSUME Inv, TypeInv', NEW t \in Txs, End(t), UNCHANGED <<used, protected, sent>>,
         \A a \in Actions : RowMove(t, a),
         \A a \in Actions : "executed" \in told'[a] => "executed" \in told[a] \/ sent[a] >= 1
  PROVE  Inv'
  <1>1. /\ pc'[t] = "idle" /\ kind'[t] = "none" /\ \A a \in Actions : pend'[t][a] = None
        /\ \A u \in Txs \ {t} : /\ pc'[u] = pc[u] /\ kind'[u] = kind[u] /\ act'[u] = act[u]
                                /\ pend'[u] = pend[u]
    BY DEF End, NoWrites, Inv, TypeInv, TypeOK
  <1>2. Fresh'
    BY DEF Inv, Fresh, Private, RowMove, Inserted, Decided
  <1>3. Private'
    BY <1>1 DEF Inv, Private, RowMove, Inserted, Decided
  <1>4. Decisions'
    BY <1>1 DEF Inv, Private, Decisions, RowMove, Inserted, Decided, Kept!SameCall
  <1>5. Settled'
    BY <1>1 DEF Inv, Settled, Executing
  <1>6. Locks'
    <2> SUFFICES ASSUME NEW u \in Txs, kind'[u] = "confirm", pc'[u] \in Executing
                 PROVE  lock'[act'[u]] = u
      BY DEF Locks, Executing
    <2>1. u # t /\ act'[u] = act[u] /\ lock[act[u]] = u
      BY <1>1 DEF Inv, Locks, Executing
    <2>2. act[u] \in Actions
      BY <1>1, <2>1 DEF Inv, TypeInv, Places, Working
    <2> QED
      BY <2>1, <2>2 DEF End, FreeLocks
  <1>7. Delivered'
    <2>1. \A a \in Actions : row'[a].status = "executed" => sent[a] >= 1
      BY DEF Inv, Delivered, RowMove, Inserted, Decided
    <2>2. \A u \in Txs : pc'[u] = "delivered" => sent[act'[u]] >= 1
      BY <1>1 DEF Inv, Delivered
    <2>3. \A u \in Txs, a \in Actions :
            (kind'[u] = "agent" /\ pend'[u][a] # None /\ pend'[u][a].status = "executed")
              => sent[a] >= 1
      BY <1>1 DEF Inv, Delivered
    <2> QED
      BY <2>1, <2>2, <2>3 DEF Inv, Delivered
  <1>8. Guarded'
    BY <1>1 DEF Inv, Guarded, Target
  <1> QED
    BY <1>2, <1>3, <1>4, <1>5, <1>6, <1>7, <1>8 DEF Inv

(* A rollback, whatever the handler was doing. *)
LEMMA RollbackKeepsInv ==
  ASSUME Inv, TypeInv', NEW t \in Txs, Rollback(t), UNCHANGED <<used, protected, sent>>,
         \A a \in Actions : "executed" \in told'[a] => "executed" \in told[a]
  PROVE  Inv'
  BY EndKeepsInv DEF Rollback, RowMove

(* What reaches the table when a handler commits. *)
LEMMA CommitMoves ==
  ASSUME Inv, NEW t \in Txs, AgentCommit(t) \/ FlushRejected(t)
  PROVE  \A a \in Actions : RowMove(t, a)
  <1> SUFFICES ASSUME NEW a \in Actions
               PROVE  RowMove(t, a)
    OBVIOUS
  <1>1. row'[a] = Seen(t, a)
    BY DEF AgentCommit, FlushRejected, Commit
  <1>2. CASE AgentCommit(t)
    BY <1>1, <1>2 DEF AgentCommit, Seen, RowMove, Inserted, Inv, TypeInv, Places
  <1>3. CASE FlushRejected(t) /\ pend[t][a] # None
    <2>1. row'[a] = pend[t][a] /\ kind[t] = "reject"
      BY <1>1, <1>3 DEF FlushRejected, Seen
    <2> QED
      BY <1>3, <2>1 DEF Inv, Decisions, RowMove, Decided
  <1> QED
    BY <1>1, <1>2, <1>3 DEF Seen, RowMove

LEMMA AnswerMoves ==
  ASSUME Inv, NEW t \in Txs, AnswerConfirmed(t)
  PROVE  \A a \in Actions : RowMove(t, a)
  <1>1. act[t] \in Actions /\ pend[t][act[t]] \in Row
    BY DEF AnswerConfirmed, Inv, TypeInv, Places, Working, Executing
  <1>2. row'[act[t]] = Executed(t) /\ \A a \in Actions \ {act[t]} : row'[a] = row[a]
    BY <1>1 DEF AnswerConfirmed, Inv, TypeInv, TypeOK
  <1>3. Executed(t).status = "executed" /\ Kept!SameCall(pend[t][act[t]], Executed(t))
    BY <1>1, StatusEdit DEF Executed, Statuses
  <1>4. sent[act[t]] >= 1 /\ kind[t] = "confirm" /\ pend[t][act[t]] # None
    BY <1>1, NoneAssumption DEF AnswerConfirmed, Inv, Delivered
  <1>5. Decided(act[t])
    BY <1>1, <1>2, <1>3, <1>4 DEF Decided, Inv, Decisions, Kept!SameCall
  <1> QED
    BY <1>2, <1>5 DEF RowMove
(* An agent turn edits the row it is executing: CONFIRMED as it starts,     *)
(* EXECUTED or FAILED as it ends.                                          *)
LEMMA EditKeepsInv ==
  ASSUME Inv, TypeInv', NEW t \in Txs, NEW a \in Actions, NEW r \in Row,
         NEW next \in {"guard", "agent"},
         kind[t] = "agent", act[t] = a, pend[t][a] # None,
         pend' = [pend EXCEPT ![t][a] = r],
         pc' = [pc EXCEPT ![t] = next],
         next = "guard" => act' = act,
         next = "agent" => /\ act' = [act EXCEPT ![t] = None]
                           /\ r.status \in {"executed", "failed"},
         r.status = "executed" => sent[a] >= 1,
         UNCHANGED <<row, used, protected, kind, lock, sent, told>>
  PROVE  Inv'
  <1>1. /\ pc'[t] = next /\ pend'[t][a] = r /\ \A b \in Actions \ {a} : pend'[t][b] = pend[t][b]
        /\ \A u \in Txs \ {t} : pc'[u] = pc[u] /\ act'[u] = act[u] /\ pend'[u] = pend[u]
        /\ r # None
    BY NoneAssumption DEF Inv, TypeInv, TypeOK
  <1>2. Fresh'
    BY DEF Inv, Fresh
  <1>3. Private'
    BY <1>1 DEF Inv, Private
  <1>4. Decisions'
    BY <1>1 DEF Inv, Decisions
  <1>5. Settled'
    BY <1>1 DEF Inv, Settled, Executing
  <1>6. Locks'
    BY <1>1 DEF Inv, Locks, Executing
  <1>7. Delivered'
    BY <1>1 DEF Inv, Delivered
  <1>8. Guarded'
    BY <1>1 DEF Inv, Guarded, Target
  <1> QED
    BY <1>2, <1>3, <1>4, <1>5, <1>6, <1>7, <1>8 DEF Inv

(* A handler that only moves on, leaving every row as it was. *)
LEMMA MoveKeepsInv ==
  ASSUME Inv, TypeInv', NEW t \in Txs,
         \A u \in Txs \ {t} : pc'[u] = pc[u] /\ act'[u] = act[u] /\ kind'[u] = kind[u],
         kind[t] = kind'[t] \/ pend[t] = NoWrites,
         act[t] = act'[t] \/ kind'[t] = "agent",
         pc[t] \in Executing => pc'[t] \in Executing /\ act'[t] = act[t],
         (kind'[t] = "confirm" /\ pc'[t] \in Executing) => lock'[act'[t]] = t,
         \A u \in Txs, b \in Actions : lock[b] = u => lock'[b] = u,
         pc'[t] = "delivered" => sent'[act'[t]] >= 1,
         \A b \in Actions : sent[b] <= sent'[b],
         pc'[t] \in {"mode", "telegram"} => Target(t)' \notin protected,
         UNCHANGED <<row, used, protected, pend, told>>
  PROVE  Inv'
  <1>1. Fresh'
    BY DEF Inv, Fresh
  <1>2. Private'
    BY DEF Inv, Private, NoWrites
  <1>3. Decisions'
    BY DEF Inv, Decisions, NoWrites
  <1>4. Settled'
    BY DEF Inv, Settled, NoWrites
  <1>5. Locks'
    <2> SUFFICES ASSUME NEW u \in Txs, kind'[u] = "confirm", pc'[u] \in Executing, u # t
                 PROVE  lock'[act'[u]] = u
      BY DEF Locks, Executing
    <2>1. lock[act[u]] = u /\ act'[u] = act[u]
      BY DEF Inv, Locks, Executing
    <2>2. act[u] \in Actions
      BY DEF Inv, TypeInv, Places, Working
    <2> QED
      BY <2>1, <2>2
  <1>6. Delivered'
    <2>1. sent \in [Actions -> Nat] /\ sent' \in [Actions -> Nat]
      BY DEF Inv, TypeInv, TypeOK
    <2>2. \A b \in Actions : sent[b] >= 1 => sent'[b] >= 1
      BY <2>1
    <2>3. \A u \in Txs : pc'[u] = "delivered" => sent'[act'[u]] >= 1
      <3> SUFFICES ASSUME NEW u \in Txs, pc'[u] = "delivered", u # t
                   PROVE  sent'[act'[u]] >= 1
        OBVIOUS
      <3>1. sent[act[u]] >= 1 /\ act'[u] = act[u] /\ act[u] \in Actions
        BY DEF Inv, Delivered, TypeInv, Places, Working, Executing
      <3> QED
        BY <2>2, <3>1
    <2> QED
      BY <2>2, <2>3 DEF Inv, Delivered, NoWrites
  <1>7. Guarded'
    <2> SUFFICES ASSUME NEW u \in Txs, pc'[u] \in {"mode", "telegram"}, u # t
                 PROVE  Target(u)' \notin protected'
      BY DEF Guarded, Executing
    <2> QED
      BY DEF Inv, Guarded, Target
  <1> QED
    BY <1>1, <1>2, <1>3, <1>4, <1>5, <1>6, <1>7 DEF Inv
LEMMA DecideKeepsInv ==
  ASSUME Inv, TypeInv', NEW t \in Txs, NEW a \in Actions, NEW r \in Row,
         NEW what \in {"confirm", "expire", "reject"}, Decide(t, a, what, r),
         Kept!SameCall(row[a], r), what = "reject" => r.status = "rejected"
  PROVE  Inv'
  <1>1. /\ pc[t] = "idle" /\ pc'[t] = "flush" /\ kind'[t] = what /\ act'[t] = a
        /\ pend'[t][a] = r /\ pend[t] = NoWrites
        /\ \A b \in Actions \ {a} : pend'[t][b] = None
        /\ \A u \in Txs \ {t} : /\ pc'[u] = pc[u] /\ kind'[u] = kind[u] /\ act'[u] = act[u]
                                /\ pend'[u] = pend[u]
    BY DEF Decide, Write, NoWrites, Inv, TypeInv, TypeOK, Places
  <1>2. row[a].status = "proposed" /\ UNCHANGED <<row, used, lock, protected, sent, told>>
    BY DEF Decide, Decidable, rowVars
  <1>3. Fresh'
    BY <1>2 DEF Inv, Fresh
  <1>4. Private'
    BY <1>1, <1>2 DEF Inv, Private
  <1>5. Decisions'
    BY <1>1, <1>2 DEF Inv, Decisions
  <1>6. Settled'
    BY <1>1 DEF Inv, Settled, Executing
  <1>7. Locks'
    BY <1>1, <1>2 DEF Inv, Locks, Executing
  <1>8. Delivered'
    BY <1>1, <1>2 DEF Inv, Delivered
  <1>9. Guarded'
    BY <1>1, <1>2 DEF Inv, Guarded, Target
  <1> QED
    BY <1>3, <1>4, <1>5, <1>6, <1>7, <1>8, <1>9 DEF Inv

LEMMA ProposeKeepsInv ==
  ASSUME Inv, TypeInv', NEW t \in Txs, NEW a \in Actions, NEW c \in Chats,
         NEW forward \in BOOLEAN, NEW argsOk \in BOOLEAN,
         ProposeTool(t, a, c, forward, argsOk)
  PROVE  Inv'
  <1> DEFINE r == [status |-> BuildProposal(c, forward, argsOk), chat |-> c,
                   created |-> began[t], confirmed |-> 0]
  <1>1. /\ pc[t] = "agent" /\ kind[t] = "agent" /\ pc'[t] \in {"agent", "proposed"}
        /\ pend'[t][a] = r /\ \A b \in Actions \ {a} : pend'[t][b] = pend[t][b]
        /\ \A u \in Txs \ {t} : pc'[u] = pc[u] /\ act'[u] = act[u] /\ pend'[u] = pend[u]
    BY DEF ProposeTool, Write, Inv, TypeInv, TypeOK, Places
  <1>2. /\ a \notin used /\ used' = used \cup {a}
        /\ UNCHANGED <<row, lock, protected, kind, sent, told>>
    BY DEF ProposeTool, history
  <1>3. r.status \in {"proposed", "failed", "blocked"}
    BY DEF BuildProposal
  <1> HIDE DEF r
  <1>4. row[a].status = "absent"
    BY <1>2 DEF Inv, Fresh
  <1>5. \A u \in Txs \ {t} : pend[u][a] = None
    <2> SUFFICES ASSUME NEW u \in Txs, pend[u][a] # None
                 PROVE  FALSE
      OBVIOUS
    <2>1. kind[u] # "agent"
      BY <1>2 DEF Inv, Private
    <2>2. kind[u] \notin {"confirm", "expire", "reject"}
      BY <1>4 DEF Inv, Decisions
    <2>3. kind[u] \notin {"none", "set_mode"}
      BY DEF Inv, TypeInv, Places, NoWrites
    <2> QED
      BY <2>1, <2>2, <2>3 DEF Inv, TypeInv, TypeOK
  <1>6. Fresh'
    BY <1>2 DEF Inv, Fresh
  <1>7. Private'
    BY <1>1, <1>2, <1>4, <1>5 DEF Inv, Private
  <1>8. Decisions'
    BY <1>1, <1>2 DEF Inv, Decisions
  <1>9. Settled'
    BY <1>1, <1>2, <1>3 DEF Inv, Settled, Executing
  <1>10. Locks'
    BY <1>1, <1>2 DEF Inv, Locks, Executing
  <1>11. Delivered'
    BY <1>1, <1>2, <1>3 DEF Inv, Delivered
  <1>12. Guarded'
    BY <1>1, <1>2 DEF Inv, Guarded, Target
  <1> QED
    BY <1>6, <1>7, <1>8, <1>9, <1>10, <1>11, <1>12 DEF Inv

LEMMA FailKeepsInv ==
  ASSUME Inv, TypeInv', NEW t \in Txs, pc[t] \in Executing, Fail(t),
         UNCHANGED <<used, mode, protected, now, sent, asked>>
  PROVE  Inv'
  <1> DEFINE a == act[t]
  <1>1. a \in Actions /\ pend[t][a] \in Row
    BY DEF Inv, TypeInv, Places, Working
  <1>2. CASE kind[t] = "agent"
    <2> DEFINE r == [pend[t][a] EXCEPT !.status = "failed"]
    <2>1. r \in Row /\ r.status = "failed"
      BY <1>1, StatusEdit DEF Statuses
    <2>2. pend' = [pend EXCEPT ![t][a] = r]
      BY <1>2 DEF Fail, Write
    <2> HIDE DEF r
    <2> QED
      BY <1>1, <1>2, <2>1, <2>2, NoneAssumption, EditKeepsInv DEF Fail
  <1>3. CASE kind[t] # "agent"
    <2>1. Rollback(t) /\ told' = [told EXCEPT ![a] = @ \cup {"failed"}]
      BY <1>3 DEF Fail, Tell
    <2>2. \A b \in Actions : "executed" \in told'[b] => "executed" \in told[b]
      BY <1>1, <2>1 DEF Inv, TypeInv, TypeOK
    <2> QED
      BY <2>1, <2>2, RollbackKeepsInv
  <1> QED
    BY <1>2, <1>3

LEMMA CheckKeepsInv ==
  ASSUME Inv, TypeInv', NEW t \in Txs, NEW here \in Executing, NEW next \in Executing \ {"delivered"},
         NEW ok \in BOOLEAN, ok => Target(t) \notin protected,
         Check(t, here, ok, next)
  PROVE  Inv'
  <1>1. CASE ok
    <2>1. pc[t] = here /\ pc' = [pc EXCEPT ![t] = next]
          /\ UNCHANGED <<row, used, protected, kind, act, lock, pend, sent, told>>
      BY <1>1 DEF Check
    <2>2. /\ pc'[t] = next /\ Target(t)' = Target(t)
          /\ \A u \in Txs \ {t} : pc'[u] = pc[u]
      BY <2>1 DEF Target, Inv, TypeInv, TypeOK
    <2>3. kind[t] = "confirm" => lock'[act'[t]] = t
      BY <2>1 DEF Inv, Locks
    <2>4. \A b \in Actions : sent[b] <= sent'[b]
      BY <2>1 DEF Inv, TypeInv, TypeOK
    <2> QED
      BY <1>1, <2>1, <2>2, <2>3, <2>4, MoveKeepsInv DEF Executing
  <1>2. CASE ~ok
    BY <1>2, FailKeepsInv DEF Check
  <1> QED
    BY <1>1, <1>2
LEMMA ProgressKeepsInv ==
  ASSUME Inv, TypeInv', NEW t \in Txs, Progress(t)
  PROVE  Inv'
  <1> DEFINE a == act[t]
  <1>0. /\ pc[t] \in Working => a \in Actions /\ pend[t][a] \in Row /\ pend[t][a] # None
        /\ \A b \in Actions : sent[b] \in Nat
    BY NoneAssumption DEF Inv, TypeInv, TypeOK, Places
  <1>1. CASE KeepProposal(t)
    <2>1. /\ pc[t] = "proposed" /\ kind[t] = "agent" /\ pc'[t] = "agent"
          /\ \A u \in Txs \ {t} : pc'[u] = pc[u] /\ act'[u] = act[u]
          /\ UNCHANGED <<row, used, protected, kind, lock, pend, sent, told>>
      BY <1>1 DEF KeepProposal, rowVars, history, Inv, TypeInv, TypeOK, Places
    <2> QED
      BY <1>0, <2>1, MoveKeepsInv DEF Executing
  <1>2. CASE ExecuteAutonomous(t)
    <2> DEFINE r == [pend[t][a] EXCEPT !.status = "confirmed", !.confirmed = now]
    <2>0. pend[t][a] \in Row /\ now \in Times /\ "confirmed" \in Statuses
      BY <1>0, <1>2 DEF ExecuteAutonomous, Working, Inv, TypeInv, TypeOK, Statuses
    <2>1. r \in Row /\ r.status = "confirmed"
      BY <2>0, DecisionEdit
    <2>2. pend' = [pend EXCEPT ![t][a] = r]
      BY <1>2 DEF ExecuteAutonomous, Write
    <2> HIDE DEF r
    <2>3. /\ kind[t] = "agent" /\ pc' = [pc EXCEPT ![t] = "guard"] /\ act' = act
          /\ UNCHANGED <<row, used, protected, kind, lock, sent, told>>
      BY <1>2 DEF ExecuteAutonomous, rowVars, Inv, TypeInv, Places
    <2>4. a \in Actions /\ pend[t][a] # None
      BY <1>0, <1>2 DEF ExecuteAutonomous, Working
    <2> QED
      BY <2>1, <2>2, <2>3, <2>4, EditKeepsInv
  <1>3. CASE AgentCommit(t)
    BY <1>3, CommitMoves, EndKeepsInv DEF AgentCommit, Commit, history
  <1>4. CASE AgentFail(t)
    BY <1>4, RollbackKeepsInv DEF AgentFail, history
  <1>5. CASE FlushRejected(t)
    <2>1. \A b \in Actions : "executed" \in told'[b] => "executed" \in told[b]
      BY <1>5 DEF FlushRejected, Tell, Inv, TypeInv, TypeOK
    <2> QED
      BY <1>5, <2>1, CommitMoves, EndKeepsInv DEF FlushRejected, Commit
  <1>6. CASE FlushExpired(t)
    <2>1. \A b \in Actions : "executed" \in told'[b] => "executed" \in told[b]
      BY <1>6 DEF FlushExpired, Tell, Inv, TypeInv, TypeOK
    <2> QED
      BY <1>6, <2>1, RollbackKeepsInv DEF FlushExpired
  <1>7. CASE FlushConfirmed(t)
    <2>1. /\ pc[t] = "flush" /\ kind[t] = "confirm" /\ pc'[t] = "guard" /\ a \in Actions
          /\ \A u \in Txs \ {t} : pc'[u] = pc[u]
          /\ UNCHANGED <<row, used, protected, kind, act, pend, sent, told>>
      BY <1>0, <1>7 DEF FlushConfirmed, history, Working, Inv, TypeInv, TypeOK
    <2>2. /\ lock'[a] = t
          /\ \A u \in Txs, b \in Actions : lock[b] = u => lock'[b] = u
      BY <1>7, <2>1, NoneAssumption DEF FlushConfirmed, TakeLock, Inv, TypeInv, TypeOK
    <2> QED
      BY <1>0, <2>1, <2>2, MoveKeepsInv DEF Executing
  <1>8. CASE GuardAndRate(t)
    BY <1>8, CheckKeepsInv DEF GuardAndRate, Executing, AssertWritable, RateOk
  <1>9. CASE CheckMode(t)
    <2>1. Target(t) \notin protected
      BY <1>9 DEF CheckMode, Check, Inv, Guarded
    <2> QED
      BY <1>9, <2>1, CheckKeepsInv DEF CheckMode, Executing
  <1>10. CASE Deliver(t)
    <2>1. /\ pc[t] = "telegram" /\ pc'[t] = "delivered" /\ a \in Actions
          /\ \A u \in Txs \ {t} : pc'[u] = pc[u]
          /\ UNCHANGED <<row, used, protected, kind, act, lock, pend, told>>
      BY <1>0, <1>10 DEF Deliver, rowVars, Working, Executing, Inv, TypeInv, TypeOK
    <2>2. sent'[a] >= 1 /\ \A b \in Actions : sent[b] <= sent'[b]
      BY <1>0, <1>10, <2>1 DEF Deliver, Inv, TypeInv, TypeOK
    <2>3. kind[t] = "confirm" => lock'[a] = t
      BY <2>1 DEF Inv, Locks, Executing
    <2> QED
      BY <2>1, <2>2, <2>3, MoveKeepsInv DEF Executing
  <1>11. CASE Refuse(t) \/ AnswerLost(t)
    BY <1>11, FailKeepsInv DEF Refuse, AnswerLost, Executing
  <1>12. CASE AnswerConfirmed(t)
    <2>1. sent[a] >= 1
      BY <1>12 DEF AnswerConfirmed, Inv, Delivered
    <2>2. \A b \in Actions : "executed" \in told'[b] => "executed" \in told[b] \/ sent[b] >= 1
      BY <1>12, <2>1 DEF AnswerConfirmed, Tell, Inv, TypeInv, TypeOK
    <2> QED
      BY <1>12, <2>2, AnswerMoves, EndKeepsInv DEF AnswerConfirmed
  <1>13. CASE AnswerAutonomous(t)
    <2>1. a \in Actions /\ pend[t][a] \in Row /\ pend[t][a] # None
      BY <1>0, <1>13 DEF AnswerAutonomous, Working, Executing
    <2>2. Executed(t) \in Row /\ Executed(t).status = "executed"
      BY <2>1, StatusEdit DEF Executed, Statuses
    <2>3. sent[a] >= 1
      BY <1>13 DEF AnswerAutonomous, Inv, Delivered
    <2> QED
      BY <1>13, <2>1, <2>2, <2>3, EditKeepsInv DEF AnswerAutonomous, Write, rowVars, history
  <1>14. CASE WriteMode(t)
    BY <1>14, EndKeepsInv DEF WriteMode, RowMove, history
  <1> QED
    BY <1>1, <1>2, <1>3, <1>4, <1>5, <1>6, <1>7, <1>8, <1>9, <1>10, <1>11, <1>12, <1>13, <1>14
    DEF Progress
LEMMA RequestKeepsInv ==
  ASSUME Inv, TypeInv', NEW t \in Txs, Request(t)
  PROVE  Inv'
  <1>0. now \in Times /\ \A a \in Actions : row[a] \in Row /\ sent[a] \in Nat
    BY DEF Inv, TypeInv, TypeOK
  <1>1. CASE BeginAgent(t)
    <2>1. /\ pc[t] = "idle" /\ pc'[t] = "agent" /\ kind'[t] = "agent" /\ pend[t] = NoWrites
          /\ \A u \in Txs \ {t} : pc'[u] = pc[u] /\ kind'[u] = kind[u]
          /\ UNCHANGED <<row, used, protected, act, lock, pend, sent, told>>
      BY <1>1 DEF BeginAgent, rowVars, history, Inv, TypeInv, TypeOK, Places
    <2> QED
      BY <1>0, <2>1, MoveKeepsInv DEF Executing
  <1>2. ASSUME NEW a \in Actions, ConfirmAction(t, a)
        PROVE  Inv'
    <2>1. ConfirmedRow(a) \in Row /\ Kept!SameCall(row[a], ConfirmedRow(a))
      BY <1>0, DecisionEdit DEF ConfirmedRow, Statuses
    <2> QED
      BY <1>2, <2>1, DecideKeepsInv DEF ConfirmAction
  <1>3. ASSUME NEW a \in Actions, ConfirmExpired(t, a)
        PROVE  Inv'
    <2>1. ExpiredRow(a) \in Row /\ Kept!SameCall(row[a], ExpiredRow(a))
      BY <1>0, StatusEdit DEF ExpiredRow, Statuses
    <2> QED
      BY <1>3, <2>1, DecideKeepsInv DEF ConfirmExpired
  <1>4. ASSUME NEW a \in Actions, RejectAction(t, a)
        PROVE  Inv'
    <2>1. /\ RejectedRow(a) \in Row /\ RejectedRow(a).status = "rejected"
          /\ Kept!SameCall(row[a], RejectedRow(a))
      BY <1>0, DecisionEdit DEF RejectedRow, Statuses
    <2> QED
      BY <1>4, <2>1, DecideKeepsInv DEF RejectAction
  <1>5. ASSUME NEW c \in Chats, NEW m \in Modes, SetChatWriteMode(t, c, m)
        PROVE  Inv'
    <2>1. /\ pc[t] = "idle" /\ pc'[t] = "set_mode" /\ kind'[t] = "set_mode"
          /\ pend[t] = NoWrites
          /\ \A u \in Txs \ {t} : pc'[u] = pc[u] /\ kind'[u] = kind[u]
          /\ UNCHANGED <<row, used, protected, act, lock, pend, sent, told>>
      BY <1>5 DEF SetChatWriteMode, rowVars, history, Inv, TypeInv, TypeOK, Places
    <2> QED
      BY <1>0, <2>1, MoveKeepsInv DEF Executing
  <1> QED
    BY <1>1, <1>2, <1>3, <1>4, <1>5 DEF Request

LEMMA RestartKeepsInv ==
  ASSUME Inv, TypeInv', NEW p \in ProtectedSets, Restart(p)
  PROVE  Inv'
  <1>1. /\ \A t \in Txs : /\ pc'[t] = "idle" /\ kind'[t] = "none"
                          /\ \A a \in Actions : pend'[t][a] = None
        /\ UNCHANGED <<row, used, sent, told>>
    BY DEF Restart, NoWrites, history
  <1> QED
    BY <1>1 DEF Inv, Fresh, Private, Decisions, Settled, Locks, Delivered, Guarded, Executing

LEMMA InvStep ==
  ASSUME Inv, [Next]_vars
  PROVE  Inv'
  <1>1. TypeInv'
    BY TypeStep DEF Inv
  <1>2. ASSUME NEW t \in Txs, CallTool(t)
        PROVE  Inv'
    BY <1>1, <1>2, ProposeKeepsInv DEF CallTool
  <1>3. ASSUME NEW t \in Txs, Abandon(t)
        PROVE  Inv'
    BY <1>1, <1>3, RollbackKeepsInv DEF Abandon, history
  <1>4. CASE Tick \/ UNCHANGED vars
    <2>1. UNCHANGED <<row, used, protected, pc, kind, act, pend, lock, sent, told>>
      BY <1>4 DEF Tick, vars, rowVars, txVars, history
    <2> QED
      BY <1>1, <2>1
      DEF Inv, Fresh, Private, Decisions, Settled, Locks, Delivered, Guarded, Target
  <1> QED
    BY <1>1, <1>2, <1>3, <1>4, RequestKeepsInv, ProgressKeepsInv, RestartKeepsInv DEF Next

LEMMA InvStart ==
  ASSUME Init
  PROVE  Inv
  <1>1. TypeInv
    BY TypeStart
  <1>2. /\ \A a \in Actions : row[a].status = "absent" /\ told[a] = {}
        /\ \A t \in Txs : pc[t] = "idle" /\ kind[t] = "none"
    BY DEF Init, Absent
  <1> QED
    BY <1>1, <1>2
    DEF Inv, Fresh, Private, Decisions, Settled, Locks, Delivered, Guarded, Executing

LEMMA Invariance == Spec => []Inv
  BY InvStart, InvStep, PTL DEF Spec

-----------------------------------------------------------------------------
(* The theorems.                                                           *)

(* No two handlers are ever between the flush of CONFIRMED and the end of  *)
(* execute_action for the same row, however many handlers there are.       *)
THEOREM ExecutionIsExclusive == Spec => []OneCallInFlight
  <1>1. Inv => OneCallInFlight
    <2> SUFFICES ASSUME Inv, NEW t \in Txs, NEW u \in Txs, pc[t] \in Executing,
                        pc[u] \in Executing, act[t] = act[u]
                 PROVE  t = u
      BY DEF OneCallInFlight
    <2> DEFINE a == act[t]
    <2>1. /\ a \in Actions /\ pend[t][a] # None /\ pend[u][a] # None
          /\ kind[t] \in {"agent", "confirm"} /\ kind[u] \in {"agent", "confirm"}
      BY NoneAssumption DEF Inv, TypeInv, Places, Working
    <2>2. CASE kind[t] = "agent" \/ kind[u] = "agent"
      BY <2>1, <2>2 DEF Inv, Private
    <2>3. CASE kind[t] = "confirm" /\ kind[u] = "confirm"
      BY <2>3 DEF Inv, Locks
    <2> QED
      BY <2>1, <2>2, <2>3
  <1> QED
    BY <1>1, Invariance, PTL

(* A row that shows EXECUTED, or an answer that says so, is about a        *)
(* message that Telegram has delivered.                                    *)
THEOREM ExecutedIsTrue == Spec => []ExecutedWasDelivered
  <1>1. Inv => ExecutedWasDelivered
    BY DEF Inv, Delivered, ExecutedWasDelivered
  <1> QED
    BY <1>1, Invariance, PTL

(* No delivery goes to a chat that assert_writable protects at that moment. *)
THEOREM NoProtectedDelivery == Spec => ProtectedNeverWritten
  <1>1. Inv => [\A t \in Txs : (pc[t] = "telegram" /\ pc'[t] = "delivered")
                                  => Target(t) \notin protected]_vars
    BY DEF Inv, Guarded
  <1> QED
    BY <1>1, Invariance, PTL DEF ProtectedNeverWritten

(* agent_actions implements the append-only ledger: whatever commits, in   *)
(* whatever order, keeps each recorded call and follows the edges.         *)
THEOREM LedgerRefined == Spec => LedgerKept
  <1>1. Init => Kept!LedgerInit
    BY DEF Init, Absent, Kept!LedgerInit
  <1>2. ASSUME Inv, [Next]_vars
        PROVE  [Kept!LedgerNext]_row
    <2>1. ASSUME NEW t \in Txs, NEW a \in Actions, RowMove(t, a)
          PROVE  Kept!RowStep(row[a], row'[a])
      <3>1. CASE row'[a] = row[a]
        BY <3>1 DEF Kept!RowStep, Kept!SameCall
      <3>2. CASE Inserted(t, a)
        <4>1. row[a].status = "absent"
          BY <1>2, <3>2 DEF Inserted, Inv, Private
        <4>2. row'[a].status \in {"proposed", "executed", "failed", "blocked"}
          BY <1>2, <3>2 DEF Inserted, Inv, Settled, Executing
        <4> QED
          BY <4>1, <4>2 DEF Kept!RowStep, CodeEdges
      <3>3. CASE Decided(a)
        BY <3>3 DEF Decided, Kept!RowStep, CodeEdges
      <3> QED
        BY <2>1, <3>1, <3>2, <3>3 DEF RowMove
    <2>2. ASSUME NEW t \in Txs, AgentCommit(t) \/ FlushRejected(t) \/ AnswerConfirmed(t)
          PROVE  Kept!LedgerNext
      BY <1>2, <2>1, <2>2, CommitMoves, AnswerMoves DEF Kept!LedgerNext
    <2>3. ASSUME NEW t \in Txs, Progress(t)
          PROVE  Kept!LedgerNext \/ UNCHANGED row
      BY <2>2, <2>3
      DEF Progress, KeepProposal, ExecuteAutonomous, AgentFail, FlushExpired, FlushConfirmed,
          GuardAndRate, CheckMode, Check, Fail, Deliver, Refuse, AnswerLost, AnswerAutonomous,
          WriteMode, Rollback, rowVars
    <2>4. ASSUME NEW t \in Txs, Request(t) \/ CallTool(t) \/ Abandon(t)
          PROVE  UNCHANGED row
      BY <2>4
      DEF Request, BeginAgent, ConfirmAction, ConfirmExpired, RejectAction, Decide,
          SetChatWriteMode, CallTool, ProposeTool, Abandon, Rollback, rowVars
    <2> QED
      BY <1>2, <2>3, <2>4 DEF Next, Restart, Tick, vars, rowVars
  <1> QED
    BY <1>1, <1>2, Invariance, PTL DEF Spec, LedgerKept, Kept!LedgerSpec

-----------------------------------------------------------------------------
(* The handlers that may still make a delivery for row a. *)
Owed(a) ==
  {t \in Txs : /\ act[t] = a
               /\ pc[t] \in {"guard", "mode", "telegram"} \/ (pc[t] = "flush" /\ kind[t] = "confirm")}

(* A confirmation is paid for when it is asked, not when it gets the lock. *)
Funded == \A a \in Actions : sent[a] + Cardinality(Owed(a)) <= asked[a]

LEMMA OwedCard ==
  ASSUME NEW S \in SUBSET Txs
  PROVE  /\ IsFiniteSet(S) /\ Cardinality(S) \in Nat
         /\ \A R \in SUBSET S : Cardinality(R) \in Nat /\ Cardinality(R) <= Cardinality(S)
         /\ \A t \in Txs \ S : Cardinality(S \cup {t}) = Cardinality(S) + 1
         /\ \A t \in S : Cardinality(S \ {t}) = Cardinality(S) - 1
  <1>1. IsFiniteSet(S)
    BY FS_Subset, ConstantsAssumption
  <1> QED
    BY <1>1, FS_Subset, FS_CardinalityType, FS_AddElement, FS_RemoveElement

LEMMA FewerOwed ==
  ASSUME Inv, Funded, UNCHANGED <<sent, asked>>, \A a \in Actions : Owed(a)' \subseteq Owed(a)
  PROVE  Funded'
  <1> SUFFICES ASSUME NEW a \in Actions
               PROVE  sent'[a] + Cardinality(Owed(a)') <= asked'[a]
    BY DEF Funded
  <1>1. Owed(a) \in SUBSET Txs /\ Owed(a)' \in SUBSET Owed(a)
    BY DEF Owed
  <1>2. /\ Cardinality(Owed(a)) \in Nat /\ Cardinality(Owed(a)') \in Nat
        /\ Cardinality(Owed(a)') <= Cardinality(Owed(a))
    BY <1>1, OwedCard
  <1>3. sent[a] \in Nat /\ asked[a] \in Nat /\ sent[a] + Cardinality(Owed(a)) <= asked[a]
    BY DEF Inv, TypeInv, TypeOK, Funded
  <1> QED
    BY <1>2, <1>3

LEMMA OneMoreOwed ==
  ASSUME Inv, Funded, NEW t \in Txs, NEW a \in Actions, UNCHANGED sent,
         asked' = [asked EXCEPT ![a] = @ + 1],
         t \notin Owed(a), Owed(a)' = Owed(a) \cup {t},
         \A b \in Actions \ {a} : Owed(b)' = Owed(b)
  PROVE  Funded'
  <1>1. \A b \in Actions : /\ sent[b] \in Nat /\ asked[b] \in Nat
                           /\ sent[b] + Cardinality(Owed(b)) <= asked[b]
    BY DEF Inv, TypeInv, TypeOK, Funded
  <1>2. Cardinality(Owed(a)') = Cardinality(Owed(a)) + 1 /\ Cardinality(Owed(a)) \in Nat
    <2>1. Owed(a) \in SUBSET Txs
      BY DEF Owed
    <2> QED
      BY <2>1, OwedCard
  <1>3. /\ asked'[a] = asked[a] + 1
        /\ \A b \in Actions \ {a} : asked'[b] = asked[b]
    BY DEF Inv, TypeInv, TypeOK
  <1>4. sent'[a] + Cardinality(Owed(a)') <= asked'[a]
    BY <1>1, <1>2, <1>3
  <1>5. \A b \in Actions \ {a} : sent'[b] + Cardinality(Owed(b)') <= asked'[b]
    BY <1>1, <1>3
  <1> QED
    BY <1>4, <1>5 DEF Funded

LEMMA DeliveryPaid ==
  ASSUME Inv, Inv', Funded, NEW t \in Txs, Deliver(t)
  PROVE  Funded'
  <1> DEFINE a == act[t]
  <1>1. /\ a \in Actions /\ pc[t] = "telegram" /\ act' = act /\ kind' = kind /\ asked' = asked
        /\ pc' = [pc EXCEPT ![t] = "delivered"] /\ sent' = [sent EXCEPT ![a] = @ + 1]
    BY DEF Deliver, Inv, TypeInv, Places, Working, Executing
  <1>2. /\ \A b \in Actions : Owed(b) \in SUBSET Txs
        /\ t \in Owed(a) /\ Owed(a)' = Owed(a) \ {t}
        /\ \A b \in Actions \ {a} : Owed(b)' = Owed(b)
    <2>1. pc'[t] = "delivered" /\ \A u \in Txs \ {t} : pc'[u] = pc[u]
      BY <1>1 DEF Inv, TypeInv, TypeOK
    <2> QED
      BY <1>1, <2>1 DEF Owed
  <1>3. /\ Cardinality(Owed(a)') = Cardinality(Owed(a)) - 1
        /\ Cardinality(Owed(a)) \in Nat
    BY <1>1, <1>2, OwedCard
  <1>4. \A b \in Actions : /\ sent[b] \in Nat /\ asked[b] \in Nat
                           /\ sent[b] + Cardinality(Owed(b)) <= asked[b]
    BY DEF Inv, TypeInv, TypeOK, Funded
  <1>5. sent'[a] = sent[a] + 1 /\ \A b \in Actions \ {a} : sent'[b] = sent[b]
    BY <1>1 DEF Inv, TypeInv, TypeOK
  <1>6. sent'[a] + Cardinality(Owed(a)') <= asked'[a]
    BY <1>1, <1>3, <1>4, <1>5
  <1>7. ASSUME NEW b \in Actions \ {a}
        PROVE  sent'[b] + Cardinality(Owed(b)') <= asked'[b]
    <2>1. Owed(b)' = Owed(b) /\ sent'[b] = sent[b] /\ asked'[b] = asked[b]
      BY <1>1, <1>2, <1>5
    <2> QED
      BY <1>4, <2>1
  <1> QED
    BY <1>1, <1>6, <1>7 DEF Funded

LEMMA ProgressFunded ==
  ASSUME Inv, Inv', Funded, NEW t \in Txs, Progress(t)
  PROVE  Funded'
  <1>0. pc[t] \in Working => act[t] \in Actions
    BY DEF Inv, TypeInv, Places
  <1>1. CASE Deliver(t)
    BY <1>1, DeliveryPaid
  <1>2. CASE ExecuteAutonomous(t)
    <2> DEFINE a == act[t]
    <2>1. /\ a \in Actions /\ pc[t] = "proposed" /\ act' = act /\ kind' = kind /\ sent' = sent
          /\ pc' = [pc EXCEPT ![t] = "guard"] /\ asked' = [asked EXCEPT ![a] = @ + 1]
      BY <1>0, <1>2 DEF ExecuteAutonomous, Working
    <2>2. pc'[t] = "guard" /\ \A u \in Txs \ {t} : pc'[u] = pc[u]
      BY <2>1 DEF Inv, TypeInv, TypeOK
    <2>3. /\ t \notin Owed(a) /\ Owed(a)' = Owed(a) \cup {t}
          /\ \A b \in Actions \ {a} : Owed(b)' = Owed(b)
      BY <2>1, <2>2 DEF Owed
    <2> QED
      BY <2>1, <2>3, OneMoreOwed
  <1>3. CASE KeepProposal(t) \/ FlushConfirmed(t) \/ AnswerAutonomous(t)
    <2>1. /\ UNCHANGED <<sent, asked>> /\ kind' = kind
          /\ \A u \in Txs \ {t} : pc'[u] = pc[u] /\ act'[u] = act[u]
      BY <1>3 DEF KeepProposal, FlushConfirmed, AnswerAutonomous, history, Inv, TypeInv, TypeOK
    <2>2. \/ pc'[t] = "agent"
          \/ pc[t] = "flush" /\ kind[t] = "confirm" /\ act'[t] = act[t]
      BY <1>3 DEF KeepProposal, FlushConfirmed, AnswerAutonomous, Inv, TypeInv, TypeOK
    <2>3. \A a \in Actions : Owed(a)' \subseteq Owed(a)
      BY <2>1, <2>2 DEF Owed
    <2> QED
      BY <2>1, <2>3, FewerOwed
  <1>4. ASSUME End(t), UNCHANGED <<sent, asked>>
        PROVE  Funded'
    <2>1. pc'[t] = "idle" /\ \A u \in Txs \ {t} : /\ pc'[u] = pc[u] /\ act'[u] = act[u]
                                                 /\ kind'[u] = kind[u]
      BY <1>4 DEF End, Inv, TypeInv, TypeOK
    <2>2. \A a \in Actions : Owed(a)' \subseteq Owed(a)
      BY <2>1 DEF Owed
    <2> QED
      BY <1>4, <2>2, FewerOwed
  <1>5. CASE \/ AgentCommit(t) \/ AgentFail(t) \/ FlushRejected(t) \/ FlushExpired(t)
             \/ AnswerConfirmed(t) \/ WriteMode(t)
    BY <1>4, <1>5 DEF AgentCommit, AgentFail, FlushRejected, FlushExpired, AnswerConfirmed,
                      WriteMode, Commit, Rollback, history
  <1>6. ASSUME Fail(t), UNCHANGED <<sent, asked>>
        PROVE  Funded'
    <2>1. CASE kind[t] = "agent"
      <3>1. pc'[t] = "agent" /\ \A u \in Txs \ {t} : /\ pc'[u] = pc[u] /\ act'[u] = act[u]
                                                    /\ kind'[u] = kind[u]
        BY <1>6, <2>1 DEF Fail, Inv, TypeInv, TypeOK
      <3>2. \A a \in Actions : Owed(a)' \subseteq Owed(a)
        BY <3>1 DEF Owed
      <3> QED
        BY <1>6, <3>2, FewerOwed
    <2>2. CASE kind[t] # "agent"
      BY <1>4, <1>6, <2>2 DEF Fail, Rollback
    <2> QED
      BY <2>1, <2>2
  <1>7. CASE Refuse(t) \/ AnswerLost(t)
    BY <1>6, <1>7 DEF Refuse, AnswerLost
  <1>8. ASSUME NEW here \in {"guard", "mode"}, NEW ok \in BOOLEAN,
               NEW next \in {"mode", "telegram"}, Check(t, here, ok, next)
        PROVE  Funded'
    <2>1. CASE ok
      <3>1. /\ UNCHANGED <<sent, asked, act, kind>> /\ pc[t] = here /\ pc'[t] = next
            /\ \A u \in Txs \ {t} : pc'[u] = pc[u]
        BY <1>8, <2>1 DEF Check, Inv, TypeInv, TypeOK
      <3>2. \A a \in Actions : Owed(a)' \subseteq Owed(a)
        BY <3>1 DEF Owed
      <3> QED
        BY <3>1, <3>2, FewerOwed
    <2>2. CASE ~ok
      BY <1>6, <1>8, <2>2 DEF Check
    <2> QED
      BY <2>1, <2>2
  <1>9. CASE GuardAndRate(t) \/ CheckMode(t)
    BY <1>8, <1>9 DEF GuardAndRate, CheckMode, AssertWritable, RateOk
  <1> QED
    BY <1>1, <1>2, <1>3, <1>5, <1>7, <1>9 DEF Progress

(* A step of t that orders nothing and leaves t owing nothing. *)
Elsewhere(t) ==
  /\ UNCHANGED <<sent, asked>>
  /\ \A u \in Txs \ {t} : pc'[u] = pc[u] /\ act'[u] = act[u] /\ kind'[u] = kind[u]

LEMMA NothingOwed ==
  ASSUME Inv, Funded, NEW t \in Txs, Elsewhere(t),
         pc'[t] \in {"agent", "flush", "set_mode", "proposed", "idle"},
         pc'[t] = "flush" => kind'[t] # "confirm"
  PROVE  Funded'
  <1>1. \A a \in Actions : Owed(a)' \subseteq Owed(a)
    BY DEF Elsewhere, Owed
  <1> QED
    BY <1>1, FewerOwed DEF Elsewhere

LEMMA FundedStep ==
  ASSUME Inv, Inv', Funded, [Next]_vars
  PROVE  Funded'
  <1>1. ASSUME NEW t \in Txs, NEW a \in Actions, ConfirmAction(t, a)
        PROVE  Funded'
    <2>1. /\ pc[t] = "idle" /\ pc'[t] = "flush" /\ kind'[t] = "confirm" /\ act'[t] = a
          /\ asked' = [asked EXCEPT ![a] = @ + 1] /\ sent' = sent
          /\ \A u \in Txs \ {t} : /\ pc'[u] = pc[u] /\ act'[u] = act[u]
                                  /\ kind'[u] = kind[u]
      BY <1>1 DEF ConfirmAction, Decide, Inv, TypeInv, TypeOK
    <2>2. /\ t \notin Owed(a) /\ Owed(a)' = Owed(a) \cup {t}
          /\ \A b \in Actions \ {a} : Owed(b)' = Owed(b)
      BY <2>1 DEF Owed
    <2> QED
      BY <2>1, <2>2, OneMoreOwed
  <1>2. ASSUME NEW t \in Txs, BeginAgent(t)
        PROVE  Funded'
    <2>1. Elsewhere(t) /\ pc'[t] = "agent"
      BY <1>2 DEF BeginAgent, Elsewhere, history, Inv, TypeInv, TypeOK
    <2> QED
      BY <2>1, NothingOwed
  <1>3. ASSUME NEW t \in Txs, NEW a \in Actions, ConfirmExpired(t, a) \/ RejectAction(t, a)
        PROVE  Funded'
    <2>1. Elsewhere(t) /\ pc'[t] = "flush" /\ kind'[t] \in {"expire", "reject"}
      BY <1>3 DEF ConfirmExpired, RejectAction, Decide, Elsewhere, Inv, TypeInv, TypeOK
    <2> QED
      BY <2>1, NothingOwed
  <1>4. ASSUME NEW t \in Txs, NEW c \in Chats, NEW m \in Modes, SetChatWriteMode(t, c, m)
        PROVE  Funded'
    <2>1. Elsewhere(t) /\ pc'[t] = "set_mode"
      BY <1>4 DEF SetChatWriteMode, Elsewhere, history, Inv, TypeInv, TypeOK
    <2> QED
      BY <2>1, NothingOwed
  <1>5. ASSUME NEW t \in Txs, CallTool(t)
        PROVE  Funded'
    <2>1. PICK a \in Actions, c \in Chats, forward \in BOOLEAN, argsOk \in BOOLEAN :
            ProposeTool(t, a, c, forward, argsOk)
      BY <1>5 DEF CallTool
    <2>2. Elsewhere(t) /\ pc'[t] \in {"agent", "proposed"}
      BY <2>1 DEF ProposeTool, Elsewhere, history, Inv, TypeInv, TypeOK
    <2> QED
      BY <2>2, NothingOwed
  <1>6. ASSUME NEW t \in Txs, Abandon(t)
        PROVE  Funded'
    <2>1. Elsewhere(t) /\ pc'[t] = "idle"
      BY <1>6 DEF Abandon, Rollback, End, Elsewhere, history, Inv, TypeInv, TypeOK
    <2> QED
      BY <2>1, NothingOwed
  <1>7. ASSUME NEW p \in ProtectedSets, Restart(p)
        PROVE  Funded'
    <2>1. \A a \in Actions : Owed(a)' \subseteq Owed(a)
      BY <1>7 DEF Restart, Owed
    <2> QED
      BY <1>7, <2>1, FewerOwed DEF Restart, history
  <1>8. CASE Tick \/ UNCHANGED vars
    <2>1. UNCHANGED <<sent, asked, pc, act, kind>>
      BY <1>8 DEF Tick, vars, txVars, history
    <2> QED
      BY <2>1, FewerOwed DEF Owed
  <1> QED
    BY <1>1, <1>2, <1>3, <1>4, <1>5, <1>6, <1>7, <1>8, ProgressFunded DEF Next, Request

(* However confirmations and autonomous turns race, crash or lose answers, *)
(* Telegram is never asked for more deliveries of a row than were ordered. *)
THEOREM NoDeliveryOnCredit == Spec => []DeliveriesAreAsked
  <1>1. Init => Funded
    <2> SUFFICES ASSUME Init, NEW a \in Actions
                 PROVE  sent[a] + Cardinality(Owed(a)) <= asked[a]
      BY DEF Funded
    <2>1. Owed(a) = {}
      BY DEF Init, Owed
    <2> QED
      BY <2>1, FS_EmptySet DEF Init
  <1>2. Inv /\ Inv' /\ Funded /\ [Next]_vars => Funded'
    BY FundedStep
  <1>3. Inv /\ Funded => DeliveriesAreAsked
    <2> SUFFICES ASSUME Inv, Funded, NEW a \in Actions
                 PROVE  sent[a] + Cardinality(NotYetSent(a)) <= asked[a]
      BY DEF DeliveriesAreAsked
    <2>1. Owed(a) \in SUBSET Txs /\ NotYetSent(a) \in SUBSET Owed(a)
      BY DEF Owed, NotYetSent
    <2>2. /\ Cardinality(Owed(a)) \in Nat /\ Cardinality(NotYetSent(a)) \in Nat
          /\ Cardinality(NotYetSent(a)) <= Cardinality(Owed(a))
      BY <2>1, OwedCard
    <2>3. /\ sent[a] \in Nat /\ asked[a] \in Nat
          /\ sent[a] + Cardinality(Owed(a)) <= asked[a]
      BY DEF Inv, TypeInv, TypeOK, Funded
    <2> QED
      BY <2>2, <2>3
  <1> QED
    BY <1>1, <1>2, <1>3, Invariance, PTL DEF Spec

-----------------------------------------------------------------------------
(* What the promises to the user and the two limits rest on when handlers   *)
(* run one after the other: what a handler has read is still true when it   *)
(* writes.                                                                 *)
Serial == \A t, u \in Txs : t = u

(* A handler works on rows that are not there yet, or not decided.          *)
Opened ==
  \A t \in Txs, a \in Actions :
    pend[t][a] # None => row[a].status \in {"absent", "proposed"}

LEMMA SaidStep ==
  ASSUME Serial, Inv, Opened, AnswersStand, [Next]_vars
  PROVE  Opened' /\ AnswersStand'
  <1>0. /\ told \in [Actions -> SUBSET Answers]
        /\ \A t \in Txs : pc[t] \in Working => act[t] \in Actions /\ pend[t][act[t]] \in Row
                                               /\ pend[t][act[t]] # None
    BY NoneAssumption DEF Inv, TypeInv, TypeOK, Places
  <1>1. ASSUME NEW t \in Txs, End(t),
               \A a \in Actions :
                 /\ row'[a] = row[a] \/ pend[t][a] # None
                 /\ "executed" \in told'[a] =>
                      "executed" \in told[a] \/ row'[a].status = "executed"
                 /\ "rejected" \in told'[a] =>
                      "rejected" \in told[a] \/ row'[a].status = "rejected"
        PROVE  Opened' /\ AnswersStand'
    <2>1. \A u \in Txs : pend'[u] = NoWrites
      BY <1>1 DEF Serial, End, Inv, TypeInv, TypeOK
    <2>2. Opened'
      BY <2>1 DEF Opened, NoWrites
    <2>3. \A a \in Actions : row[a].status \in {"executed", "rejected"} => row'[a] = row[a]
      BY <1>1 DEF Opened
    <2>4. AnswersStand'
      BY <1>1, <2>3 DEF AnswersStand
    <2> QED
      BY <2>2, <2>4
  <1>2. ASSUME UNCHANGED <<row, told>>,
               \A t \in Txs, a \in Actions :
                 pend'[t][a] # None => pend[t][a] # None \/ row[a].status \in {"absent", "proposed"}
        PROVE  Opened' /\ AnswersStand'
    BY <1>2 DEF Opened, AnswersStand
  <1>3. ASSUME NEW t \in Txs, NEW a \in Actions, NEW r, UNCHANGED <<row, told>>,
               pend' = [pend EXCEPT ![t][a] = r],
               pend[t][a] # None \/ row[a].status \in {"absent", "proposed"}
        PROVE  Opened' /\ AnswersStand'
    <2>1. \A u \in Txs, b \in Actions : pend'[u][b] = pend[u][b] \/ (u = t /\ b = a)
      BY <1>3 DEF Inv, TypeInv, TypeOK
    <2> QED
      BY <1>2, <1>3, <2>1
  <1>4. ASSUME NEW t \in Txs, Rollback(t), UNCHANGED told
        PROVE  Opened' /\ AnswersStand'
    BY <1>1, <1>4 DEF Rollback
  <1>5. ASSUME NEW t \in Txs, Rollback(t), Tell(act[t], "failed") \/ Tell(act[t], "expired")
        PROVE  Opened' /\ AnswersStand'
    <2>1. \A a \in Actions : /\ "executed" \in told'[a] => "executed" \in told[a]
                             /\ "rejected" \in told'[a] => "rejected" \in told[a]
      BY <1>0, <1>5 DEF Tell
    <2> QED
      BY <1>1, <1>5, <2>1 DEF Rollback
  <1>6. ASSUME NEW t \in Txs, pc[t] \in Executing, Fail(t)
        PROVE  Opened' /\ AnswersStand'
    <2>1. CASE kind[t] = "agent"
      <3> DEFINE r == [pend[t][act[t]] EXCEPT !.status = "failed"]
      <3>1. pend' = [pend EXCEPT ![t][act[t]] = r] /\ UNCHANGED <<row, told>>
        BY <1>6, <2>1 DEF Fail, Write
      <3>2. act[t] \in Actions /\ pend[t][act[t]] # None
        BY <1>0, <1>6 DEF Working
      <3> HIDE DEF r
      <3> QED
        BY <1>3, <3>1, <3>2
    <2>2. CASE kind[t] # "agent"
      BY <1>5, <1>6, <2>2 DEF Fail
    <2> QED
      BY <2>1, <2>2
  <1>7. ASSUME NEW t \in Txs, NEW here \in Executing, NEW ok \in BOOLEAN, NEW next,
               Check(t, here, ok, next)
        PROVE  Opened' /\ AnswersStand'
    BY <1>2, <1>6, <1>7 DEF Check
  <1>8. ASSUME NEW t \in Txs, AgentCommit(t)
        PROVE  Opened' /\ AnswersStand'
    <2>1. \A a \in Actions : row'[a] = row[a] \/ pend[t][a] # None
      BY <1>8 DEF AgentCommit, Commit, Seen
    <2> QED
      BY <1>1, <1>8, <2>1 DEF AgentCommit, Commit, history
  <1>9. ASSUME NEW t \in Txs, FlushRejected(t)
        PROVE  Opened' /\ AnswersStand'
    <2>1. \A a \in Actions : row'[a] = row[a] \/ pend[t][a] # None
      BY <1>9 DEF FlushRejected, Commit, Seen
    <2>2. act[t] \in Actions /\ row'[act[t]].status = "rejected"
      BY <1>0, <1>9 DEF FlushRejected, Commit, Seen, Working, Inv, Decisions
    <2>3. \A a \in Actions : /\ "executed" \in told'[a] => "executed" \in told[a]
                             /\ "rejected" \in told'[a] => "rejected" \in told[a] \/ a = act[t]
      BY <1>0, <1>9 DEF FlushRejected, Tell
    <2> QED
      BY <1>1, <1>9, <2>1, <2>2, <2>3 DEF FlushRejected, Commit
  <1>10. ASSUME NEW t \in Txs, AnswerConfirmed(t)
         PROVE  Opened' /\ AnswersStand'
    <2>1. act[t] \in Actions /\ pend[t][act[t]] \in Row /\ pend[t][act[t]] # None
      BY <1>0, <1>10 DEF AnswerConfirmed, Working, Executing
    <2>2. row'[act[t]].status = "executed" /\ \A a \in Actions \ {act[t]} : row'[a] = row[a]
      BY <1>10, <2>1, StatusEdit DEF AnswerConfirmed, Executed, Statuses, Inv, TypeInv, TypeOK
    <2>3. \A a \in Actions : /\ "executed" \in told'[a] => "executed" \in told[a] \/ a = act[t]
                             /\ "rejected" \in told'[a] => "rejected" \in told[a]
      BY <1>0, <1>10 DEF AnswerConfirmed, Tell
    <2> QED
      BY <1>1, <1>10, <2>1, <2>2, <2>3 DEF AnswerConfirmed
  <1>11. ASSUME NEW t \in Txs, ExecuteAutonomous(t) \/ AnswerAutonomous(t)
         PROVE  Opened' /\ AnswersStand'
    BY <1>0, <1>3, <1>11 DEF ExecuteAutonomous, AnswerAutonomous, Write, Working, Executing, rowVars, history
  <1>12. ASSUME NEW t \in Txs, Progress(t)
         PROVE  Opened' /\ AnswersStand'
    <2>1. CASE KeepProposal(t) \/ FlushConfirmed(t) \/ Deliver(t)
      BY <1>2, <2>1 DEF KeepProposal, FlushConfirmed, Deliver, rowVars, history
    <2>2. CASE AgentFail(t) \/ WriteMode(t)
      BY <1>4, <2>2 DEF AgentFail, WriteMode, Rollback, history
    <2>3. CASE FlushExpired(t)
      BY <1>5, <2>3 DEF FlushExpired
    <2>4. CASE GuardAndRate(t) \/ CheckMode(t)
      BY <1>7, <2>4 DEF GuardAndRate, CheckMode, Executing, AssertWritable, RateOk
    <2>5. CASE Refuse(t) \/ AnswerLost(t)
      BY <1>6, <2>5 DEF Refuse, AnswerLost, Executing
    <2> QED
      BY <1>8, <1>9, <1>10, <1>11, <1>12, <2>1, <2>2, <2>3, <2>4, <2>5 DEF Progress
  <1>13. ASSUME NEW t \in Txs, Request(t)
         PROVE  Opened' /\ AnswersStand'
    <2>1. CASE BeginAgent(t) \/ \E c \in Chats, m \in Modes : SetChatWriteMode(t, c, m)
      BY <1>2, <2>1 DEF BeginAgent, SetChatWriteMode, rowVars, history
    <2>2. ASSUME NEW a \in Actions, NEW what, NEW r, Decide(t, a, what, r)
          PROVE  Opened' /\ AnswersStand'
      BY <1>3, <2>2 DEF Decide, Decidable, Write, rowVars
    <2> QED
      BY <1>13, <2>1, <2>2 DEF Request, ConfirmAction, ConfirmExpired, RejectAction
  <1>14. ASSUME NEW t \in Txs, CallTool(t)
         PROVE  Opened' /\ AnswersStand'
    <2>1. PICK a \in Actions, c \in Chats, forward \in BOOLEAN, argsOk \in BOOLEAN :
            ProposeTool(t, a, c, forward, argsOk)
      BY <1>14 DEF CallTool
    <2>2. row[a].status = "absent"
      BY <2>1 DEF ProposeTool, Inv, Fresh
    <2> QED
      BY <1>3, <2>1, <2>2 DEF ProposeTool, Write, history
  <1>15. ASSUME NEW p \in ProtectedSets, Restart(p)
         PROVE  Opened' /\ AnswersStand'
    <2>1. \A t \in Txs, a \in Actions : pend'[t][a] = None
      BY <1>15 DEF Restart, NoWrites
    <2> QED
      BY <1>2, <1>15, <2>1 DEF Restart, history
  <1>16. CASE Tick \/ UNCHANGED vars
    BY <1>2, <1>16 DEF Tick, vars, rowVars, txVars, history
  <1> QED
    BY <1>4, <1>12, <1>13, <1>14, <1>15, <1>16 DEF Next, Abandon, history

(* At most one chat of an account is autonomous, and what a request has     *)
(* found about the others still holds when it writes.                      *)
Modest ==
  /\ OneAutonomousChat
  /\ \A t \in Txs : (pc[t] = "set_mode" /\ goal[t].want = "autonomous") =>
       \A d \in Chats \ {goal[t].chat} :
         AccountOf[d] = AccountOf[goal[t].chat] => mode[d] # "autonomous"

LEMMA ModestStep ==
  ASSUME Serial, Inv, Modest, [Next]_vars
  PROVE  Modest'
  <1>0. /\ mode \in [Chats -> Modes]
        /\ \A t \in Txs : pc[t] = "set_mode" => goal[t] \in Goal
    BY DEF Inv, TypeInv, TypeOK, Places
  <1>1. ASSUME UNCHANGED mode,
               \A t \in Txs : pc'[t] = "set_mode" => pc[t] = "set_mode" /\ goal'[t] = goal[t]
        PROVE  Modest'
    BY <1>1 DEF Modest, OneAutonomousChat
  <1>2. ASSUME NEW t \in Txs, End(t)
        PROVE  \A u \in Txs : pc'[u] # "set_mode"
    BY <1>2 DEF Serial, End, Inv, TypeInv, TypeOK
  <1>3. ASSUME NEW t \in Txs, NEW next, next # "set_mode", pc' = [pc EXCEPT ![t] = next],
               UNCHANGED mode
        PROVE  Modest'
    <2>1. \A u \in Txs : pc'[u] # "set_mode"
      BY <1>3 DEF Serial, Inv, TypeInv, TypeOK
    <2> QED
      BY <1>1, <1>3, <2>1
  <1>4. ASSUME NEW t \in Txs, Fail(t), UNCHANGED mode
        PROVE  Modest'
    <2>1. CASE kind[t] = "agent"
      BY <1>3, <1>4, <2>1 DEF Fail
    <2>2. CASE kind[t] # "agent"
      BY <1>1, <1>2, <1>4, <2>2 DEF Fail, Rollback
    <2> QED
      BY <2>1, <2>2
  <1>5. ASSUME NEW t \in Txs, WriteMode(t)
        PROVE  Modest'
    <2>1. /\ pc[t] = "set_mode" /\ goal[t] \in Goal
          /\ mode' = mode \/ mode' = [mode EXCEPT ![goal[t].chat] = goal[t].want]
      BY <1>0, <1>5 DEF WriteMode
    <2>2. \A u \in Txs : pc'[u] # "set_mode"
      BY <1>2, <1>5 DEF WriteMode
    <2>3. CASE mode' = mode
      BY <1>1, <2>2, <2>3
    <2>4. CASE mode' = [mode EXCEPT ![goal[t].chat] = goal[t].want]
      <3>1. \A d \in Chats : mode'[d] = IF d = goal[t].chat THEN goal[t].want ELSE mode[d]
        BY <1>0, <2>4
      <3>2. OneAutonomousChat'
        BY <2>1, <3>1 DEF Modest, OneAutonomousChat
      <3> QED
        BY <2>2, <3>2 DEF Modest
    <2> QED
      BY <2>1, <2>3, <2>4
  <1>6. ASSUME NEW t \in Txs, NEW c \in Chats, NEW m \in Modes, SetChatWriteMode(t, c, m)
        PROVE  Modest'
    <2>1. mode' = mode /\ goal'[t].chat = c /\ goal'[t].want = m
          /\ (m = "autonomous" => \A d \in Chats \ {c} : AccountOf[d] = AccountOf[c] => mode[d] # "autonomous")
      BY <1>6 DEF SetChatWriteMode, MayBeAutonomous, Inv, TypeInv, TypeOK
    <2> QED
      BY <2>1 DEF Serial, Modest, OneAutonomousChat
  <1>7. ASSUME NEW t \in Txs, Progress(t)
        PROVE  Modest'
    <2>1. CASE KeepProposal(t) \/ ExecuteAutonomous(t) \/ FlushConfirmed(t) \/ Deliver(t)
               \/ AnswerAutonomous(t)
      BY <1>3, <2>1 DEF KeepProposal, ExecuteAutonomous, FlushConfirmed, Deliver, AnswerAutonomous
    <2>2. CASE AgentCommit(t) \/ AgentFail(t) \/ FlushRejected(t) \/ FlushExpired(t) \/ AnswerConfirmed(t)
      BY <1>1, <1>2, <2>2
      DEF AgentCommit, AgentFail, FlushRejected, FlushExpired, AnswerConfirmed, Commit, Rollback
    <2>3. CASE GuardAndRate(t) \/ CheckMode(t)
      BY <1>3, <1>4, <2>3 DEF GuardAndRate, CheckMode, Check
    <2>4. CASE Refuse(t) \/ AnswerLost(t)
      BY <1>4, <2>4 DEF Refuse, AnswerLost
    <2> QED
      BY <1>5, <1>7, <2>1, <2>2, <2>3, <2>4 DEF Progress
  <1>8. ASSUME NEW t \in Txs, Request(t) \/ CallTool(t)
        PROVE  Modest'
    <2>1. CASE BeginAgent(t)
      BY <1>3, <2>1 DEF BeginAgent
    <2>2. ASSUME NEW a, NEW what, NEW r, Decide(t, a, what, r)
          PROVE  Modest'
      BY <1>3, <2>2 DEF Decide
    <2>3. CASE CallTool(t)
      <3>1. PICK a, c, forward, argsOk : ProposeTool(t, a, c, forward, argsOk)
        BY <2>3 DEF CallTool
      <3>2. CASE pc' = pc
        BY <1>1, <3>1, <3>2 DEF ProposeTool
      <3>3. CASE pc' = [pc EXCEPT ![t] = "proposed"]
        BY <1>3, <3>1, <3>3 DEF ProposeTool
      <3> QED
        BY <3>1, <3>2, <3>3 DEF ProposeTool
    <2> QED
      BY <1>6, <1>8, <2>1, <2>2, <2>3 DEF Request, ConfirmAction, ConfirmExpired, RejectAction
  <1>9. ASSUME NEW t \in Txs, Abandon(t)
        PROVE  Modest'
    BY <1>1, <1>2, <1>9 DEF Abandon, Rollback
  <1>10. ASSUME NEW p \in ProtectedSets, Restart(p)
         PROVE  Modest'
    <2>1. \A u \in Txs : pc'[u] # "set_mode"
      BY <1>10 DEF Restart
    <2> QED
      BY <1>1, <1>10, <2>1 DEF Restart
  <1>11. CASE Tick \/ UNCHANGED vars
    BY <1>1, <1>11 DEF Tick, vars, txVars
  <1> QED
    BY <1>7, <1>8, <1>9, <1>10, <1>11 DEF Next

-----------------------------------------------------------------------------
(* The rows that count for an account at hour n, in a table f.              *)
Recent(f, c, n) ==
  {a \in Actions : /\ f[a].status = "executed" /\ f[a].confirmed >= n - 1
                   /\ AccountOf[f[a].chat] = AccountOf[c]}

View(t) == [a \in Actions |-> Seen(t, a)]

Rates ==
  /\ IsFiniteSet(used)
  /\ \A c \in Chats : Cardinality(Recent(row, c, now)) <= RatePerHour
  /\ \A t \in Txs, c \in Chats : Cardinality(Recent(View(t), c, now)) <= RatePerHour
  /\ \A t \in Txs : pc[t] \in {"mode", "telegram", "delivered"} =>
       Cardinality(Recent(View(t), Target(t), now)) < RatePerHour

LEMMA ViewTypes ==
  ASSUME Inv
  PROVE  /\ row \in [Actions -> Row] /\ \A t \in Txs : View(t) \in [Actions -> Row]
         /\ now \in Nat /\ RatePerHour \in Nat
         /\ \A r \in Row : r.confirmed \in Nat
         /\ \A t \in Txs : pc[t] \in Working => /\ act[t] \in Actions /\ pend[t][act[t]] \in Row
                                                /\ pend[t][act[t]] # None
                                                /\ View(t)[act[t]] = pend[t][act[t]]
  BY SeenTypes, ConstantsAssumption, NoneAssumption
  DEF Inv, TypeInv, TypeOK, Places, View, Times, Row, Seen

(* Only ids that were handed out have rows, so that few enough count.        *)
LEMMA RecentIsFinite ==
  ASSUME Inv, IsFiniteSet(used), NEW c, NEW n
  PROVE  /\ IsFiniteSet(Recent(row, c, n)) /\ Cardinality(Recent(row, c, n)) \in Nat
         /\ \A t \in Txs : /\ IsFiniteSet(Recent(View(t), c, n))
                           /\ Cardinality(Recent(View(t), c, n)) \in Nat
  <1>1. Recent(row, c, n) \subseteq used
    BY DEF Recent, Inv, Fresh
  <1>2. ASSUME NEW t \in Txs
        PROVE  Recent(View(t), c, n) \subseteq used
    <2> SUFFICES ASSUME NEW a \in Actions, View(t)[a].status = "executed"
                 PROVE  a \in used
      BY DEF Recent
    <2>1. CASE pend[t][a] = None
      BY <2>1 DEF View, Seen, Inv, Fresh
    <2>2. CASE pend[t][a] # None
      <3>1. kind[t] \in {"agent", "confirm", "expire", "reject"}
        BY <2>2 DEF Inv, TypeInv, TypeOK, Places, NoWrites
      <3> QED
        BY <2>2, <3>1 DEF Inv, Private, Decisions, Fresh
    <2> QED
      BY <2>1, <2>2
  <1> QED
    BY <1>1, <1>2, FS_Subset, FS_CardinalityType

LEMMA NoMoreRecent ==
  ASSUME NEW f, NEW g, NEW c, NEW n \in Nat, NEW m \in Nat, n <= m,
         f \in [Actions -> Row], \A r \in Row : r.confirmed \in Nat,
         IsFiniteSet(Recent(f, c, n)),
         \A a \in Actions : g[a] = f[a] \/ g[a].status # "executed"
  PROVE  /\ IsFiniteSet(Recent(g, c, m)) /\ Cardinality(Recent(g, c, m)) \in Nat
         /\ Cardinality(Recent(f, c, n)) \in Nat
         /\ Cardinality(Recent(g, c, m)) <= Cardinality(Recent(f, c, n))
  <1>1. \A a \in Actions : f[a].confirmed \in Nat
    OBVIOUS
  <1>2. \A a \in Actions : f[a].confirmed >= m - 1 => f[a].confirmed >= n - 1
    BY <1>1
  <1>3. Recent(g, c, m) \subseteq Recent(f, c, n)
    BY <1>2 DEF Recent
  <1> QED
    BY <1>3, FS_Subset, FS_CardinalityType

LEMMA OneMoreRecent ==
  ASSUME NEW f, NEW g, NEW c, NEW n, NEW x, IsFiniteSet(Recent(f, c, n)),
         \A a \in Actions \ {x} : g[a] = f[a]
  PROVE  /\ Cardinality(Recent(g, c, n)) \in Nat /\ Cardinality(Recent(f, c, n)) \in Nat
         /\ Cardinality(Recent(g, c, n)) <= Cardinality(Recent(f, c, n)) + 1
         /\ AccountOf[g[x].chat] # AccountOf[c] =>
              Cardinality(Recent(g, c, n)) <= Cardinality(Recent(f, c, n))
  <1> DEFINE F == Recent(f, c, n)
             G == Recent(g, c, n)
  <1>1. G \subseteq F \cup {x}
    BY DEF Recent
  <1>2. AccountOf[g[x].chat] # AccountOf[c] => G \subseteq F
    BY DEF Recent
  <1> HIDE DEF F, G
  <1>3. IsFiniteSet(F)
    BY DEF F
  <1>4. /\ IsFiniteSet(F \cup {x}) /\ Cardinality(F) \in Nat
        /\ Cardinality(F \cup {x}) \in Nat /\ Cardinality(F \cup {x}) <= Cardinality(F) + 1
    <2>1. /\ IsFiniteSet(F \cup {x})
          /\ Cardinality(F \cup {x}) = IF x \in F THEN Cardinality(F) ELSE Cardinality(F) + 1
      BY <1>3, FS_AddElement
    <2>2. Cardinality(F) \in Nat
      BY <1>3, FS_CardinalityType
    <2> QED
      BY <2>1, <2>2
  <1>5. IsFiniteSet(G) /\ Cardinality(G) <= Cardinality(F \cup {x})
    BY <1>1, <1>4, FS_Subset
  <1>6. Cardinality(G) \in Nat
    BY <1>5, FS_CardinalityType
  <1>7. AccountOf[g[x].chat] # AccountOf[c] => Cardinality(G) <= Cardinality(F)
    BY <1>2, <1>3, FS_Subset
  <1> QED
    BY <1>4, <1>5, <1>6, <1>7 DEF F, G

LEMMA RatesStep ==
  ASSUME Serial, Inv, Inv', Rates, [Next]_vars
  PROVE  Rates'
  <1>0. /\ row \in [Actions -> Row] /\ row' \in [Actions -> Row]
        /\ \A t \in Txs : View(t) \in [Actions -> Row]
        /\ now \in Nat /\ now' \in Nat /\ RatePerHour \in Nat
        /\ \A r \in Row : r.confirmed \in Nat
        /\ \A t \in Txs : pc[t] \in Working => /\ act[t] \in Actions /\ pend[t][act[t]] \in Row
                                               /\ pend[t][act[t]] # None
                                               /\ View(t)[act[t]] = pend[t][act[t]]
    BY ViewTypes DEF Inv, TypeInv, TypeOK, Times
  <1>f. IsFiniteSet(used) /\ \A c \in Chats, t \in Txs :
          /\ IsFiniteSet(Recent(row, c, now)) /\ Cardinality(Recent(row, c, now)) \in Nat
          /\ IsFiniteSet(Recent(View(t), c, now)) /\ Cardinality(Recent(View(t), c, now)) \in Nat
          /\ IsFiniteSet(Recent(View(t), Target(t), now))
          /\ Cardinality(Recent(View(t), Target(t), now)) \in Nat
    BY RecentIsFinite DEF Rates
  (* Nothing is written, and time may pass. *)
  <1>1. ASSUME UNCHANGED <<row, pend, used>>, now <= now',
               \A t \in Txs : pc'[t] \in {"mode", "telegram", "delivered"} =>
                 /\ act'[t] = act[t]
                 /\ Cardinality(Recent(View(t), Target(t), now)) < RatePerHour
        PROVE  Rates'
    <2>1. \A t \in Txs : View(t)' = View(t)
      BY <1>1 DEF View, Seen
    <2>2. \A c \in Chats : Cardinality(Recent(row, c, now')) <= RatePerHour
      <3> SUFFICES ASSUME NEW c \in Chats
                   PROVE  Cardinality(Recent(row, c, now')) <= RatePerHour
        OBVIOUS
      <3>1. /\ Cardinality(Recent(row, c, now')) <= Cardinality(Recent(row, c, now))
            /\ Cardinality(Recent(row, c, now')) \in Nat
        BY <1>0, <1>1, <1>f, NoMoreRecent, RecentIsFinite DEF Rates
      <3>2. Cardinality(Recent(row, c, now)) <= RatePerHour /\ Cardinality(Recent(row, c, now)) \in Nat
        BY RecentIsFinite DEF Rates
      <3> QED
        BY <1>0, <3>1, <3>2
    <2>3. \A t \in Txs, c \in Chats : Cardinality(Recent(View(t), c, now')) <= RatePerHour
      <3> SUFFICES ASSUME NEW t \in Txs, NEW c \in Chats
                   PROVE  Cardinality(Recent(View(t), c, now')) <= RatePerHour
        OBVIOUS
      <3>1. /\ Cardinality(Recent(View(t), c, now')) <= Cardinality(Recent(View(t), c, now))
            /\ Cardinality(Recent(View(t), c, now')) \in Nat
        BY <1>0, <1>1, <1>f, NoMoreRecent
      <3>2. Cardinality(Recent(View(t), c, now)) <= RatePerHour
        BY DEF Rates
      <3> QED
        BY <1>0, <1>f, <3>1, <3>2
    <2>4. ASSUME NEW t \in Txs, pc'[t] \in {"mode", "telegram", "delivered"}
          PROVE  Cardinality(Recent(View(t), Target(t)', now')) < RatePerHour
      <3>1. Target(t)' = Target(t)
        BY <1>1, <2>4 DEF Target
      <3>2. ASSUME NEW c
            PROVE  /\ Cardinality(Recent(View(t), c, now')) <= Cardinality(Recent(View(t), c, now))
                   /\ Cardinality(Recent(View(t), c, now')) \in Nat
                   /\ Cardinality(Recent(View(t), c, now)) \in Nat
        <4>1. IsFiniteSet(Recent(View(t), c, now)) /\ View(t) \in [Actions -> Row]
          BY <1>0, <1>f, RecentIsFinite
        <4> QED
          BY <1>0, <1>1, <4>1, NoMoreRecent
      <3>3. Cardinality(Recent(View(t), Target(t), now)) < RatePerHour
        BY <1>1, <2>4
      <3>4. \A c, k, l, m \in Nat : k <= l /\ l < m => k < m
        OBVIOUS
      <3>5. Cardinality(Recent(View(t), Target(t), now')) < RatePerHour
        BY <1>0, <3>2, <3>3, <3>4
      <3> QED
        BY <3>1, <3>5
    <2>5. IsFiniteSet(used')
      BY <1>1, <1>f
    <2> QED
      BY <1>1, <2>1, <2>2, <2>3, <2>4, <2>5 DEF Rates, Recent
  (* A handler ends, and the table is what it has seen, or what it was. *)
  <1>2. ASSUME NEW t \in Txs, End(t), UNCHANGED <<used, now>>,
               \A c \in Chats : Cardinality(Recent(row', c, now)) <= RatePerHour
        PROVE  Rates'
    <2>1. \A u \in Txs : pend'[u] = NoWrites /\ pc'[u] = "idle"
      BY <1>2 DEF Serial, End, Inv, TypeInv, TypeOK
    <2>2. \A u \in Txs : View(u)' = row'
      BY <1>0, <2>1 DEF View, Seen, NoWrites
    <2> QED
      BY <1>2, <1>f, <2>1, <2>2 DEF Rates, Recent
  (* A handler writes one row. *)
  <1>3. ASSUME NEW t \in Txs, NEW a \in Actions, NEW r,
               pend' = [pend EXCEPT ![t][a] = r], r # None,
               UNCHANGED <<row, now>>, IsFiniteSet(used'),
               pc'[t] \notin {"mode", "telegram", "delivered"},
               \/ r.status # "executed"
               \/ /\ AccountOf[r.chat] = AccountOf[Target(t)]
                  /\ Cardinality(Recent(View(t), Target(t), now)) < RatePerHour
        PROVE  Rates'
    <2>1. \A u \in Txs : u = t
      BY DEF Serial
    <2> DEFINE g == [b \in Actions |-> IF b = a THEN r ELSE View(t)[b]]
    <2>2. View(t)' = g
      BY <1>3 DEF View, Seen, Inv, TypeInv, TypeOK
    <2>3. g[a] = r /\ \A b \in Actions \ {a} : g[b] = View(t)[b]
      OBVIOUS
    <2> HIDE DEF g
    <2>4. ASSUME NEW c \in Chats
          PROVE  Cardinality(Recent(g, c, now)) <= RatePerHour
      <3>0. Cardinality(Recent(View(t), c, now)) <= RatePerHour
        BY DEF Rates
      <3>1. CASE r.status # "executed"
        <4>1. \A b \in Actions : g[b] = View(t)[b] \/ g[b].status # "executed"
          BY <2>3, <3>1
        <4>2. /\ Cardinality(Recent(g, c, now)) <= Cardinality(Recent(View(t), c, now))
              /\ Cardinality(Recent(g, c, now)) \in Nat
          BY <1>0, <1>f, <4>1, NoMoreRecent
        <4> QED
          BY <1>0, <1>f, <3>0, <4>2
      <3>2. CASE r.status = "executed" /\ AccountOf[r.chat] = AccountOf[c]
        <4>1. Recent(View(t), c, now) = Recent(View(t), Target(t), now)
          BY <1>3, <3>2 DEF Recent
        <4>2. /\ Cardinality(Recent(g, c, now)) <= Cardinality(Recent(View(t), c, now)) + 1
              /\ Cardinality(Recent(g, c, now)) \in Nat
          BY <1>f, <2>3, OneMoreRecent
        <4> QED
          BY <1>0, <1>3, <1>f, <3>2, <4>1, <4>2
      <3>3. CASE AccountOf[r.chat] # AccountOf[c]
        <4>1. /\ Cardinality(Recent(g, c, now)) <= Cardinality(Recent(View(t), c, now))
              /\ Cardinality(Recent(g, c, now)) \in Nat
          BY <1>f, <2>3, <3>3, OneMoreRecent
        <4> QED
          BY <1>0, <1>f, <3>0, <4>1
      <3> QED
        BY <3>1, <3>2, <3>3
    <2>5. \A c \in Chats : Cardinality(Recent(row, c, now)) <= RatePerHour
      BY DEF Rates
    <2> QED
      BY <1>3, <2>1, <2>2, <2>4, <2>5 DEF Rates, Recent
  <1>4. \A t \in Txs : Rollback(t) /\ UNCHANGED <<used, now>> => Rates'
    BY <1>2 DEF Rollback, Rates
  <1>5. ASSUME NEW t \in Txs, Commit(t), UNCHANGED <<used, now>>
        PROVE  Rates'
    <2>1. row' = View(t)
      BY <1>5 DEF Commit, View
    <2> QED
      BY <1>2, <1>5, <2>1 DEF Commit, Rates
  <1>6. ASSUME NEW t \in Txs, pc[t] \in Executing, Fail(t), UNCHANGED <<used, now>>
        PROVE  Rates'
    <2>1. CASE kind[t] = "agent"
      <3> DEFINE r == [pend[t][act[t]] EXCEPT !.status = "failed"]
      <3>1. act[t] \in Actions /\ pend[t][act[t]] \in Row
        BY <1>0, <1>6 DEF Working
      <3>2. r \in Row /\ r.status = "failed" /\ r # None
        BY <3>1, StatusEdit, NoneAssumption DEF Statuses
      <3>3. pend' = [pend EXCEPT ![t][act[t]] = r] /\ UNCHANGED row /\ pc'[t] = "agent"
        BY <1>6, <2>1 DEF Fail, Write, Inv, TypeInv, TypeOK
      <3> HIDE DEF r
      <3> QED
        BY <1>3, <1>6, <1>f, <3>1, <3>2, <3>3
    <2>2. CASE kind[t] # "agent"
      BY <1>4, <1>6, <2>2 DEF Fail
    <2> QED
      BY <2>1, <2>2
  (* A handler only moves on. *)
  <1>7. ASSUME NEW t \in Txs, NEW next, pc' = [pc EXCEPT ![t] = next], UNCHANGED <<row, pend, used, now>>,
               next \in {"mode", "telegram", "delivered"} =>
                 /\ act' = act
                 /\ Cardinality(Recent(View(t), Target(t), now)) < RatePerHour
        PROVE  Rates'
    <2>1. \A u \in Txs : u = t /\ pc'[u] = next
      BY <1>7 DEF Serial, Inv, TypeInv, TypeOK
    <2>2. now <= now'
      BY <1>0, <1>7
    <2> QED
      BY <1>1, <1>7, <2>1, <2>2
  <1>8. ASSUME NEW t \in Txs, GuardAndRate(t) \/ CheckMode(t)
        PROVE  Rates'
    <2>1. pc[t] \in Executing /\ UNCHANGED <<used, now>>
      BY <1>8 DEF GuardAndRate, CheckMode, Check, Executing
    <2>2. CASE Fail(t)
      BY <1>6, <2>1, <2>2
    <2>3. CASE ~Fail(t) /\ GuardAndRate(t)
      <3>1. Cardinality(Recent(View(t), Target(t), now)) < RatePerHour
        <4>1. RateOk(t)
          BY <2>3 DEF GuardAndRate, Check
        <4>2. Counted(t) = Recent(View(t), Target(t), now)
          BY DEF Counted, Recent, View, InLastHour
        <4> QED
          BY <4>1, <4>2 DEF RateOk
      <3>2. pc' = [pc EXCEPT ![t] = "mode"] /\ UNCHANGED <<row, pend, used, now, act>>
        BY <2>3 DEF GuardAndRate, Check
      <3> QED
        BY <1>7, <3>1, <3>2
    <2>4. CASE ~Fail(t) /\ CheckMode(t)
      <3>1. Cardinality(Recent(View(t), Target(t), now)) < RatePerHour
        BY <2>4 DEF CheckMode, Check, Rates
      <3>2. pc' = [pc EXCEPT ![t] = "telegram"] /\ UNCHANGED <<row, pend, used, now, act>>
        BY <2>4 DEF CheckMode, Check
      <3> QED
        BY <1>7, <3>1, <3>2
    <2> QED
      BY <1>8, <2>2, <2>3, <2>4
  <1>9. ASSUME NEW t \in Txs, AnswerConfirmed(t)
        PROVE  Rates'
    <2> DEFINE a == act[t]
    <2>1. /\ a \in Actions /\ pend[t][a] \in Row /\ kind[t] = "confirm"
          /\ Cardinality(Recent(View(t), Target(t), now)) < RatePerHour
      BY <1>0, <1>9 DEF AnswerConfirmed, Working, Executing, Rates
    <2>2. row' = [row EXCEPT ![a] = Executed(t)] /\ Executed(t).chat = Target(t)
      BY <1>9, <2>1, StatusEdit DEF AnswerConfirmed, Executed, Target, Statuses, Kept!SameCall
    <2>3. \A b \in Actions \ {a} : row'[b] = View(t)[b]
      <3>1. \A b \in Actions \ {a} : pend[t][b] = None
        BY <2>1 DEF Inv, Decisions
      <3> QED
        BY <1>0, <2>2, <3>1 DEF View, Seen
    <2>4. row'[a].chat = Target(t)
      BY <1>0, <2>1, <2>2
    <2>5. ASSUME NEW c \in Chats
          PROVE  Cardinality(Recent(row', c, now)) <= RatePerHour
      <3>1. /\ Cardinality(Recent(row', c, now)) \in Nat
            /\ Cardinality(Recent(row', c, now)) <= Cardinality(Recent(View(t), c, now)) + 1
            /\ AccountOf[row'[a].chat] # AccountOf[c] =>
                 Cardinality(Recent(row', c, now)) <= Cardinality(Recent(View(t), c, now))
        BY <1>f, <2>3, OneMoreRecent
      <3>2. CASE AccountOf[Target(t)] = AccountOf[c]
        <4>1. Recent(View(t), c, now) = Recent(View(t), Target(t), now)
          BY <3>2 DEF Recent
        <4> QED
          BY <1>0, <1>f, <2>1, <3>1, <4>1
      <3>3. CASE AccountOf[Target(t)] # AccountOf[c]
        <4>1. Cardinality(Recent(View(t), c, now)) <= RatePerHour
          BY DEF Rates
        <4> QED
          BY <1>0, <1>f, <2>4, <3>1, <3>3, <4>1
      <3> QED
        BY <3>2, <3>3
    <2> QED
      BY <1>2, <1>9, <2>5 DEF AnswerConfirmed
  <1>10. ASSUME NEW t \in Txs, AnswerAutonomous(t)
         PROVE  Rates'
    <2> DEFINE a == act[t]
               r == Executed(t)
    <2>1. /\ a \in Actions /\ pend[t][a] \in Row
          /\ Cardinality(Recent(View(t), Target(t), now)) < RatePerHour
      BY <1>0, <1>10 DEF AnswerAutonomous, Working, Executing, Rates
    <2>2. r \in Row /\ r # None /\ r.chat = Target(t)
      BY <2>1, StatusEdit, NoneAssumption DEF Executed, Target, Statuses, Kept!SameCall
    <2>3. pend' = [pend EXCEPT ![t][a] = r] /\ UNCHANGED <<row, now, used>> /\ pc'[t] = "agent"
      BY <1>10 DEF AnswerAutonomous, Write, rowVars, Inv, TypeInv, TypeOK
    <2> HIDE DEF r
    <2> QED
      BY <1>3, <1>f, <2>1, <2>2, <2>3
  <1>11. ASSUME NEW t \in Txs, ExecuteAutonomous(t)
         PROVE  Rates'
    <2> DEFINE a == act[t]
               r == [pend[t][a] EXCEPT !.status = "confirmed", !.confirmed = now]
    <2>1. a \in Actions /\ pend[t][a] \in Row /\ now \in Times
      BY <1>0, <1>11 DEF ExecuteAutonomous, Working, Inv, TypeInv, TypeOK
    <2>2. "confirmed" \in Statuses
      BY DEF Statuses
    <2>4. \A q \in Row, h \in Times :
            LET e == [q EXCEPT !.status = "confirmed", !.confirmed = h]
            IN  e \in Row /\ e.status = "confirmed"
      BY <2>2, DecisionEdit, Zenon
    <2>5. r \in Row /\ r.status = "confirmed"
      BY <2>1, <2>4, Zenon
    <2>6. r # None
      BY <2>5, NoneAssumption
    <2>3. pend' = [pend EXCEPT ![t][a] = r] /\ UNCHANGED <<row, now, used>> /\ pc'[t] = "guard"
      BY <1>11 DEF ExecuteAutonomous, Write, rowVars, Inv, TypeInv, TypeOK
    <2> HIDE DEF r
    <2> QED
      BY <1>3, <1>f, <2>1, <2>3, <2>5, <2>6
  <1>12. ASSUME NEW t \in Txs, Progress(t)
         PROVE  Rates'
    <2>1. CASE KeepProposal(t) \/ FlushConfirmed(t)
      BY <1>7, <2>1 DEF KeepProposal, FlushConfirmed, rowVars
    <2>2. CASE Deliver(t)
      BY <1>7, <2>2 DEF Deliver, rowVars, Rates
    <2>3. CASE AgentFail(t) \/ FlushExpired(t) \/ WriteMode(t)
      BY <1>4, <2>3 DEF AgentFail, FlushExpired, WriteMode, Rollback
    <2>4. CASE AgentCommit(t) \/ FlushRejected(t)
      BY <1>5, <2>4 DEF AgentCommit, FlushRejected
    <2>5. CASE Refuse(t) \/ AnswerLost(t)
      BY <1>6, <2>5 DEF Refuse, AnswerLost, Executing
    <2> QED
      BY <1>8, <1>9, <1>10, <1>11, <1>12, <2>1, <2>2, <2>3, <2>4, <2>5 DEF Progress
  <1>13. ASSUME NEW t \in Txs, Request(t)
         PROVE  Rates'
    <2>1. CASE BeginAgent(t) \/ \E c \in Chats, m \in Modes : SetChatWriteMode(t, c, m)
      BY <1>7, <2>1 DEF BeginAgent, SetChatWriteMode, rowVars
    <2>2. ASSUME NEW a \in Actions, NEW what, NEW r \in Row, r.status # "executed", Decide(t, a, what, r)
          PROVE  Rates'
      <3>1. /\ pend' = [pend EXCEPT ![t][a] = r] /\ UNCHANGED <<row, now, used>> /\ pc'[t] = "flush"
            /\ r # None
        BY <2>2, NoneAssumption DEF Decide, Write, rowVars, Inv, TypeInv, TypeOK
      <3> QED
        BY <1>3, <1>f, <2>2, <3>1
    <2>3. \A a \in Actions : /\ ConfirmedRow(a) \in Row /\ ConfirmedRow(a).status = "confirmed"
                             /\ ExpiredRow(a) \in Row /\ ExpiredRow(a).status = "rejected"
                             /\ RejectedRow(a) \in Row /\ RejectedRow(a).status = "rejected"
      <3> SUFFICES ASSUME NEW a \in Actions
                   PROVE  /\ ConfirmedRow(a) \in Row /\ ConfirmedRow(a).status = "confirmed"
                          /\ ExpiredRow(a) \in Row /\ ExpiredRow(a).status = "rejected"
                          /\ RejectedRow(a) \in Row /\ RejectedRow(a).status = "rejected"
        OBVIOUS
      <3>1. row[a] \in Row /\ now \in Times
        BY <1>0 DEF Inv, TypeInv, TypeOK
      <3>2. "confirmed" \in Statuses /\ "rejected" \in Statuses
        BY DEF Statuses
      <3>3. ConfirmedRow(a) \in Row /\ ConfirmedRow(a).status = "confirmed"
        BY <3>1, <3>2, DecisionEdit DEF ConfirmedRow
      <3>4. ExpiredRow(a) \in Row /\ ExpiredRow(a).status = "rejected"
        BY <3>1, <3>2, StatusEdit, DecisionEdit DEF ExpiredRow
      <3>5. RejectedRow(a) \in Row /\ RejectedRow(a).status = "rejected"
        BY <3>1, <3>2, StatusEdit, DecisionEdit DEF RejectedRow
      <3> QED
        BY <3>3, <3>4, <3>5
    <2>4. ASSUME NEW a \in Actions, ConfirmAction(t, a) \/ ConfirmExpired(t, a) \/ RejectAction(t, a)
          PROVE  Rates'
      BY <2>2, <2>3, <2>4 DEF ConfirmAction, ConfirmExpired, RejectAction
    <2> QED
      BY <1>13, <2>1, <2>4 DEF Request
  <1>14. ASSUME NEW t \in Txs, CallTool(t)
         PROVE  Rates'
    <2>1. PICK a \in Actions, c \in Chats, forward \in BOOLEAN, argsOk \in BOOLEAN :
            ProposeTool(t, a, c, forward, argsOk)
      BY <1>14 DEF CallTool
    <2> DEFINE r == [status |-> BuildProposal(c, forward, argsOk), chat |-> c, created |-> began[t],
                     confirmed |-> 0]
    <2>2. r.status # "executed" /\ r \in Row
      BY <2>1, ConstantsAssumption
      DEF BuildProposal, Row, Statuses, Times, Inv, TypeInv, TypeOK
    <2>3. /\ pend' = [pend EXCEPT ![t][a] = r] /\ UNCHANGED <<row, now>>
          /\ used' = used \cup {a} /\ pc'[t] \in {"agent", "proposed"}
      BY <2>1 DEF ProposeTool, Write, Inv, TypeInv, TypeOK
    <2>4. IsFiniteSet(used')
      BY <1>f, <2>3, FS_AddElement
    <2> HIDE DEF r
    <2> QED
      BY <1>3, <2>2, <2>3, <2>4, NoneAssumption
  <1>15. ASSUME NEW p \in ProtectedSets, Restart(p)
         PROVE  Rates'
    <2>1. /\ \A t \in Txs : pend'[t] = NoWrites /\ pc'[t] = "idle"
          /\ UNCHANGED <<row, used, now>>
      BY <1>15 DEF Restart
    <2>2. \A u \in Txs : View(u)' = row
      BY <1>0, <2>1 DEF View, Seen, NoWrites
    <2> QED
      BY <1>f, <2>1, <2>2 DEF Rates, Recent
  <1>16. CASE Tick \/ UNCHANGED vars
    <2>1. UNCHANGED <<row, pend, used, pc, act>> /\ now <= now'
      BY <1>0, <1>16 DEF Tick, vars, rowVars, txVars
    <2> QED
      BY <1>1, <2>1 DEF Rates
  <1> QED
    BY <1>4, <1>12, <1>13, <1>14, <1>15, <1>16 DEF Next, Abandon

LEMMA SerialStart ==
  ASSUME Serial, Init
  PROVE  Opened /\ AnswersStand /\ Modest /\ Rates
  <1>1. /\ \A t \in Txs : pend[t] = NoWrites /\ pc[t] = "idle"
        /\ \A a \in Actions : told[a] = {} /\ row[a].status = "absent"
        /\ \A c \in Chats : mode[c] # "autonomous"
        /\ used = {} /\ IsFiniteSet(used) /\ RatePerHour \in Nat
    BY FS_EmptySet, ConstantsAssumption DEF Init, Absent
  <1>2. Opened /\ AnswersStand
    BY <1>1 DEF Opened, AnswersStand, NoWrites
  <1>3. Modest
    BY <1>1 DEF Modest, OneAutonomousChat
  <1>4. ASSUME NEW c, NEW n
        PROVE  /\ Recent(row, c, n) = {} /\ Cardinality(Recent(row, c, n)) = 0
               /\ \A t \in Txs : /\ Recent(View(t), c, n) = {}
                                 /\ Cardinality(Recent(View(t), c, n)) = 0
    <2>1. Recent(row, c, n) = {} /\ \A t \in Txs : Recent(View(t), c, n) = {}
      BY <1>1 DEF Recent, View, Seen, NoWrites
    <2> QED
      BY <2>1, FS_EmptySet
  <1>5. Rates
    BY <1>1, <1>4 DEF Rates
  <1> QED
    BY <1>2, <1>3, <1>5

(* One handler at a time: nobody who was told "executed" or "rejected" ever *)
(* finds another outcome in the table, and nobody is told both.            *)
THEOREM SerialAnswersStand ==
  ASSUME Serial
  PROVE  Spec => []AnswersStand
  <1>1. Init => Opened /\ AnswersStand
    BY SerialStart
  <1>2. Inv /\ Opened /\ AnswersStand /\ [Next]_vars => Opened' /\ AnswersStand'
    BY SaidStep
  <1> QED
    BY <1>1, <1>2, Invariance, PTL DEF Spec

(* One handler at a time: an account never shows more executed writes in    *)
(* the last hour than WRITE_RATE_PER_HOUR, nor two autonomous chats.       *)
THEOREM SerialLimits ==
  ASSUME Serial
  PROVE  Spec => []LimitsRespected
  <1>1. Init => Rates /\ Modest
    BY SerialStart
  <1>2. Inv /\ Inv' /\ Rates /\ Modest /\ [Next]_vars => Rates' /\ Modest'
    BY RatesStep, ModestStep
  <1>3. Rates /\ Modest => LimitsRespected
    <2>1. \A c \in Chats : {a \in Actions : /\ InLastHour(row[a])
                                            /\ AccountOf[row[a].chat] = AccountOf[c]}
                             = Recent(row, c, now)
      BY DEF InLastHour, Recent
    <2> QED
      BY <2>1 DEF LimitsRespected, RateRespected, Modest, Rates
  <1> QED
    BY <1>1, <1>2, <1>3, Invariance, PTL DEF Spec

(* One handler at a time, agent_actions implements the lifecycle the code   *)
(* documents: a proposal is decided once, and the decision is final.       *)
THEOREM SerialLifecycle ==
  ASSUME Serial
  PROVE  Spec => DocumentedLifecycle
  <1>1. Init => Documented!LedgerInit
    BY DEF Init, Absent, Documented!LedgerInit
  <1>2. Init => Opened /\ AnswersStand
    BY SerialStart
  <1>3. Inv /\ Opened /\ AnswersStand /\ [Next]_vars => Opened' /\ AnswersStand'
    BY SaidStep
  <1>4. ASSUME Inv, Opened, [Next]_vars
        PROVE  [Documented!LedgerNext]_row
    <2>1. ASSUME NEW t \in Txs, NEW a \in Actions, RowMove(t, a),
                 row'[a] = row[a] \/ pend[t][a] # None
          PROVE  Documented!RowStep(row[a], row'[a])
      <3>1. CASE row'[a] = row[a]
        BY <3>1 DEF Documented!RowStep, Documented!SameCall
      <3>2. CASE Inserted(t, a)
        <4>1. row[a].status = "absent"
          BY <1>4, <3>2 DEF Inserted, Inv, Private
        <4>2. row'[a].status \in {"proposed", "executed", "failed", "blocked"}
          BY <1>4, <3>2 DEF Inserted, Inv, Settled, Executing
        <4> QED
          BY <4>1, <4>2 DEF Documented!RowStep, DocEdges
      <3>3. CASE Decided(a) /\ row'[a] # row[a]
        <4>1. row[a].status = "proposed"
          BY <1>4, <2>1, <3>3 DEF Decided, Opened
        <4> QED
          BY <3>3, <4>1 DEF Decided, Documented!RowStep, DocEdges, Kept!SameCall, Documented!SameCall
      <3> QED
        BY <2>1, <3>1, <3>2, <3>3 DEF RowMove
    <2>2. ASSUME NEW t \in Txs, AgentCommit(t) \/ FlushRejected(t) \/ AnswerConfirmed(t)
          PROVE  Documented!LedgerNext
      <3>1. ASSUME NEW a \in Actions
            PROVE  row'[a] = row[a] \/ pend[t][a] # None
        <4>1. CASE AgentCommit(t) \/ FlushRejected(t)
          BY <4>1 DEF AgentCommit, FlushRejected, Commit, Seen
        <4>2. CASE AnswerConfirmed(t)
          BY <1>4, <4>2, NoneAssumption
          DEF AnswerConfirmed, Inv, TypeInv, TypeOK, Places, Working, Executing
        <4> QED
          BY <2>2, <4>1, <4>2
      <3> QED
        BY <1>4, <2>1, <2>2, <3>1, CommitMoves, AnswerMoves DEF Documented!LedgerNext
    <2>3. ASSUME NEW t \in Txs, Progress(t)
          PROVE  Documented!LedgerNext \/ UNCHANGED row
      BY <2>2, <2>3
      DEF Progress, KeepProposal, ExecuteAutonomous, AgentFail, FlushExpired, FlushConfirmed,
          GuardAndRate, CheckMode, Check, Fail, Deliver, Refuse, AnswerLost, AnswerAutonomous,
          WriteMode, Rollback, rowVars
    <2>4. ASSUME NEW t \in Txs, Request(t) \/ CallTool(t) \/ Abandon(t)
          PROVE  UNCHANGED row
      BY <2>4
      DEF Request, BeginAgent, ConfirmAction, ConfirmExpired, RejectAction, Decide,
          SetChatWriteMode, CallTool, ProposeTool, Abandon, Rollback, rowVars
    <2> QED
      BY <1>4, <2>3, <2>4 DEF Next, Restart, Tick, vars, rowVars
  <1> QED
    BY <1>1, <1>2, <1>3, <1>4, Invariance, PTL
    DEF Spec, DocumentedLifecycle, Documented!LedgerSpec
=============================================================================
