------------------------------- MODULE AutoReply -------------------------------
(***************************************************************************)
(* The auto-reply rule of one chat: services/autoreply.py and the cron job *)
(* process_autoreplies of worker/tasks.py.  Every five minutes the worker  *)
(* looks at the stored messages above the rule's cursor, asks the LLM for  *)
(* an answer to each one that the trigger matches, and proposes or sends   *)
(* it; the cursor is written once, at the end.  A run may take ten         *)
(* minutes, so that two of them overlap; it may end in the hour after the  *)
(* one it began in, but no later.                                          *)
(*                                                                         *)
(* Messages are their ids.  They are stored in any order: the ingestion    *)
(* stores new ones newest first and fills the history in backwards.  What  *)
(* happens to a proposal afterwards is the subject of WriteActions.        *)
(***************************************************************************)
EXTENDS Integers, Sequences, FiniteSetsExt

CONSTANTS
  Runs,          \* runs of process_autoreplies that may overlap (bound)
  MaxId,         \* bound: the highest message id
  Matching,      \* the messages of other people that the trigger matches
  MaxPerHour,    \* rule.max_per_hour
  MaxNewPerRun,  \* MAX_NEW_PER_RUN
  LoadLimit,     \* the limit of the query for new messages
  Day,           \* the hours of a day
  QuietFrom, QuietTo,  \* rule.quiet_from and quiet_to
  MaxTroubles    \* bound: exceptions, lost answers, timeouts, deaths, and changes of the
                 \* rule, the write mode or the account

Ids == 1..MaxId

ASSUME AutoReplyAssumption ==
  /\ IsFiniteSet(Runs)
  /\ {MaxId, MaxTroubles} \subseteq Nat
  /\ Matching \subseteq Ids
  /\ {MaxPerHour, MaxNewPerRun, LoadLimit, Day} \subseteq Nat \ {0}
  /\ {QuietFrom, QuietTo} \subseteq 0..Day - 1

VARIABLES
  stored,     \* ids of the chat's rows in messages
  rule,       \* the row of auto_reply_rules
  mode,       \* chats.write_mode
  active,     \* whether the account's status is active
  hour,       \* the hour of the day
  acts,       \* committed rows of agent_actions that answer a message
  run,        \* run[r]: the local variables of a run
  delivered,  \* delivered[m]: how often an answer to m was sent autonomously
  risky,      \* history: messages in the list of a run that overlapped or did not save
  start,      \* history: the cursor the rule was created with
  faults, edits   \* bounds

bounds == <<faults, edits>>
world == <<active, hour>>
vars == <<stored, rule, mode, active, hour, acts, run, delivered, risky, start, faults, edits>>

Idle == [pc |-> "idle", age |-> 0, mode |-> "read_only", list |-> {}, last |-> 0, budget |-> 0,
         asked |-> {}, made |-> <<>>]

Newest(S) == Max(S \cup {0})
Above(S, n) == {m \in S : m > n}

(* The hours of the day turn round.  The age of a row, and of a run, is 0 in *)
(* the hour it was made in, 1 in the next, and then it does not matter.     *)
After(h) == IF h = Day - 1 THEN 0 ELSE h + 1
Before(h) == IF h = 0 THEN Day - 1 ELSE h - 1
Older(row) == [row EXCEPT !.age = IF @ < 2 THEN @ + 1 ELSE 2]
Aged(rows) == [i \in DOMAIN rows |-> Older(rows[i])]

(* What is still to be looked at in the list of run r. *)
Rest(r) == Above(run[r].list, run[r].last)
At(r, pc) == run[r].pc = pc
Active(r) == run[r].pc \in {"work", "draft", "save"}

-----------------------------------------------------------------------------
(* The pure parts.                                                         *)

(* Mutated: an interval across midnight is read like any other. *)
InQuietHours_NoMidnight(h) == QuietFrom # QuietTo /\ QuietFrom <= h /\ h < QuietTo

InQuietHours(h) ==
  /\ QuietFrom # QuietTo
  /\ IF QuietFrom < QuietTo THEN QuietFrom <= h /\ h < QuietTo ELSE h >= QuietFrom \/ h < QuietTo

Counted == {"proposed", "confirmed", "executed"}

(* Mutated: only what has been sent counts, not what is proposed. *)
SentLastHour_SentOnly ==
  Cardinality({i \in DOMAIN acts : acts[i].age <= 1 /\ acts[i].status = "executed"})

SentLastHour ==
  Cardinality({i \in DOMAIN acts : acts[i].age <= 1 /\ acts[i].status \in Counted})

(* The query for new messages: ascending, limited. *)
NewMessages ==
  LET above == Above(stored, rule.cursor)
  IN  {m \in above : Cardinality({k \in above : k < m}) < LoadLimit}

-----------------------------------------------------------------------------
(* A run.                                                                  *)

(* enabled_rule_ids, in a transaction of its own. *)
StartRun(r) ==
  /\ At(r, "idle")
  /\ rule.enabled
  /\ run' = [run EXCEPT ![r].pc = "chosen"]
  /\ UNCHANGED <<stored, rule, mode, world, acts, delivered, risky, start, bounds>>

Skips == ~active \/ mode = "read_only" \/ InQuietHours(hour) \/ NewMessages = {}

(* The rule's transaction begins: the checks, the messages and the budget.  *)
(* It does not look at rule.enabled again.  created_at of the rows it will  *)
(* insert is the time the transaction began: they are as old as the run.    *)
Open(r) ==
  /\ At(r, "chosen")
  /\ IF Skips
     THEN /\ run' = [run EXCEPT ![r] = Idle]
          /\ UNCHANGED risky
     ELSE LET others == {o \in Runs : Active(o)} IN
          /\ run' = [run EXCEPT ![r] =
                [Idle EXCEPT !.pc = "work", !.mode = mode, !.list = NewMessages,
                             !.last = rule.cursor, !.budget = MaxPerHour - SentLastHour]]
          /\ risky' = IF others = {} THEN risky
                      ELSE risky \cup NewMessages \cup UNION {run[o].list : o \in others}
  /\ UNCHANGED <<stored, rule, mode, world, acts, delivered, start, bounds>>

(* The run's share, or the hour's, is used up. *)
Limited(r) == Cardinality(run[r].asked) >= MaxNewPerRun \/ run[r].budget <= 0

(* Mutated: what is left in the list is passed over at the limit. *)
Advance_All(r, m) == IF Limited(r) THEN Max(run[r].list) ELSE m

Advance(r, m) == m

(* The loop up to the next match: its id, and whether a limit ends the run. *)
Judge(r) ==
  /\ At(r, "work")
  /\ LET matches == Rest(r) \cap Matching
         m == Min(matches)
     IN  run' = IF matches = {}
                THEN [run EXCEPT ![r].last = Max(run[r].list), ![r].pc = "save"]
                ELSE [run EXCEPT ![r].last = Advance(r, m),
                                 ![r].asked = IF Limited(r) THEN @ ELSE @ \cup {m},
                                 ![r].pc = IF Limited(r) THEN "save" ELSE "draft"]
  /\ UNCHANGED <<stored, rule, mode, world, acts, delivered, risky, start, bounds>>

(* draft_reply answers None: an LLM error, or the model wrote SKIP. *)
NoDraft(r) ==
  /\ At(r, "draft")
  /\ run' = [run EXCEPT ![r].pc = "work"]
  /\ UNCHANGED <<stored, rule, mode, world, acts, delivered, risky, start, bounds>>

Row(r, status) == [msg |-> run[r].last, status |-> status, age |-> run[r].age]

Trouble == faults + edits < MaxTroubles

(* propose_or_execute: the chat's mode is the one the session has read. *)
Answer(r, status, sends) ==
  /\ At(r, "draft")
  /\ run' = [run EXCEPT ![r].made = Append(@, Row(r, status)),
                        ![r].budget = IF status = "failed" THEN @ ELSE @ - 1,
                        ![r].pc = "work"]
  /\ delivered' = [delivered EXCEPT ![run[r].last] = IF sends THEN @ + 1 ELSE @]
  /\ UNCHANGED <<stored, rule, mode, world, acts, risky, start, edits>>

(* A call that fails may have been delivered: its answer was lost. *)
Propose(r) ==
  \/ /\ \/ run[r].mode = "write_with_confirm" /\ \E s \in {"proposed", "failed"} : Answer(r, s, FALSE)
        \/ run[r].mode = "autonomous" /\ (Answer(r, "executed", TRUE) \/ Answer(r, "failed", FALSE))
     /\ UNCHANGED faults
  \/ run[r].mode = "autonomous" /\ Trouble /\ faults' = faults + 1 /\ Answer(r, "failed", TRUE)

(* Mutated: the cursor is never written. *)
MovedCursor_Not(r) == rule.cursor

(* Mutated: a run that a limit stops leaves the cursor where it was. *)
MovedCursor_NotAtLimit(r) == IF run[r].list \cap Matching \subseteq run[r].asked
                             THEN run[r].last ELSE rule.cursor

MovedCursor(r) == run[r].last

Save(r) ==
  /\ At(r, "save")
  /\ rule' = [rule EXCEPT !.cursor = MovedCursor(r)]
  /\ acts' = acts \o run[r].made
  /\ run' = [run EXCEPT ![r] = Idle]
  /\ UNCHANGED <<stored, mode, world, delivered, risky, start, bounds>>

Fail(r) ==
  /\ Active(r)
  /\ Trouble /\ faults' = faults + 1
  /\ run' = [run EXCEPT ![r] = Idle]
  /\ risky' = risky \cup run[r].list
  /\ UNCHANGED <<stored, rule, mode, world, start, edits>>

(* An exception other than ActionError: process_autoreplies catches it       *)
(* inside session_scope, which commits what there is.  In the middle of a    *)
(* delivery the row is CONFIRMED.                                            *)
Raise(r) ==
  /\ Fail(r)
  /\ \E begun \in IF At(r, "draft") /\ run[r].mode = "autonomous" THEN BOOLEAN ELSE {FALSE} :
       acts' = acts \o run[r].made \o (IF begun THEN <<Row(r, "confirmed")>> ELSE <<>>)
  /\ UNCHANGED delivered

(* The job is cancelled after its timeout, or the worker dies: rolled back.  *)
Die(r) ==
  /\ Fail(r)
  /\ UNCHANGED <<acts, delivered>>

-----------------------------------------------------------------------------
(* The ingestion, the owner and the clock.                                 *)

Store(m) ==
  /\ m \notin stored
  /\ stored' = stored \cup {m}
  /\ UNCHANGED <<rule, mode, world, acts, run, delivered, risky, start, bounds>>

(* upsert_rule: a new rule begins after the newest message; a rule is       *)
(* enabled only on a chat that may be written to.                          *)
UpsertRule(enabled) ==
  /\ Trouble /\ edits' = edits + 1
  /\ enabled => mode # "read_only"
  /\ rule' = [exists |-> TRUE, enabled |-> enabled,
              cursor |-> IF rule.exists THEN rule.cursor ELSE Newest(stored)]
  /\ start' = IF rule.exists THEN start ELSE Newest(stored)
  /\ UNCHANGED <<stored, mode, world, acts, run, delivered, risky, faults>>

SetMode(m) ==
  /\ Trouble /\ edits' = edits + 1
  /\ mode' = m
  /\ UNCHANGED <<stored, rule, world, acts, run, delivered, risky, start, faults>>

(* A login, or a session that is revoked. *)
SetStatus(a) ==
  /\ Trouble /\ edits' = edits + 1
  /\ active' = a
  /\ UNCHANGED <<stored, rule, mode, hour, acts, run, delivered, risky, start, faults>>

Reject(i) ==
  /\ Trouble /\ edits' = edits + 1
  /\ acts[i].status = "proposed"
  /\ acts' = [acts EXCEPT ![i].status = "rejected"]
  /\ UNCHANGED <<stored, rule, mode, world, run, delivered, risky, start, faults>>

(* An hour passes; the job of a run is cancelled before it is an hour old.  *)
Tick ==
  /\ \A r \in Runs : Active(r) => run[r].age = 0
  /\ hour' = After(hour)
  /\ acts' = Aged(acts)
  /\ run' = [r \in Runs |-> IF Active(r) THEN [run[r] EXCEPT !.age = 1, !.made = Aged(@)]
                            ELSE run[r]]
  /\ UNCHANGED <<stored, rule, mode, active, delivered, risky, start, bounds>>

-----------------------------------------------------------------------------
Modes == {"read_only", "write_with_confirm", "autonomous"}

Init ==
  /\ stored \in {1..n : n \in 0..MaxId}
  /\ mode \in Modes
  /\ rule \in {[exists |-> FALSE, enabled |-> FALSE, cursor |-> 0]} \cup
              [exists : {TRUE}, enabled : {mode # "read_only"}, cursor : {Newest(stored)}]
  /\ active = TRUE
  /\ hour = 0
  /\ acts = <<>>
  /\ run = [r \in Runs |-> Idle]
  /\ delivered = [m \in Ids |-> 0]
  /\ risky = {}
  /\ start = rule.cursor
  /\ faults = 0 /\ edits = 0

Progress(r) == Open(r) \/ Judge(r) \/ NoDraft(r) \/ Propose(r) \/ Save(r)

Next ==
  \/ \E r \in Runs : StartRun(r) \/ Progress(r) \/ Raise(r) \/ Die(r)
  \/ \E m \in Ids : Store(m)
  \/ \E enabled \in BOOLEAN : UpsertRule(enabled)
  \/ \E m \in Modes : SetMode(m)
  \/ \E a \in BOOLEAN : SetStatus(a)
  \/ \E i \in DOMAIN acts : Reject(i)
  \/ Tick

Spec == Init /\ [][Next]_vars

(* The cron fires every five minutes, a run goes on, and the hours pass:     *)
(* twelve runs an hour come to the rule also in the hours it may run in.    *)
Awake == ~InQuietHours(hour)

LiveSpec ==
  /\ Spec
  /\ WF_vars(Tick)
  /\ \A r \in Runs : WF_vars(StartRun(r) \/ Progress(r))
  /\ SF_vars(Awake /\ \E r \in Runs : StartRun(r))
  /\ SF_vars(Awake /\ \E r \in Runs : Open(r))

-----------------------------------------------------------------------------
(* Properties.                                                             *)

Statuses == {"proposed", "confirmed", "executed", "failed", "rejected"}
AnswerRow == [msg : Ids, status : Statuses, age : 0..2]

Run == [pc : {"idle", "chosen", "work", "draft", "save"}, age : 0..1, mode : Modes,
        list : SUBSET Ids, last : 0..MaxId, budget : Int, asked : SUBSET Ids,
        made : Seq(AnswerRow)]

(* Every variable keeps to the values the code can give it. *)
TypeOK ==
  /\ stored \subseteq Ids
  /\ rule \in [exists : BOOLEAN, enabled : BOOLEAN, cursor : 0..MaxId]
  /\ mode \in Modes
  /\ active \in BOOLEAN
  /\ hour \in 0..Day - 1
  /\ acts \in Seq(AnswerRow)
  /\ run \in [Runs -> Run]
  /\ delivered \in [Ids -> Nat]
  /\ risky \subseteq Ids
  /\ start \in 0..MaxId
  /\ faults \in Nat /\ edits \in Nat

AnswersTo(m) == Cardinality({i \in DOMAIN acts : acts[i].msg = m})

(* A message is answered at most once, and nothing older than the rule at    *)
(* all, unless a run that had it in its list overlapped with another one or  *)
(* ended without writing the cursor.                                         *)
AnsweredOnce ==
  \A m \in Ids : /\ AnswersTo(m) + delivered[m] > 0 => m > start
                 /\ m \notin risky => AnswersTo(m) <= 1 /\ delivered[m] <= 1

(* The limit per hour holds for every run: runs that overlap exceed it at   *)
(* most as often as there are of them.                                      *)
HourlyLimit ==
  Cardinality({i \in DOMAIN acts : acts[i].age <= 1 /\ acts[i].status \notin {"failed", "rejected"}})
    <= MaxPerHour * Cardinality(Runs)

(* A run that saves has asked about every match it leaves behind, but for   *)
(* one: the message at which a limit stopped it.                            *)
AtMostOneIsDropped ==
  [][\A r \in Runs : At(r, "save") /\ rule'.cursor # rule.cursor =>
       Cardinality({m \in run[r].list \cap Matching : m <= run[r].last} \ run[r].asked) <= 1]_vars

(* What the table of actions says of auto-replies at any moment: nothing is  *)
(* answered twice without a reason.                                        *)
ReplyInv == TypeOK /\ AnsweredOnce

(* The hours from quiet_from up to quiet_to, also across midnight. *)
Night(h) == \E k \in 0..Day - 1 : /\ h = (QuietFrom + k) % Day
                                 /\ \A j \in 0..k : (QuietFrom + j) % Day # QuietTo

(* An answer is sent, or made for its owner to confirm. *)
Answering == delivered' # delivered \/ \E r \in Runs : Len(run'[r].made) > Len(run[r].made)

(* A run looks at the clock once and answers minutes later: it may still do *)
(* so when the night has just begun, but once an hour of it has passed      *)
(* nothing is answered until the night is over.                            *)
NightsAreQuiet == [][Answering => ~(Night(hour) /\ Night(Before(hour)))]_vars

MayRun == rule.enabled /\ mode # "read_only" /\ active

(* If the rule stays enabled on a chat that may be written to and an account *)
(* that is active, the cursor catches up with the messages stored, again    *)
(* and again, whatever hours are quiet.                                    *)
CursorCatchesUp == <>[]MayRun => []<>(rule.cursor >= Newest(stored))
=============================================================================
