-------------------------------- MODULE ChatSync --------------------------------
(***************************************************************************)
(* The history of one chat on its way from Telegram into the table         *)
(* messages: services/ingestion.py, sync_chat.  A job first pulls what is  *)
(* newer than synced_max_id and then fills in backwards from synced_min_id *)
(* in batches; each batch and each move of the two marks is a transaction  *)
(* of its own, so that a job that dies keeps what it has.                  *)
(*                                                                         *)
(* The account job and the button of the chat run the same code and may    *)
(* overlap.  A job ends early when Telegram asks it to wait (FloodWait),   *)
(* on an error, or when ARQ cancels it; the worker itself may die.         *)
(***************************************************************************)
EXTENDS Integers, FiniteSets

CONSTANTS
  Jobs,       \* sync_chat calls that may run at the same time (bound)
  MaxId,      \* bound: the highest message id Telegram assigns
  There,      \* the messages the chat has when it is first seen
  Deletable,  \* bound: the messages somebody may delete
  Service,    \* ids of service messages, for which message_to_row gives None
  Budget,     \* max_messages of one job
  Batch,      \* rows that are written together
  MaxCuts,    \* bound: FloodWaits, errors and deaths of the worker together
  MaxAborts,  \* bound: cancelled jobs, exceptions sync_chat does not catch, failed resets
  None        \* NULL

Ids == 1..MaxId

ASSUME SyncAssumption ==
  /\ MaxId \in Nat \ {0}
  /\ There \subseteq Ids
  /\ Deletable \subseteq Ids
  /\ Service \subseteq Ids
  /\ Budget \in Nat \ {0}
  /\ Batch \in Nat \ {0}
  /\ MaxCuts \in Nat
  /\ MaxAborts \in Nat
  /\ None \notin Int

VARIABLES
  tg,      \* the messages Telegram has now
  top,     \* the highest id it has assigned
  stored,  \* ids of the chat's rows in messages
  smin,    \* synced_min_id; 1 says that the beginning has been reached
  smax,    \* synced_max_id
  state,   \* sync_state
  job,     \* job[j]: the local variables of a call of sync_chat
  cuts,    \* bound: interruptions so far
  aborts,  \* bound: aborted jobs and failed resets so far
  base,    \* history: the first value of synced_max_id
  torn,    \* history: a pull of new messages has ended before its end
  split    \* history: two first syncs have been at work at the same time

marks    == <<smin, smax, base>>
telegram == <<tg, top>>
bounds   == <<cuts, aborts>>
history  == <<torn, split>>
vars     == <<tg, top, stored, smin, smax, state, job, cuts, aborts, base, torn, split>>

Mark == Ids \cup {None}

(* old: a backfill; from, above: what the job has read of the two marks;    *)
(* cursor: the next message is below it; newMin, newMax: computed by a      *)
(* _progress that has read the chat; last: the iterator has ended; saw:     *)
(* history, the highest id there was when the job began.                    *)
Job == [pc : {"idle", "selected", "connect", "pull", "read", "write", "finish"},
        old : BOOLEAN, from : Mark, above : Mark, budget : 0..Budget, fetched : 0..Budget,
        cursor : 1..(MaxId + 1), newest : Mark, oldest : Mark, newMin : Mark, newMax : Mark,
        last : BOOLEAN, done : BOOLEAN, saw : 0..MaxId]

Idle == [pc |-> "idle", old |-> FALSE, from |-> None, above |-> None, budget |-> 0,
         fetched |-> 0, cursor |-> 1, newest |-> None, oldest |-> None, newMin |-> None,
         newMax |-> None, last |-> FALSE, done |-> FALSE, saw |-> 0]

MaxOf(S) == CHOOSE x \in S : \A y \in S : y <= x
MinOf(S) == CHOOSE x \in S : \A y \in S : x <= y

-----------------------------------------------------------------------------
(* One call of sync_chat.                                                  *)

(* The account job picks its chats long before it comes to them. *)
Select(j) ==
  /\ job[j].pc = "idle"
  /\ state # "running"
  /\ job' = [job EXCEPT ![j].pc = "selected"]
  /\ UNCHANGED <<telegram, stored, marks, state, bounds, history>>

(* A job that has found no marks: it begins with the newest message there is. *)
First(j) == job[j].pc \notin {"idle", "selected"} /\ job[j].from = None

(* The first transaction; the button of the chat does not look at the state. *)
Begin(j) ==
  /\ job[j].pc \in {"idle", "selected"}
  /\ split' = (split \/ (smin = None /\ \E k \in Jobs : First(k)))
  /\ state' = "running"
  /\ job' = [job EXCEPT ![j] = [Idle EXCEPT !.pc = "connect", !.from = smin, !.above = smax,
                                            !.budget = Budget, !.saw = top]]
  /\ UNCHANGED <<telegram, stored, marks, bounds, torn>>

NeedsBackfill(from) == from = None \/ from > 1

(* Mutated: the offset is taken for the last message still wanted. *)
OldCursor_Next(from) == IF from = None THEN MaxId + 1 ELSE from - 1

(* offset_id = synced_min or 0; without an offset Telegram starts at the newest. *)
OldCursor(from) == IF from = None THEN MaxId + 1 ELSE from

StartNew(r) == [r EXCEPT !.pc = "pull", !.cursor = MaxId + 1]

StartOldOrFinish(r, left) ==
  IF left > 0 /\ NeedsBackfill(r.from)
  THEN [r EXCEPT !.pc = "pull", !.old = TRUE, !.cursor = OldCursor(r.from),
                 !.budget = left, !.fetched = 0, !.last = FALSE]
  ELSE [r EXCEPT !.pc = "finish"]

Connect(j) ==
  LET r == job[j]
  IN  /\ r.pc = "connect"
      /\ job' = [job EXCEPT ![j] = IF r.above # None THEN StartNew(r)
                                   ELSE StartOldOrFinish(r, r.budget)]
      /\ UNCHANGED <<telegram, stored, marks, state, bounds, history>>

(* Mutated: min_id is taken for the first id still wanted. *)
Available_Next(r) ==
  {i \in tg : i < r.cursor /\ (r.old \/ i > r.above + 1)}

Available(r) ==
  {i \in tg : i < r.cursor /\ (r.old \/ i > r.above)}

(* What the iterator yields next: the newest of what is available, no more  *)
(* than the limit allows.                                                  *)
Chunks(r) ==
  {K \in {{x \in Available(r) : x >= i} : i \in 1..(MaxId + 1)} :
     Cardinality(K) <= r.budget - r.fetched}

Full(K) == Cardinality(K \ Service) = Batch /\ K # {} /\ MinOf(K) \notin Service

(* Mutated: the limit counts as the beginning of the history. *)
Beginning_AtLimit(r, fetched) == r.old /\ fetched <= r.budget

Beginning(r, fetched) == r.old /\ fetched < r.budget

Rows(K) == K \ Service

(* A batch: pulled, and written by upsert_messages. *)
Pull(j) ==
  LET r == job[j]
  IN  \E K \in Chunks(r) :
        /\ r.pc = "pull"
        /\ \/ Full(K)
           \/ \A L \in Chunks(r) : ~Full(L) /\ L \subseteq K
        /\ stored' = stored \cup Rows(K)
        /\ job' = [job EXCEPT ![j] =
             [r EXCEPT !.pc = "read",
                       !.fetched = @ + Cardinality(K),
                       !.cursor = IF K = {} THEN @ ELSE MinOf(K),
                       !.newest = IF K = {} THEN @ ELSE MaxOf(K \cup ({@} \ {None})),
                       !.oldest = IF K = {} THEN @ ELSE MinOf(K \cup ({@} \ {None})),
                       !.last = ~Full(K),
                       !.done = ~Full(K) /\ Beginning(r, r.fetched + Cardinality(K))]]
        /\ UNCHANGED <<telegram, marks, state, bounds, history>>

(* _progress: the marks are read, and then written where they have changed. *)
ProgressRead(j) ==
  LET r == job[j]
  IN  /\ r.pc = "read"
      /\ job' = [job EXCEPT ![j] =
           [r EXCEPT !.pc = "write",
                     !.newMax = IF r.newest # None /\ (smax = None \/ r.newest > smax)
                                THEN r.newest ELSE None,
                     !.newMin = IF r.oldest # None /\ (smin = None \/ r.oldest < smin)
                                THEN r.oldest ELSE None]]
      /\ UNCHANGED <<telegram, stored, marks, state, bounds, history>>

(* Mutated: a missing oldest_id is written as 0. *)
MoveMarks_Zero(r) ==
  /\ smax' = IF r.newMax = None THEN smax ELSE r.newMax
  /\ smin' = IF r.newMin = None THEN IF smin = None THEN 0 ELSE smin ELSE r.newMin

MoveMarks(r) ==
  /\ smax' = IF r.newMax = None THEN smax ELSE r.newMax
  /\ smin' = IF r.newMin = None THEN smin ELSE r.newMin

ProgressWrite(j) ==
  LET r == job[j]
  IN  /\ r.pc = "write"
      /\ MoveMarks(r)
      /\ base' = IF base = None THEN smax' ELSE base
      /\ job' = [job EXCEPT ![j] =
           IF ~r.last THEN [r EXCEPT !.pc = "pull"]
           ELSE IF r.old THEN [r EXCEPT !.pc = "finish"]
           ELSE StartOldOrFinish(r, r.budget - r.fetched)]
      /\ torn' = (torn \/ (r.last /\ ~r.old /\ r.fetched = r.budget))
      /\ UNCHANGED <<telegram, stored, state, bounds, split>>

(* _finish: an idle chat whose beginning is reached is done. *)
Settled(min) == IF min = 1 THEN "done" ELSE "idle"

Finish(j) ==
  /\ job[j].pc = "finish"
  /\ smin' = IF job[j].done THEN 1 ELSE smin
  /\ state' = Settled(smin')
  /\ job' = [job EXCEPT ![j] = Idle]
  /\ UNCHANGED <<telegram, stored, smax, base, bounds, history>>

-----------------------------------------------------------------------------
(* What goes wrong.                                                        *)

(* Mutated: the pause is reported without a _finish. *)
AfterFlood_Forgotten == state

AfterFlood == Settled(smin)

Interruptible(j) == job[j].pc \in {"connect", "pull"}

(* In a pull of new messages that has fetched something, and not everything. *)
MidNew(j) == job[j].pc \in {"pull", "read", "write"} /\ ~job[j].old /\ job[j].newest # None

Flood(j) ==
  /\ Interruptible(j)
  /\ cuts < MaxCuts
  /\ cuts' = cuts + 1
  /\ state' = AfterFlood
  /\ job' = [job EXCEPT ![j] = Idle]
  /\ torn' = (torn \/ MidNew(j))
  /\ UNCHANGED <<telegram, stored, marks, aborts, split>>

(* A PoolError, an RPCError or a network error. *)
Error(j) ==
  /\ Interruptible(j)
  /\ cuts < MaxCuts
  /\ cuts' = cuts + 1
  /\ state' = "failed"
  /\ job' = [job EXCEPT ![j] = Idle]
  /\ torn' = (torn \/ MidNew(j))
  /\ UNCHANGED <<telegram, stored, marks, aborts, split>>

(* ARQ cancels a job after job_timeout; a database error is not caught.    *)
(* Neither passes through _finish.                                         *)
Abort(j) ==
  /\ job[j].pc # "idle"
  /\ aborts < MaxAborts
  /\ aborts' = aborts + 1
  /\ job' = [job EXCEPT ![j] = Idle]
  /\ torn' = (torn \/ MidNew(j))
  /\ UNCHANGED <<telegram, stored, marks, state, cuts, split>>

(* The worker dies, and comes up with _reset_stuck_syncs; when that fails it *)
(* is logged, the worker starts all the same, and the state stays.          *)
WorkerRestart ==
  /\ cuts < MaxCuts
  /\ cuts' = cuts + 1
  /\ \/ state' = (IF state = "running" THEN "idle" ELSE state) /\ aborts' = aborts
     \/ state' = state /\ aborts < MaxAborts /\ aborts' = aborts + 1
  /\ job' = [j \in Jobs |-> Idle]
  /\ torn' = (torn \/ \E j \in Jobs : MidNew(j))
  /\ UNCHANGED <<telegram, stored, marks, split>>

(* Somebody writes to the chat, or deletes a message. *)
NewMessage ==
  /\ top < MaxId
  /\ top' = top + 1
  /\ tg' = tg \cup {top'}
  /\ UNCHANGED <<stored, marks, state, job, bounds, history>>

DeleteMessage(i) ==
  /\ i \in tg
  /\ tg' = tg \ {i}
  /\ UNCHANGED <<top, stored, marks, state, job, bounds, history>>

-----------------------------------------------------------------------------
Init ==
  /\ tg = There
  /\ top = IF There = {} THEN 0 ELSE MaxOf(There)
  /\ stored = {}
  /\ smin = None
  /\ smax = None
  /\ state = "idle"
  /\ job = [j \in Jobs |-> Idle]
  /\ cuts = 0
  /\ aborts = 0
  /\ base = None
  /\ torn = FALSE
  /\ split = FALSE

Progress(j) ==
  Connect(j) \/ Pull(j) \/ ProgressRead(j) \/ ProgressWrite(j) \/ Finish(j)

Next ==
  \/ \E j \in Jobs : Select(j) \/ Begin(j) \/ Progress(j) \/ Flood(j) \/ Error(j) \/ Abort(j)
  \/ WorkerRestart
  \/ NewMessage
  \/ \E i \in Deletable : DeleteMessage(i)

Spec == Init /\ [][Next]_vars

(* The worker runs what it has begun, and the cron brings the account job   *)
(* back as long as the chat may be selected.  Nobody has to press the       *)
(* button, and nothing has to fail.                                        *)
LiveSpec ==
  /\ Spec
  /\ \A j \in Jobs :
       WF_vars(Progress(j) \/ Select(j) \/ (job[j].pc = "selected" /\ Begin(j)))

-----------------------------------------------------------------------------
(* Properties.                                                             *)

(* Every variable keeps to the values the code can give it. *)
TypeOK ==
  /\ tg \subseteq Ids
  /\ top \in 0..MaxId
  /\ stored \subseteq Ids \ Service
  /\ smin \in Mark /\ smax \in Mark /\ base \in Mark
  /\ state \in {"idle", "running", "done", "failed"}
  /\ job \in [Jobs -> Job]
  /\ cuts \in 0..MaxCuts
  /\ aborts \in 0..MaxAborts
  /\ torn \in BOOLEAN /\ split \in BOOLEAN

Missing == (tg \ Service) \ stored

(* What the two marks claim: everything between them has been fetched.     *)
NoHole == \A i \in Missing : ~(smin # None /\ smax # None /\ smin <= i /\ i <= smax)

(* However jobs are cut short, the backfill leaves no hole: what is between *)
(* synced_min_id and the newest message of the first sync is stored, unless  *)
(* there were two first syncs, each from a newest message of its own.       *)
BackfillHasNoHole ==
  ~split => \A i \in Missing : ~(smin # None /\ base # None /\ smin <= i /\ i <= base)

(* What a chat keeps at any moment, also while jobs are at work on it.      *)
SyncInv == TypeOK /\ BackfillHasNoHole

(* A pull of new messages that ends early, or a second first sync, is the     *)
(* only thing that makes a hole: jobs that overlap, each moving the marks    *)
(* from values the other may have changed, and whatever cuts a backfill     *)
(* short, leave none behind.                                               *)
RestsWithoutHole == (~torn /\ ~split /\ \A j \in Jobs : job[j].pc = "idle") => NoHole

(* Of what was there when it began, a job that ends by itself with room in *)
(* its budget leaves nothing behind, but what another pull of new messages  *)
(* is still on its way to.  (A chat that has never had a message is another  *)
(* matter: nothing is asked of it again.)                                  *)
FinishedIsCurrent ==
  [][\A j \in Jobs :
       (/\ job[j].pc = "finish" /\ Finish(j) /\ job[j].fetched < job[j].budget
        /\ ~torn /\ ~split /\ base # None /\ \A k \in Jobs : ~MidNew(k))
         => \A i \in Missing : i > job[j].saw]_vars

(* A chat that stays running with nobody at work on it, because a job was     *)
(* aborted or a worker came up without its reset: chats_to_sync leaves it   *)
(* out until the button is pressed or a later reset succeeds.              *)
Stuck == aborts > 0 /\ state = "running" /\ \A j \in Jobs : job[j].pc = "idle"

(* What was in the chat when it was first seen arrives, unless it is deleted *)
(* or the chat gets stuck; once a stuck chat is freed, by a reset or by the *)
(* button, it arrives after all.                                           *)
HistoryArrives ==
  \A i \in There \ Service : (i \in tg) ~> (i \in stored \/ i \notin tg \/ Stuck)
=============================================================================
