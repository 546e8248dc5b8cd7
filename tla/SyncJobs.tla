-------------------------------- MODULE SyncJobs --------------------------------
(***************************************************************************)
(* Who runs the syncs of one account, and when: the ARQ jobs sync_account  *)
(* and sync_chat of worker/tasks.py, the ten-minute cron, the two buttons  *)
(* of web/routers/tg.py, and the pause that a FloodWait asks for.          *)
(*                                                                         *)
(* ARQ is external.  It refuses to enqueue a job whose id is still known:  *)
(* one that is queued, deferred or running, or whose result Redis keeps.   *)
(* A job that its worker did not finish is run again.  What one sync does  *)
(* to its chat is the subject of ChatSync; here it only ends well or not.  *)
(***************************************************************************)
EXTENDS Integers, FiniteSets

CONSTANTS
  Chats,       \* the chats of the account
  Account,     \* stands for the job id sync:acc:<id>
  MaxChats,    \* max_chats of limits_for
  MaxJobs,     \* max_jobs of the worker
  KeepResult,  \* ARQ's keep_result, in ticks of ten minutes
  Waits,       \* the waits Telegram asks for, in ticks
  MaxDelay,    \* the hour at which the code caps a wait, in ticks
  MaxFloods,   \* bound: FloodWaits
  MaxDeaths,   \* bound: deaths of the worker
  MaxAborts,   \* bound: jobs that time out or raise
  None         \* "no chat"

JobIds == Chats \cup {Account}   \* a chat stands for its id sync:chat:<id>

ASSUME JobsAssumption ==
  /\ Account \notin Chats
  /\ None \notin JobIds
  /\ MaxChats \in Nat \ {0}
  /\ MaxJobs \in Nat \ {0}
  /\ Waits \subseteq Nat
  /\ MaxDelay \in Nat
  /\ KeepResult \in Nat
  /\ MaxDelay <= KeepResult   \* ARQ keeps a result for an hour unless it is told otherwise
  /\ {MaxFloods, MaxDeaths, MaxAborts} \subseteq Nat

VARIABLES
  queue,      \* queue[i]: what ARQ knows of job i
  keep,       \* keep[i]: ticks until ARQ forgets the result of i
  step,       \* step[i]: where the function of job i is
  at,         \* at[i]: the chat that job i is syncing
  plan,       \* the chats sync_account has still to visit
  state,      \* state[c]: chats.sync_state
  cronDue,    \* the tick's incremental_sync_all has yet to run
  wait,       \* history: ticks left of the wait that job i has reported, an hour at most
  abandoned,  \* history: chats left running by an aborted job or a failed reset
  floods, deaths, aborts   \* bounds

bounds == <<floods, deaths, aborts>>
vars   == <<queue, keep, step, at, plan, state, cronDue, wait, abandoned, floods, deaths, aborts>>

Running(i) == queue[i] = "running"

-----------------------------------------------------------------------------
(* ARQ.                                                                    *)

(* enqueue answers None when ARQ refuses, and nothing else happens. *)
Enqueue(i) ==
  queue' = IF queue[i] = "none" THEN [queue EXCEPT ![i] = "queued"] ELSE queue

(* Mutated: a finished job leaves no result behind. *)
FinishJob_NoResult(i) ==
  /\ queue' = [queue EXCEPT ![i] = "none"]
  /\ UNCHANGED keep

FinishJob(i) ==
  /\ queue' = [queue EXCEPT ![i] = IF KeepResult = 0 THEN "none" ELSE "result"]
  /\ keep' = [keep EXCEPT ![i] = KeepResult]

StartJob(i) ==
  /\ queue[i] = "queued"
  /\ Cardinality({k \in JobIds : Running(k)}) < MaxJobs
  /\ queue' = [queue EXCEPT ![i] = "running"]
  /\ step' = [step EXCEPT ![i] = IF i = Account THEN "refresh" ELSE "sync"]
  /\ UNCHANGED <<keep, at, plan, state, cronDue, wait, abandoned, bounds>>

EndJob(i) ==
  /\ step[i] = "end"
  /\ FinishJob(i)
  /\ step' = [step EXCEPT ![i] = "off"]
  /\ plan' = IF i = Account THEN {} ELSE plan
  /\ UNCHANGED <<at, state, cronDue, wait, abandoned, bounds>>

-----------------------------------------------------------------------------
(* The jobs.                                                               *)

Eligible == {c \in Chats : state[c] # "running"}

(* refresh_chats, and chats_to_sync: the most recent chats, up to a limit. *)
RefreshChats ==
  /\ step[Account] = "refresh"
  /\ plan' \in {S \in SUBSET Eligible :
                  \/ Cardinality(S) = MaxChats
                  \/ S = Eligible /\ Cardinality(S) < MaxChats}
  /\ step' = [step EXCEPT ![Account] = "sync"]
  /\ UNCHANGED <<queue, keep, at, state, cronDue, wait, abandoned, bounds>>

(* sync_chat begins: sync_state is RUNNING. *)
BeginSync(i, c) ==
  /\ step[i] = "sync" /\ at[i] = None
  /\ IF i = Account THEN c \in plan ELSE c = i
  /\ at' = [at EXCEPT ![i] = c]
  /\ plan' = IF i = Account THEN plan \ {c} ELSE plan
  /\ state' = [state EXCEPT ![c] = "running"]
  /\ abandoned' = abandoned \ {c}
  /\ UNCHANGED <<queue, keep, step, cronDue, wait, bounds>>

(* It ends: idle, done, or failed; a failure does not stop the account job. *)
EndSync(i, result) ==
  /\ at[i] # None
  /\ state' = [state EXCEPT ![at[i]] = result]
  /\ at' = [at EXCEPT ![i] = None]
  /\ step' = [step EXCEPT ![i] = IF i = Account THEN "sync" ELSE "end"]
  /\ UNCHANGED <<queue, keep, plan, cronDue, wait, abandoned, bounds>>

AllVisited ==
  /\ step[Account] = "sync" /\ at[Account] = None /\ plan = {}
  /\ step' = [step EXCEPT ![Account] = "end"]
  /\ UNCHANGED <<queue, keep, at, plan, state, cronDue, wait, abandoned, bounds>>

(* Mutated: SyncPaused leaves the chat as it is. *)
Unpaused_Not(i) == UNCHANGED state

(* Mutated: the chat gets a state the enumeration lacks. *)
Unpaused_New(i) ==
  IF at[i] = None THEN UNCHANGED state ELSE state' = [state EXCEPT ![at[i]] = "paused"]

Unpaused(i) ==
  IF at[i] = None THEN UNCHANGED state 
  ELSE \E s \in {"idle", "done"} : state' = [state EXCEPT ![at[i]] = s]

Delay(w) == IF w > MaxDelay THEN MaxDelay ELSE w

(* A FloodWait: the chat is idle (or done), and the job enqueues its own id *)
(* with a delay; the rest of an account's chats is left for that run.       *)
Flood(i) ==
  /\ step[i] = "refresh" \/ at[i] # None
  /\ floods < MaxFloods
  /\ floods' = floods + 1
  /\ Unpaused(i)
  /\ at' = [at EXCEPT ![i] = None]
  /\ step' = [step EXCEPT ![i] = "requeue"]
  /\ \E w \in Waits : wait' = [wait EXCEPT ![i] = Delay(w)]
  /\ UNCHANGED <<queue, keep, plan, cronDue, abandoned, deaths, aborts>>

Requeue(i) ==
  /\ step[i] = "requeue"
  /\ Enqueue(i)
  /\ step' = [step EXCEPT ![i] = "end"]
  /\ UNCHANGED <<keep, at, plan, state, cronDue, wait, abandoned, bounds>>

(* job_timeout, or an exception that sync_chat or refresh_chats lets out.  *)
Abort(i) ==
  /\ step[i] \in {"refresh", "sync"}
  /\ aborts < MaxAborts
  /\ aborts' = aborts + 1
  /\ FinishJob(i)
  /\ step' = [step EXCEPT ![i] = "off"]
  /\ at' = [at EXCEPT ![i] = None]
  /\ abandoned' = abandoned \cup ({at[i]} \ {None})
  /\ plan' = IF i = Account THEN {} ELSE plan
  /\ UNCHANGED <<state, cronDue, wait, floods, deaths>>

-----------------------------------------------------------------------------
(* Time, the worker and the buttons.                                       *)

Tick ==
  /\ ~cronDue
  /\ cronDue' = TRUE
  /\ keep' = [i \in JobIds |-> IF keep[i] > 0 THEN keep[i] - 1 ELSE 0]
  /\ wait' = [i \in JobIds |-> IF wait[i] > 0 THEN wait[i] - 1 ELSE 0]
  /\ queue' = [i \in JobIds |-> IF queue[i] = "result" /\ keep[i] <= 1 THEN "none" ELSE queue[i]]
  /\ UNCHANGED <<step, at, plan, state, abandoned, bounds>>

(* incremental_sync_all *)
Cron ==
  /\ cronDue
  /\ cronDue' = FALSE
  /\ Enqueue(Account)
  /\ UNCHANGED <<keep, step, at, plan, state, wait, abandoned, bounds>>

(* start_sync, start_chat_sync, and the sync a login kicks off. *)
Press(i) ==
  /\ Enqueue(i)
  /\ UNCHANGED <<keep, step, at, plan, state, cronDue, wait, abandoned, bounds>>

(* Mutated: the worker starts without resetting anything. *)
ResetStuckSyncs_Not == UNCHANGED state

ResetStuckSyncs == state' = [c \in Chats |-> IF state[c] = "running" THEN "idle" ELSE state[c]]

(* A reset that fails is logged, and the worker starts all the same. *)
ResetOnStart ==
  \/ ResetStuckSyncs /\ abandoned' = {}
  \/ UNCHANGED state /\ abandoned' = {c \in Chats : state[c] = "running"}

(* ARQ runs a job again that died with its worker, whatever wait it was about to report. *)
WorkerRestart ==
  /\ deaths < MaxDeaths
  /\ deaths' = deaths + 1
  /\ ResetOnStart
  /\ queue' = [i \in JobIds |-> IF Running(i) THEN "queued" ELSE queue[i]]
  /\ step' = [i \in JobIds |-> "off"]
  /\ at' = [i \in JobIds |-> None]
  /\ plan' = {}
  /\ wait' = [i \in JobIds |-> IF Running(i) THEN 0 ELSE wait[i]]
  /\ UNCHANGED <<keep, cronDue, floods, aborts>>

-----------------------------------------------------------------------------
Init ==
  /\ queue = [i \in JobIds |-> "none"]
  /\ keep = [i \in JobIds |-> 0]
  /\ step = [i \in JobIds |-> "off"]
  /\ at = [i \in JobIds |-> None]
  /\ plan = {}
  /\ state = [c \in Chats |-> "idle"]
  /\ cronDue = TRUE
  /\ wait = [i \in JobIds |-> 0]
  /\ abandoned = {}
  /\ floods = 0 /\ deaths = 0 /\ aborts = 0

Progress(i) ==
  \/ EndJob(i) \/ Requeue(i)
  \/ i = Account /\ (RefreshChats \/ AllVisited)
  \/ \E c \in Chats : BeginSync(i, c)
  \/ \E r \in {"idle", "done", "failed"} : EndSync(i, r)

Next ==
  \/ \E i \in JobIds : StartJob(i) \/ Progress(i) \/ Flood(i) \/ Abort(i) \/ Press(i)
  \/ Tick \/ Cron
  \/ WorkerRestart

Spec == Init /\ [][Next]_vars

(* The worker takes jobs off the queue in their order and runs them, its    *)
(* cron fires, and time passes.                                            *)
LiveSpec ==
  /\ Spec
  /\ WF_vars(Tick \/ Cron)
  /\ \A i \in JobIds : SF_vars(StartJob(i) \/ Progress(i))

-----------------------------------------------------------------------------
(* Properties.                                                             *)

(* Every variable keeps to the values the code can give it. *)
TypeOK ==
  /\ queue \in [JobIds -> {"none", "queued", "running", "result"}]
  /\ keep \in [JobIds -> 0..KeepResult]
  /\ step \in [JobIds -> {"off", "refresh", "sync", "requeue", "end"}]
  /\ at \in [JobIds -> Chats \cup {None}]
  /\ plan \subseteq Chats
  /\ state \in [Chats -> {"idle", "running", "done", "failed"}]
  /\ cronDue \in BOOLEAN
  /\ wait \in [JobIds -> 0..KeepResult]
  /\ abandoned \subseteq Chats
  /\ floods \in 0..MaxFloods /\ deaths \in 0..MaxDeaths /\ aborts \in 0..MaxAborts

(* A chat shown as running is being synced, unless its job was aborted or   *)
(* the reset of a restart failed: no overlap, no pause and no other restart *)
(* leaves a chat that no account job may select.                           *)
RunningIsBeingSynced ==
  \A c \in Chats : state[c] = "running" => c \in abandoned \/ \E i \in JobIds : at[i] = c

(* What the states of the chats are at any moment, whichever job runs them.  *)
JobsInv == TypeOK /\ RunningIsBeingSynced

(* No retry storm: a job that has ended because Telegram told it to wait is *)
(* not started again before the wait, or the hour the code cuts it down to, *)
(* is over, whoever presses which button.                                  *)
RetryWaits ==
  [][\A i \in JobIds : (queue[i] = "queued" /\ queue'[i] = "running") => wait[i] = 0]_vars

(* Every chat is synced again and again, however the syncs end, but for     *)
(* what chats_to_sync leaves out: a chat whose job was aborted, or that was *)
(* running when a worker came up without its reset, until a later reset or  *)
(* the chat's own button frees it.                                         *)
EveryChatIsSynced ==
  \A c \in Chats : []<>(c \in abandoned \/ \E i \in JobIds : at[i] = c)

(* A paused job puts itself back into the queue. *)
PausedIsRequeued ==
  [][\A i \in JobIds : (step[i] = "end" /\ step'[i] = "off" /\ wait[i] > 0)
                         => queue'[i] = "queued"]_vars
=============================================================================
