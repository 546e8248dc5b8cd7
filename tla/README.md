# tg-ai-analyzer in TLA+

TLA+ modules, TLC configurations and machine-checked proofs for tg-ai-analyzer,
a Telegram assistant made of three processes (bot, API, worker) over one
PostgreSQL database and one Redis. Everything is translated from the code under
`src/`; the documentation of the repository is used only to state what it
promises.

- [1. The system](#1-the-system)
- [2. Modules](#2-modules)
- [3. What is checked](#3-what-is-checked)
- [4. Fairness](#4-fairness)
- [5. What is proved](#5-what-is-proved)
- [6. Disagreements between code and documentation](#6-disagreements-between-code-and-documentation)
- [7. What is not modelled](#7-what-is-not-modelled)
- [8. Plan](#8-plan)

Paths below are relative to `src/src/app/` unless they begin with `src/`.

## 1. The system

### Parts, their state and their operations

| Part | State | Operations |
|---|---|---|
| Write actions (`services/actions.py`, `services/write_tools.py`, `web/routers/actions.py`, `mtproto/guard.py`) | rows of `agent_actions`; `chats.write_mode`; the cached set of protected peers | propose, keep or execute at once, confirm, reject, expire, execute; change the write mode |
| Synchronising a chat (`services/ingestion.py`) | `messages`; `chats.synced_min_id`, `synced_max_id`, `sync_state` | pull new messages, pull old ones, move the marks, finish, pause, fail |
| Synchronisation jobs (`worker/*.py`, `web/routers/tg.py`) | ARQ's queue, running jobs and kept results in Redis; `chats.sync_state` | enqueue, run, re-enqueue after a pause, the ten-minute cron, the buttons, the reset at start |
| Login (`services/auth_flow.py`, `web/routers/auth.py`) and accounts (`services/accounts.py`, `services/session_store.py`) | flows with a client each in the API's memory; `users`, `accounts` with the encrypted session | start, code, password, cancel, collect old flows; link the account |
| Auto-reply (`services/autoreply.py`) | `auto_reply_rules.last_processed_msg_id` | edit a rule; every five minutes answer what is new |
| Client pool (`mtproto/pool.py`, `client.py`) | one client per account and a cache of its dialogs, in memory | connect, list dialogs, read messages, revoke, close |
| Agent and conversations (`services/agent.py`, `tools.py`, `chat_service.py`, `limits.py`) | `conversations`, `conversation_messages`, `agent_runs` | the rounds of a turn, the fall to direct mode, the daily budget |
| LLM access (`llm/`) | HTTP clients; the CLI process of Claude Code | resolve a provider, call, retry, fall back |
| Search, digests, images, statistics (`services/`) | `chat_digests`, `generated_images` and files, metric snapshots | read-only queries; caches before an LLM call; snapshot jobs |
| Web and bot shells | signed cookies, rate limiter in memory | routing, rendering, menus |

### How they interact

The API and the worker share only the database and Redis. A request handler is
one transaction (`db/base.py`, `session_scope`): it commits at the end and rolls
back when an exception leaves it, READ COMMITTED, with long awaits (LLM,
Telegram) in the middle. The agent calls write tools inside its transaction; the
routes of actions call `execute_action` in one of their own; auto-reply calls the
same write tools from the worker. A login ends with a row of `accounts` and
enqueues the first synchronisation. Jobs write `messages`, which search, digests
and auto-reply read. Telegram and the LLM are outside every transaction: what
they have done stays done.

### What is hard

- transactions that read, wait for Telegram, and write what they had computed
  before; row locks taken by a flush only; rollbacks that undo an outcome the
  user has already been told;
- deliveries whose answer is lost;
- jobs that overlap, pause, time out or die between two transactions, and marks
  that have to claim exactly what has been stored;
- deterministic job ids that a running job, or the kept result of an old one,
  blocks;
- handlers that keep a reference to a login that others cancel, collect or
  complete, and a lock they queue for;
- counters that are read in one statement and relied on in another (write
  rate, accounts, images, budgets).

`PROJECT.json` lists each of these under "hazards" with its line.

### What makes each part correct

Write actions: one call per decision, nothing on credit, no write to a protected
peer, a table that only grows and tells the truth. Synchronisation: between its
marks a chat is complete; history arrives in the end; a finished job is current.
Jobs: no chat is stuck without a reason that is known, no wait is cut short by another job, everybody's turn comes again.
Login: one conversation with Telegram at a time, bounded guesses, no account
without Telegram's grant, no client left connected. Auto-reply: a message is
answered once, not in the depth of the night, not above the limits, and none is forgotten. Pool:
one client, no revocation of a fresh login, no lock left behind. Content: a cached digest is of the messages it is served for;
files and rows agree; every message is embedded. A turn: whole or not there at
all, with a result for each call of the model, within its budgets. The pure
parts: what goes into a prompt, to which provider, and into which window of time.

## 2. Modules

| Module | What it is | Lines of code it stands for |
|---|---|---|
| `ActionLedger` | abstract: a table to which rows are only added, whose call is fixed and whose status moves along given edges | the trigger in `src/migrations/versions/0001_initial.py`, `db/models.py` |
| `WriteActions` | the write path in interleaved transactions; refines `ActionLedger` | `services/actions.py`, `write_tools.py`, the routes, the guard |
| `ChatSync` | one chat: `sync_chat`, its two pulls and two marks | `services/ingestion.py` |
| `SyncJobs` | one account: which job syncs which chat when | `worker/tasks.py`, `queue.py`, `settings.py`, `web/routers/tg.py` |
| `AuthFlow` | logins, their lock and clients, and the rows they become | `services/auth_flow.py`, `accounts.py`, `web/routers/auth.py`, `bot/middlewares.py` |
| `AutoReply` | one rule: overlapping runs of the cron, their limits and the cursor | `services/autoreply.py`, `process_autoreplies` |
| `ClientPool` | one account's clients in one process | `mtproto/pool.py`, `client.py`, `services/session_store.py` |
| `Content` | what an LLM makes and the database keeps: digests and images, asked for again and again in one turn's transaction | `services/digests.py`, `images.py`, `build_daily_digests` |
| `Embedding` | overlapping runs of `embed_messages` | `worker/tasks.py` |
| `ChatTurn` | questions of a day: the agent's rounds, direct mode, budgets, deletion, ratings | `services/agent.py`, `chat_service.py`, `limits.py`, `evaluation.py` |
| `Search`, `Tools` | operators: which messages and which chat go into a prompt | `services/search.py`, `tools.py`, `resolve_context` |
| `LLMCalls` | operators: providers, retries, conversations and replies in each vendor's form | `llm/*.py` |
| `Metrics`, `Limits` | operators: snapshots, statistics of a period, the sliding window | `services/ingestion.py`, `analytics.py`, `web/security.py` |
| `Orders` | operators: a finite set in an order, a sequence at some of its positions | `sorted` and comprehensions in the modules above |
| `Calculations` | the operators of the six modules above, applied to every input of a set, and what the callers make sure of about it (`...Case`) | their callers |
| `WriteActionsProofs`, `ChatSyncProofs`, `AuthFlowProofs`, `AutoReplyProofs`, `ClientPoolProofs`, `ContentProofs`, `ChatTurnProofs`, `CalculationsProofs` | theorems about the module of the name, and the lemmas they rest on; those about `SyncJobs` are the last part of `CalculationsProofs` | |
| `MC...` | constants, inputs and symmetry for TLC | |

Definitions whose name ends in `_Something` and whose comment begins with
*Mutated* are wrong variants of the definition that follows; nothing uses them.
They document which mistake each property would catch.

### WriteActions

A handler `t` is one transaction. `row` is what is committed; `pend[t]` is what
`t` has flushed and not committed; `lock` is the row lock a flush takes. `pc[t]`
walks through the awaits of the code:

- `BeginAgent`, `ProposeTool` (`build_proposal` and the insert), `KeepProposal`
  or `ExecuteAutonomous` (`propose_or_execute`), `AgentCommit`, `AgentFail` are
  the turn of `run_agent`. Several tool calls may follow each other; read tools
  change nothing here. A turn without a writable chat has no write tool and is
  left out (the guard of `BeginAgent`).
- `ConfirmAction`, `ConfirmExpired`, `RejectAction` are the routes up to the
  first flush: the row is read without a lock and the new row is *computed
  then*. `FlushConfirmed`, `FlushRejected`, `FlushExpired` wait for the lock and
  write what was computed.
- `GuardAndRate`, `CheckMode`, `Deliver`, `Refuse`, `AnswerLost`,
  `AnswerConfirmed`, `AnswerAutonomous` are `execute_action`.
- `SetChatWriteMode` is the check and `WriteMode` the flush and commit of
  `set_chat_write_mode`.
- `Abandon`, `Restart` are an uncaught exception and a dead process.

Ownership (`_owned`) is abstracted: a request for somebody else's row raises
before it touches anything. `CheckMode` does not read again in an agent turn,
because the session's identity map returns the object the turn has just read.
`DEFAULT_WRITE_MODE=autonomous` is excluded by an assumption: with it several
chats are autonomous from the start.

### ChatSync

`tg` is what Telegram has, `stored` the rows, `smin`/`smax` the marks, `job[j]`
the local variables of one `sync_chat`. `Begin` is its first transaction,
`Connect` chooses the phase, `Pull` is one batch and its upsert, `ProgressRead`
and `ProgressWrite` the two halves of `_progress`, `Finish` is `_finish`. A
batch is up to `Batch` stored messages; service messages count against the
budget but are not stored. `Flood`, `Error`, `Abort` and `WorkerRestart` are the
four ways to stop early; a restart resets a chat that is still RUNNING, or fails to and
starts all the same (`worker/settings.py:52`). `Stuck` is a chat that has been left
RUNNING by an aborted job or such a restart: `chats_to_sync` leaves it out until the
button is pressed or a later reset succeeds, and `HistoryArrives` says so. `NewMessage` and `DeleteMessage` are other people. The
rule `not synced_max and not synced_min and fetched == 0` of `_pull` is
subsumed by `Beginning`. Message columns, embeddings and chunks are left out.
`base`, `torn` and `split` are history variables for the properties: the newest
message of the first synchronisation that left both marks, whether a pull of new
messages was ever interrupted, and whether two first synchronisations have ever
been at work together (`First`: a job that found no mark at all, before it has
left one). The last two name the situations in which the code does leave a hole,
see section 6; the properties are about all others.

### SyncJobs

`queue[i]` is what ARQ knows about the deterministic id `i` (a chat, or the
account): nothing, queued, running, or a kept result. ARQ is external and
modelled by how the code uses it: an id that is known in any way is refused, a
job that dies with its worker runs again, a timed-out job is cancelled. `step`,
`at` and `plan` are the local state of `sync_account` and `sync_one_chat`. One
sync is abstracted to its outcome (that is `ChatSync`). A tick is ten minutes.
Telegram may ask for any wait (`Waits`); `Delay` cuts it down to an hour (`MaxDelay`),
as the code does. `ResetOnStart` works or fails; `abandoned` remembers the chats that
an aborted job or a failed reset has left RUNNING.

### AuthFlow

A step is what a handler does between two awaits of the API's single event
loop. `flow`, `store`, `connected`, `lock` are the API's memory; a handler keeps
its flow when it leaves the store. `granted` is what Telegram has given to a
flow's client, also when the answer was lost. `Submit` and `GetLock` run up to
`sign_in`; `Accepted`, `Refused`, `CodeIsDead`, `SignInLost`, `GetMeLost` are its
outcomes; `Complete` runs to the transaction of `link_account`, whose statements
are `ReadUser` ... `Commit`. Inserts of the same key wait for each other as in
PostgreSQL. `Meet` is the bot, which inserts the same user.

### AutoReply

`rule` is the row with its cursor, `active` the status of its account, `run[r]` the
local variables of a run of
`process_rule`, `acts` the committed rows of answers, `delivered` what Telegram
has got. `Open` is everything up to the loop; `Judge` the loop up to the next
match, its two limits included; `NoDraft` and `Propose` are the two outcomes of a
match; `Save` writes the cursor and commits. `Raise` is an exception that the job
catches *inside* `session_scope`, so that what has been made is committed and the
cursor is not; `Die` is a timeout or a death, which rolls back. Messages are
stored in any order, as the ingestion does. `risky` and `start` are history
variables: which messages were in the list of a run that overlapped or did not
save, and where the rule began. Messages and drafts have no text: whether one
matches is the constant `Matching`.
The clock is the `hour` of a day that comes round for ever, and rows have an age instead
of a time: that of the transaction they are made in, which is PostgreSQL's `now()` and so
what the hourly count sees. A `Tick` may come between any two steps, so that a run that
has looked at the clock answers in the next hour too; it does not outlast that one,
because the job has a time limit of ten minutes.

### ClientPool

A coroutine `op[q]` walks through `_entry` (`Enter`, `Load`, `Connect`,
`ConnectFails`), `_mark_revoked` (`Disconnect`, `RevokeRow`, `Pop`, an await after
each), `dialogs` (`Dialogs`, `List`) and a request (`Request`, `Answer`), which the guarded
client may also block.
Reading messages calls `_entry` up to three times, and each call may return
another client: `got` has them all. Clients to which nobody refers any more are
collected, connected ones counted in `stray`. `Terminate`, `Drop`, `Close`
and `StoreSession` are the environment and a login. Which requests the client blocks
(`mtproto/allowlist.py`) is not modelled: it is five fixed lists and a lookup of the
outermost request.

### Content

`tx[t]` is a user's turn or the nightly job, one transaction. A turn that is `"ready"` may
`Ask` for a digest or an image again and again, or end: it keeps the digest row it has
written (`Own`) and all the rows of its images (`mine`), and what it reads includes them.
`ReadDay` ... `WriteDigest` are `digest_for_day`, `CountImages` and `Paint` are
`generate`, `Commit`, `Abort`, `Broken` the ends of a transaction. `keyHolder` is the lock
of the row's unique key: a second INSERT waits, and fails when the first
one commits. The number of messages stands for the messages, because rows of
`messages` are never deleted; edits of a text are left out. `lost` is a history variable:
the images of turns that have failed.

### Embedding

`left[r]` is the set of messages that run `r` has selected, `Newest(S, n)` the batch that
it takes of them. A batch is a transaction; it fails as a whole when another run has
embedded one of its messages. It shares no state with `Content` but the messages, and is
checked in the same run, in behaviours of its own (`MCContent`).

### ChatTurn

`req[q]` is one request of the chat route, a single transaction: `mine` are its
uncommitted rows, `prompt` the calls and results since the question, `todo` the
calls of the last reply without a result. `Model`, `Tool`, `EndTools`, `Final`
are the loop of `run_agent`; `FallBack` is the `except LLMError` of
`send_message`, which goes on in the same transaction; `Context`, `Question`,
`Answer`, `EndDirect` are direct mode. `Context` may call the model for every day and
chunk of a long window that has no digest yet, and all of that is counted in the turn:
up to `MapCost` calls. `Delete` waits for the locks of foreign
keys. `Judge`, `WriteJudgement` and `Rate` come after the answer. `Crash` ends
the API. One model call costs one unit of the day's budget. `Rate` is one step: two
ratings of one answer at the same time are left out. Model calls that a *tool* makes
(digests, images) are not counted by the code either. What a tool does is
its length, whether it left a row of a write tool, and whether the database has
refused a statement; the rows themselves are the subject of `WriteActions`.

### Calculations

A case is an operator's name and an input; the one step answers it. The
operators are in modules of their own, so that no case repeats how another is
computed, and the properties say what an answer must be in terms that the
operators do not use: fusion in terms of the places in both lists, parts by their
concatenation, statistics by adding up two adjoining periods, the rate limiter
by all accepted requests of a window, the chat of a tool by its account, a
conversation by the place of each result. Words of a question, matches of the
text search, model names are flags and model values.

`ContextCase`, `ConvertCase` and the other eleven say which inputs there are: a chat
is in the order of its ids, the results of a round of calls follow at once and in
their order, a clock does not go back, a ranking has no message twice and at most
1000 (`LongRanking`; the code asks for a few dozen). `CalculationsAssumption` requires it of
`Cases`; TLC checks it of the inputs of `MCCalculations`, the theorems have no other
hypothesis.

## 3. What is checked

| Run | Instance | What it shows |
|---|---|---|
| `wa_races` | 1 proposal, 2 handlers, 1 chat, either configuration of protected peers, each row sent for execution at most twice, 2 hours | `TypeOK`, `OneCallInFlight`, `DeliveriesAreAsked`, `ExecutedWasDelivered`, `ProtectedNeverWritten`, the refinement `LedgerKept`, and `HandlersFinish`: nobody waits for a row lock for ever |
| `wa_serial` | 2 proposals, 1 handler, 2 chats of one account | `LimitsRespected` (hourly rate, one autonomous chat), `AnswersStand`, `DocumentedLifecycle`: what the documentation promises holds when handlers do not overlap (crashes, lost answers and expiry included) |
| `wa_failure` | 1 handler | *violated*: `OutcomeIsRecorded` |
| `cs_history` | 1 job at a time, 3 old and 2 new messages, budget 2 | `SyncInv` (types, `BackfillHasNoHole`), `HistoryArrives`, with two interruptions, one aborted job or failed reset |
| `cs_overlap` | 2 jobs of one chat with one message at the start and three to come, budget 2, batches of 1, one interruption | `RestsWithoutHole`, `FinishedIsCurrent` |
| `sj_jobs` | 2 chats and their account, 2 jobs at a time, a flood with a short wait or one above the cap, two deaths with a reset that works or fails, a timeout | `JobsInv` (types, `RunningIsBeingSynced`), `RetryWaits`, `EveryChatIsSynced` |
| `af_login` | 2 logins, 2 requests, 2 people of whom 1 is allowed | `LoginInv` (types, `OneSignIn`, `LocksAreFreed`), `GuessesBounded`, `LinkedWasVerified`, `NoLeakedClient` |
| `ar_cron` | 2 runs that may overlap, 2 messages that match, limits of 1, a night across midnight, a fault or an edit | `ReplyInv` (types, `AnsweredOnce`), `HourlyLimit`, `AtMostOneIsDropped`, `NightsAreQuiet`, `CursorCatchesUp` |
| `cp_reads` | 2 coroutines, 2 sessions, one lost connection | `PoolInv` (types, `FewClients`), `LoginStays`, `CallsEnd` |
| `ct_day` | 2 transactions, 3 messages, 2 images a day and up to 3 of each transaction; or 2 runs of the embeddings, 3 messages, 1 error | `ContentInv` (types, `RowsHaveFiles`), `CachedIsOfTheDay`, `ImagesLimited`, `EverythingIsEmbedded` |
| `ch_turns` | 2 requests, 3 questions, 2 rounds of up to 3 calls of which 2 are served, windows of up to 3 digests, budgets of 2 and 1 | `TurnInv` (types, `WholeTurns`, `CallsAreAnswered`, `ProposalsAreShown`), `SpendingIsBounded` (`ResultsWithinBudget`, `DayWithinBudget`), `RatingsStand`, `TurnsEnd` |
| `al_cases` | some 21,000 inputs | `PromptsAreFit` (`ContextIsUsable`, `FusionIsFair`, `PartsAreWhole`, `ToolsStayInside`), `ModelCallsAreSound` (`TaskIsServed`, `RetriesAreSpent`, `ResultsFollowCalls`, `RepliesComeBack`), `WindowsAreExact` (`SnapshotsKeepUp`, `StatsAddUp`, `RateIsLimited`) |

An invariant in parentheses is a conjunct of the one before it: the parts are named
in the modules, and each has a mutated definition beside it that breaks it.

Deadlock is checked but in two runs. In `ch_turns` the questions of the
day have been asked and rated, or the conversation deleted; in `al_cases` the one
answer has been given. Nothing is left to do there, by the bounds.

### The bounds, and why they are enough

- Two handlers, jobs or requests: every race in this code is between a reader
  that goes on with an old value and one writer, or between two of the same
  kind. The theorems of section 5 remove
  this bound for every invariant and action property.
- `MaxAsked = 2` lets a row be executed again after a lost answer; `TTL = 1` lets a
  proposal expire within `MaxTime = 2` hours, and in `wa_serial` a delivery leave the
  rate window.
- The budget of `ChatSync` is smaller than the history, so that a backfill needs
  several jobs; one message is a service message and every message of the first
  history may be deleted; a batch is smaller than the budget.
- `MaxCuts`, `MaxAborts`, `MaxFloods`, `MaxDeaths`, `MaxErrors`, `MaxLost` bound failures,
  `MaxTroubles` failures and edits, `MaxTurns` requests, and `MaxImages` the images a
  provider delivers to one of `Txs`:
  they guard the actions that fail, ask or deliver, never those that finish a request.
- `SyncJobs` has `KeepResult = 1` tick; a longer one (ARQ's is 3600 s)
  only delays. One of the `Waits` is longer than the hour, here a tick, at which the code
  cuts it (`MaxDelay`).
  `MaxChats` is at least the number of chats: below it, `chats_to_sync` chooses
  the most recently active chats and may leave an old one out for ever, by intent.
- `MaxCodeAttempts` is 2: the password step then has attempts of its own.
- The runs of `ChatSync` begin with a chat that has messages, see section 6.
- `AutoReply` has limits of 1 and two matching messages, so that the limit of a run
  and of the hour are reached, and a day of three hours with a quiet interval
  from the last hour into the first, so that midnight lies inside it.
- `ClientPool` has two sessions, the one of the start and the one of a login that
  may come at any moment; `MaxClients` is above what can be referred to at once.
- `Content` lets a turn ask for one image more than the limit of two, and two turns make
  two each: the bound of `ImagesLimited` is reached.
- `Embedding` takes two messages of three in batches of one: a run leaves some for
  the next, and may lose the second batch after the first is committed.
- `ChatTurn` lets the digests of a window cost more than all rounds of an agent, the model ask for one call more than is served, gives every result
  the whole budget, so that the second is always cut, and a day one model call.
- `Calculations` has chats of up to four messages with room for two or three,
  chats of two accounts that one name or number matches, all four providers with
  every pair of configured and fallback, prompts of two rounds with up to three
  calls, all ages around the borders of the tiers, and six hours of requests
  against a window of three.

Symmetry is used for invariants and for action properties whose formula is
symmetric, never in a run with a liveness property.

Every property of a passing run is checked against a mutant of a definition it
depends on (`PROJECT.json`, "mutants"): TLC finds the property violated there.

## 4. Fairness

- `WriteActions!LiveSpec`: weak fairness of each handler's own steps, because the
  event loop runs every ready callback and a call to Telegram ends with an answer
  or a timeout. Strong fairness of the three flushes, because PostgreSQL serves
  the waiters of a row lock in order. No fairness of requests, of the clock, of
  crashes.
- `ChatSync!LiveSpec`: weak fairness of a job's own steps and of being selected
  again, because the cron brings the account job back every ten minutes. Nothing
  has to fail, nobody has to press a button.
- `SyncJobs!LiveSpec`: weak fairness of the clock and the cron; for each job strong
  fairness of its start and its steps. ARQ takes queued jobs in the order of their
  score, so that a queued job is not overtaken for ever while slots come free.
- `AuthFlow` has only safety properties: a flow that nobody asks for stays.
- `AutoReply!LiveSpec`: weak fairness of the clock, of a run and of the cron that starts
  it every five minutes. Strong fairness of a start, and of `Open`, in an hour that is not
  quiet (`Awake`): twelve starts fall into every hour, and hours come round. `CursorCatchesUp`
  assumes that from some time on the rule stays enabled, its chat writable and its account
  active; no hour stands still for it.
- `ClientPool!LiveSpec`: strong fairness of a coroutine's own steps: `asyncio.Lock`
  wakes the waiting in their order, and calls to Telegram have time limits.
- `Embedding!EmbedFairness`: weak fairness of a run's steps, and of its start, which a
  cron repeats every fifteen minutes. `Content` has only safety properties.
- `ChatTurn!LiveSpec`: weak fairness of a request's own steps: providers, pool and
  database answer or time out. Nothing has to be asked, rated or deleted.

## 5. What is proved

Every state invariant and every action property that a passing run checks, for any
number of handlers, jobs, requests, runs and coroutines and any bounds, and for
inputs of any length; only what is said of one handler at a time in `wa_serial` keeps
that hypothesis. Each theorem of a property says `Spec => []P` for an
invariant `P` and `Spec => P` for an action property or a refinement.

| Module | Theorem | Property |
|---|---|---|
| `WriteActionsProofs` | `TypeCorrect` | `TypeOK` |
| | `ExecutionIsExclusive` | `OneCallInFlight` |
| | `ExecutedIsTrue` | `ExecutedWasDelivered` |
| | `NoProtectedDelivery` | `ProtectedNeverWritten` |
| | `NoDeliveryOnCredit` | `DeliveriesAreAsked` |
| | `LedgerRefined` | `LedgerKept`: the refinement of `ActionLedger` |
| | `SerialAnswersStand`, `SerialLimits`, `SerialLifecycle` | `AnswersStand`, `LimitsRespected`, `DocumentedLifecycle`, for one handler at a time |
| `ChatSyncProofs` | `BackfillIsWhole` | `SyncInv` |
| | `MarksTellTheTruth` | `RestsWithoutHole` |
| | `FinishedJobsAreCurrent` | `FinishedIsCurrent` |
| `CalculationsProofs` | `PromptsHold` | `PromptsAreFit` |
| | `CallsHold` | `ModelCallsAreSound` |
| | `WindowsHold` | `WindowsAreExact` |
| | `PromptIsUsable`, `FusionKeepsBoth`, `PartsMakeTheWhole`, `ToolShowsItsAccount` | the parts of `PromptsAreFit`, of the operators |
| | `ClaudeKeepsResults`, `OpenAIKeepsResults`, `CallsComeBack` | of `ModelCallsAreSound` |
| | `SnapshotsInTime`, `StatsAreWhole`, `LimitIsExact` | of `WindowsAreExact` |
| | `BatchesAreTheBeginning` | what an interrupted snapshot has stored |
| `CalculationsProofs`, of `SyncJobs` | `JobsAreSound` | `JobsInv` |
| | `RetriesWait` | `RetryWaits` |
| `AuthFlowProofs` | `LoginsAreSound` | `LoginInv` |
| | `GuessesAreBounded` | `GuessesBounded` |
| | `OnlyVerifiedIsLinked` | `LinkedWasVerified` |
| | `NoClientLeaks` | `NoLeakedClient` |
| | `AccountsStayNearLimit` | `AccountsNearlyLimited`, which no run lists: how far `MAX_ACCOUNTS` can be exceeded |
| `AutoReplyProofs` | `RepliesAreSound` | `ReplyInv` |
| | `AnswersKeepTheNight` | `NightsAreQuiet` |
| | `HourIsLimited` | `HourlyLimit` |
| | `LimitsDropOne` | `AtMostOneIsDropped` |
| `ClientPoolProofs` | `PoolKeepsToItsTypes`, `PoolStaysSmall` | `PoolInv` and the types it rests on |
| | `FreshLoginsStay` | `LoginStays` |
| `ContentProofs` | `ContentIsSound` | `ContentInv` |
| | `CacheIsOfTheDay` | `CachedIsOfTheDay` |
| | `ImagesAreLimited` | `ImagesLimited` |
| `ChatTurnProofs` | `TurnsAreSound` | `TurnInv` |
| | `UserRatingsStand` | `RatingsStand` |
| | `SpendingStaysBounded` | `SpendingIsBounded` |

### From which assumptions

Each module of a component names one assumption on its constants
(`ConstantsAssumption` and `NoneAssumption`, `SyncAssumption`, `JobsAssumption`,
`AuthAssumption`, `AutoReplyAssumption`, `PoolAssumption`, `ContentAssumption`, `ChatTurnAssumption`, and those of the operators,
`SearchAssumption`, `ToolsAssumption`, `LLMCallsAssumption`, `MetricsAssumption`,
`LimitsAssumption`, `CalculationsAssumption`): bounds are naturals, limits of
the configuration positive, `None` is nobody, and, where a property counts them,
the handlers, runs, requests or coroutines are finitely many. Nothing is assumed
on how many there are, except that `AccountsStayNearLimit` is about one or more. Two are more than typing: the cap of a wait in `SyncJobs` is no longer than ARQ
keeps a result (`MaxDelay <= KeepResult`: both are 3600 s; the waits themselves may have any
length), and `MaxId` of `ChatSync` is not 0. The three `Serial...`
theorems assume `Serial == \A t, u \in Txs : t = u`. With more handlers the three
properties are false (section 6); what they add is that the configured rate, the
number of rows, chats and crashes make no difference.

### Along which argument

None of the properties about several actors is inductive by itself. Every module
has one invariant `Inv` of named parts; each part has a lemma for each group of
actions, and the temporal theorems combine them with `PTL`.

**WriteActions.** `OneCallInFlight` is not inductive: two handlers may be at work
on one row unless both hold its lock, and an agent's fresh row has no lock at all:
there it is only because nobody else sees the row.

    Inv == TypeInv /\ Fresh /\ Private /\ Decisions /\ Settled /\ Locks /\ Delivered /\ Guarded

- `TypeInv` adds to `TypeOK` what each place of a handler says about its other
  variables (which kind it runs, that the row it works on exists);
- `Fresh`: the sequence never hands out the id of a committed row;
- `Private`: a row that an agent turn has inserted is seen by that turn alone;
- `Decisions`: a decision is about one committed row, with the same call, that
  nothing can have turned into anything but a decided row;
- `Settled`: what an agent turn has written has a final or open status unless it
  is being executed;
- `Locks`: a confirmation at work holds the lock of its row;
- `Delivered`: "executed" is written, committed and answered only after a delivery;
- `Guarded`: past the guard the target is not protected by the running
  configuration (a restart that changes it ends every handler).

`DeliveriesAreAsked` needs `Funded` on top: it counts handlers that may still send,
so it is about the cardinality of a set that grows and shrinks by one handler. The
serial theorems add `Opened` (a handler works on rows that nobody has decided),
`Modest` (who is about to make a chat autonomous has seen that no other is) and
`Rates` (past the rate check there is room for one delivery more, in what the
handler sees as well as in what is committed).

**ChatSync.** `Inv == TypeOK /\ (~split => Kept)`. `Kept` says of every message
that exists and is not stored where it lies (`Missed`: below the lower mark or above
`base`, outside of whatever a job at work has already passed, and, unless a pull of new
messages was ever interrupted, either newer than all that was marked or in the
range of a pull that is on its way to it); `Shape`, `Placed` and `Reads` say what a job's cursor, range and
copies of the marks mean at each place, `Tops` and `Marks` how the marks lie to
each other. The step that needs most is `Pull`: what lies between two positions of
the cursor has been stored, because a batch takes the newest messages there are.
The first version, without `split`, could not be proved, and TLC then found the
reason: two first synchronisations at once (section 6).

**SyncJobs.** `JobsRun` ties the local step of a job to ARQ's record of it;
`WaitsAreKept`: a wait that is not over belongs to a running job or to a result
that is kept for longer. A failed reset needs no more than `abandoned`: it names all the
chats that are RUNNING at that moment, and whoever syncs one of them takes it out again.

**AuthFlow.** `Locks`: who is at Telegram with a flow holds its lock, and a held lock
has such a holder. `Counted`: codes and passwords asked are among the attempts
written before the request. `Verified`: a handler past a step has a flow whose client
was granted what the step needs, and a granted session, a phone and an owner never
change again. `Limited`: `MAX_ACCOUNTS` does not hold (section 6), and the bound that
does is that the accounts of a user and the requests with `Room` for one more are
together less than `MaxAccounts` plus the number of requests. A request gets room only
when it has counted less than `MaxAccounts`; its commit turns the room into an account.
`Countable` says that only a commit that inserts has room and that any other one finds
its row there. TLC agrees with the bound on three flows, two handlers and a limit of one
(`Logins <- OneOwner`), and finds it violated there when `CountAccounts` lets one account
too many pass; that instance is too large to add to `af_login`, whose two flows never
exceed the limit.

**AutoReply.** `Ruled` (no answer before the rule), `Once` for a message that was in
no risky list: while it is in a list one run is at work (`Alone`); when it has been
answered or passed over the cursor is past it (`Behind`); it has one answer
(`Single`). `Shared` for the hour: the rows of the last hour and what each run may
still add are at most `MaxPerHour` times the runs. What a run may add is written as a
set of pairs of a run and a number, so that a sum becomes a cardinality. `Calm` for the
night: a run at work has begun in an hour that was not quiet, this one or the last, and
`Night`, which counts hours from `quiet_from` on, is what the comparison of `InQuietHours`
comes to in either order of the two limits.

**ClientPool.** `TypeInv` says how many clients a place means to have (`Shape`).
`LoginStays` is short from there; `Kept` is the lemma
that steps only drop references. `FewClients` needs a potential:

    Connected + Spare <= 1 + cuts + (logins - 1) * (Cardinality(Callers) - 1)

`Connected` are all connected clients, strays included. `Spare` is how many more the
pool may come to have before anything else happens: one if the pool is empty and
somebody can fill it (`Owed`), and one for each coroutine at the last step of
`_mark_revoked`, because it will take out of the pool whatever is there. Beside it
`LoneConnect`: who connects holds the account's lock and the pool has no connected client.
Steps leave the sum as it is or lower it, but for a cut connection (one) and a login
(one for every coroutine but one). The
property in its first form, one client for each login, is false for three
coroutines; the attempt to prove it gave the bound it has now.

**Content.** `Digests`: a row and every copy of it in a transaction were made of as many
messages as they say. `RowsHaveFiles` holds because a row and its file are of one turn
until it ends, whatever their number. `PlacesLeft` for the limit: the rows that a slot of
`Txs` has ever made, committed or its own, are at most `DailyImages`, one less while it
paints, since it counts at least these rows (`RowsOf`). The images are then an injection
into `Txs \X 1..DailyImages`.

**ChatTurn.** `Inv` is about one request at a time (`Sound`: what `mine`, `prompt` and
`todo` are at each place, and what the results may cost) and about two
(`Apart`: each has a turn of its own, of which the tables have nothing yet). For the day's budget `SetAside`
puts the largest cost of a turn aside for every request at work, and `Usage` is a
fold over a set of rows. Facts about folds by induction over data are out of reach of the prover,
so the lemmas take another way: a fold over a finite set equals the number of
pairs of a row and a token of it (`TotalIsWeight`), because otherwise there would be a
smallest set, in the well-founded order of strict subsets, where it does not.

**Calculations.** The invariants need no strengthening but that a case stays what it
is; the work is in the operators, which are folds, recursive functions and sorted
sets of any size. The provers cannot instantiate an induction rule whose hypothesis is
an operator, but they can use a set: a set of numbers that has 0 and, with each number
below `n`, the next, has all of them (`UpTo`, from well-founded minimality), and the hypothesis
is put into the definition of the set. On top of it:

- `OneByOne`, the same over the subsets of a finite set.
- `FoldExists`: the recursive function that `FoldLeft` chooses exists; at each position
  it is what the step makes of the one before, so that what the step keeps holds of
  the result. `ClaudeKeepsResults` has the hardest one:
  while a message still waits for results (`Pending`), its copy is the last sent, or the
  last but one and followed by exactly the results that have come.
- What a sum adds up to is, as in `ChatTurn`, the number of pairs of an element and a
  unit of it. Sums over weekdays, hours, adjoining periods and lines are then
  cardinalities of sets that are disjoint and together the whole.
- A sorted set is a bijection that keeps the order: the element of rank `n` is the one
  that `n - 1` others precede. `Orders` says it this way, because `SetToSortSeq` of the
  library chooses a sequence among all, of which the provers do not find that it exists.
- `FitBudget` drops from the front while too much is left; a least position exists, and
  what is left is a suffix with the newest message or that message alone.
- The fusion compares sums of two quotients, which are whole numbers of 1/`Scale`. Two
  neighbouring places never have the same quotient up to rank 1000, and that is where
  `LongRanking` is needed: without it a large rank is rounded to its neighbour's, in
  this model as, further out, in the floating point of the code.

### Only model-checked

- Liveness (`HandlersFinish`, `HistoryArrives`, `EveryChatIsSynced`,
  `CursorCatchesUp`, `CallsEnd`, `EverythingIsEmbedded`, `TurnsEnd`): fairness and
  `ENABLED` are beyond the prover.
- `WriteActions` with overlapping handlers: `AnswersStand`, `LimitsRespected` and
  `DocumentedLifecycle` are false there, and `wa_serial` and its theorems are about one
  handler.
- What the runs show beyond the properties: that every action can happen, and that no
  run but the two named above deadlocks.

## 6. Disagreements between code and documentation

Shown by a run (`PROJECT.json`, "findings"): in `wa_failure`, FAILED and expired are
flushed and rolled back with the request.

Stated by a definition that no run lists, and that TLC finds violated when it is
added to the configuration named here:

- `WriteActions!SentAtMostOnce`, an invariant, in `WriteActions_races.cfg`: one
  proposal can reach Telegram twice (`services/actions.py:3` draws one path to one
  call), after a lost answer or by two confirmations that both read PROPOSED.
- `ChatSync!NoHole`, an invariant, in `ChatSync_history.cfg`: an interrupted pull of
  new messages leaves a hole that is never filled (`src/README.md:107`).
- `SyncJobs!PausedIsRequeued`, a property, in `SyncJobs_jobs.cfg`: a paused job cannot
  re-enqueue itself, because its id is running (`worker/tasks.py:12`); the next cron
  does it.
- `AuthFlow!AccountsLimited`, an invariant, with `Logins <- OneOwner`, three flows,
  two handlers and `MaxAccounts = 2`: two logins of one user that finish together
  exceed `MAX_ACCOUNTS` (`services/accounts.py:53`). `AccountsStayNearLimit` proves by
  how much: by less than the requests that are served at once.

Met while modelling, without a run of their own:

- A chat that was empty at its first synchronisation has `synced_min_id = 1` and
  no `synced_max_id`; neither phase of a later job asks for anything
  (`services/ingestion.py:313` and `:318`, against the docstring at `:286`).
- A job that ARQ cancels after `job_timeout` leaves its chat RUNNING, and
  `chats_to_sync` leaves RUNNING chats out (`services/ingestion.py:550`); only the
  chat's button or the next start of the worker helps. `worker/tasks.py:7`
  promises a synchronisation every ten minutes. The start does not help when its reset
  fails: `worker/settings.py:52` logs that and goes on, with the chats still RUNNING.
- The kept result (3600 s) of an account's job blocks the cron's enqueue of the
  same id (`worker/tasks.py:127`), so that the interval is an hour. The same
  blocking is why `RetryWaits` holds: nothing else remembers the wait. A FloodWait of
  more than an hour is not waited out: `worker/tasks.py:80` and `:89` cut it to an hour
  (`Delay`), and `RetryWaits` is about what is left of it then.
- The job of a chat and the job of its account may run in parallel, although
  `worker/tasks.py:14` and `src/docs/ingestion.md:28` expect the deterministic
  ids to prevent it. If both are the first synchronisation of the chat, each pulls
  from its own newest message down; one that is cut short after a batch leaves a
  lower mark that is below messages the other has not stored, and the marks then
  claim a hole. The proof of `BackfillIsWhole` found this; `split` excludes it.
- `LimitsRespected` and `AnswersStand` fail when two handlers
  overlap (the checks read committed rows only); `wa_serial` shows that this is
  the only reason.
- An autonomous message whose turn fails afterwards leaves no row
  (`services/write_tools.py:8` says every attempt is recorded).
- `_gc` of the login flows runs only when a request asks for a flow
  (`services/auth_flow.py:117`, against the promise in its header at `:16`).
- A lost connection in `submit_code` or `submit_password` is not caught and
  becomes a server error; `start` handles it.
- Auto-reply: the message at which a limit stops a run is marked as processed and
  never answered (`services/autoreply.py:276`); after a death or an exception the
  messages of a run are answered again. `AnsweredOnce` and `AtMostOneIsDropped` say
  how far that goes. The quiet hours are looked at once for a run
  (`services/autoreply.py:257`), so that its last answers may fall into the beginning of
  the night; `NightsAreQuiet` says that they do not go further than its first hour.
- Pool: `mtproto/pool.py:3` promises one connected client. A connection that is cut
  between `connect` and `is_user_authorized` leaves one that nobody disconnects, and
  a login while a client of the old session is in use can be revoked by its next
  read (`LoginStays` excludes that case by `tainted`). The API and the worker have
  a pool each.
- Content: a digest is fresh while the number of messages is the same: an edit
  leaves it stale. Two transactions that insert the same digest: the second fails
  as a whole, although `worker/tasks.py:211` expects the nightly job to go on with
  the next chat. The images of a day are counted among the committed rows and the turn's
  own (`services/images.py:72`): turns at the same time make `image_max_per_day` each
  (`ImagesLimited`).
- A turn: `services/limits.py:7` lets the last answer pass the budget a little; with
  concurrent requests it is one turn for each (`DayWithinBudget`), and a direct turn over a
  long window can cost the digests of 62 days (`services/digests.py:33`), in chunks.
  The digests that the agent's tool makes are not counted at all
  (`services/tools.py:239`). Tokens of an
  agent run that fell back, and of failed turns, are not counted, and the deletion
  of a conversation lowers the usage. A turn that falls back stores its question
  twice, and its proposals are shown on the page of actions only.
- A database error inside a tool is reported to the model as text, but the session
  is unusable and the turn fails at its end (`services/tools.py:515`).
- `services/search.py:293` says that hits have priority; `fit_budget` drops the oldest,
  hit or not. The digests of a long window have no budget.
- `_resolve_chat` compares a username by ILIKE, where `_` matches any character, and
  takes the first row of a query without an order: `ByName` is a choice.
- `search_messages` applies `days` after its limit, so that older, better matches may
  leave nothing.
- `resolve` falls back for a missing capability, never for a provider that fails.
- A post that leaves the six-hour tier just after three in the night waits 27 hours
  for its next snapshot, and a missed run skips a day (`SnapshotsKeepUp`).

## 7. What is not modelled

- Texts: prompts, rendering of messages and context, translations, logging, pages.
  Nothing decides on them but a model or a person.
- SQL that only reads and counts for a page (`services/stats.py`), and what the text
  and the vector search of PostgreSQL find: their results are inputs.
- Encryption, cookies and `initData` signatures: libraries' cryptography.
- The allow-list of requests (`mtproto/allowlist.py`): five constant lists, looked up for
  the outermost request; what a request carries inside (`InvokeWithLayer` and its like) is
  Telethon's own.
- Two ratings of one answer at the same time (`services/evaluation.py:123`): each reads the
  row and writes the columns it has changed.
- HTTP, SDKs and the subprocess of the providers, prices and token counts.
- Tools that show a list once the chat is chosen (statistics, digests, scheduled
  posts): the choice of the chat is `Tools!ResolveChat`, what they read is `Metrics`
  and `Content`.
- Edits of stored messages (`Content`), several rules or accounts in one cron run
  (`AutoReply`), several chats in one nightly job: each is a loop over what is
  modelled, in transactions of its own.
- Limits of a turn (5 rounds, 4 calls each) in `WriteActions`: any number of calls is
  allowed there, which covers them; `ChatTurn` has them.
- `max_tries` and expiry of ARQ jobs: a job is run again after a death, as often as
  deaths are allowed.
- Early returns for rows that cannot be missing (a chat or account deleted
  meanwhile: nothing deletes them).

## 8. Plan

Done: what writes to Telegram, what keeps data complete, who may log in, what
answers by itself, what holds the connections, what an LLM makes, a user's turn,
and the pure parts; proofs of every invariant and action property. Left:

| Step | Module | What |
|---|---|---|
| 1 | `Ingestion` | `SyncJobs` with `ChatSync` inside, as the composition whose job outcomes are those of the chat |
| 2 | `WriteActions` | by how much overlapping handlers may exceed the rate, as `AutoReply` says it for its runs (`HourlyLimit`) |

The project is kept to a dozen runs, so that all of it can be rerun after a change;
a new question joins the run of its module, or replaces a weaker one.
