-------------------------------- MODULE AuthFlow --------------------------------
(***************************************************************************)
(* Login to a Telegram account by phone: services/auth_flow.py, the routes *)
(* of web/routers/auth.py, and services/accounts.py, which turns a login   *)
(* into rows of users and accounts.                                        *)
(*                                                                         *)
(* The API is one process.  Its handlers run on one event loop, so that a  *)
(* step here is what a handler does between two awaits.  A flow lives in   *)
(* the process's memory with a client of its own; the handlers that work   *)
(* on it keep a reference to it, and may outlive its place in the store.   *)
(* The transaction of link_account is READ COMMITTED: its inserts are      *)
(* invisible until the commit, and wait for another one of the same key.   *)
(***************************************************************************)
EXTENDS Integers, FiniteSets

CONSTANTS
  Flows,            \* bound: the logins that are ever begun
  Handlers,         \* requests that may be served at the same time (bound)
  People,           \* Telegram users; a row of users stands for its tg_user_id
  Logins,           \* bound: the logins tried, <<phone, user of the cookie or None>>
  Allowed,          \* ALLOWED_USER_IDS; all of People when the list is empty
  MaxCodeAttempts,  \* MAX_CODE_ATTEMPTS
  MaxAccounts,      \* MAX_ACCOUNTS
  None

ASSUME AuthAssumption ==
  /\ Allowed \subseteq People
  /\ Logins \subseteq People \X (People \cup {None})
  /\ MaxCodeAttempts \in Nat \ {0}
  /\ MaxAccounts \in Nat \ {0}
  /\ IsFiniteSet(Handlers)
  /\ None \notin Flows \cup Handlers \cup People

VARIABLES
  flow,       \* flow[f]: the PendingLogin
  store,      \* the flows of AuthFlowStore
  old,        \* flows older than the TTL
  connected,  \* flows whose client is connected
  lock,       \* lock[f]: the handler that holds the flow's lock
  granted,    \* granted[f]: what Telegram has granted the client's session
  call,       \* call[h]: the request h is serving
  users,      \* committed rows of users
  account,    \* account[u][t]: the flow whose session the row of accounts has
  codes,      \* history: sign_in calls of a flow with a code
  passwords   \* history: sign_in calls of a flow with a password

memory == <<flow, store, old, connected, lock>>
tables == <<users, account>>
counts == <<codes, passwords>>
vars   == <<memory, granted, call, tables, counts>>

Flow == [status : {"unused", "code_sent", "needs_2fa", "done"}, attempts : Nat,
         phone : People \cup {None}, owner : People \cup {None}]

Unused == [status |-> "unused", attempts |-> 0, phone |-> None, owner |-> None]

(* newUser, newAccount: inserted, and not committed. *)
Call == [pc : {"idle", "lock", "sign_in", "get_me", "user", "new_user", "account", "count",
               "new_account", "commit", "cookie"},
         flow : Flows \cup {None}, step : {"code", "password"}, user : People \cup {None},
         newUser : BOOLEAN, newAccount : BOOLEAN]

Idle == [pc |-> "idle", flow |-> None, step |-> "code", user |-> None, newUser |-> FALSE,
         newAccount |-> FALSE]

-----------------------------------------------------------------------------
(* The store.                                                              *)

(* _gc, which only get and active_count call: what is older than the TTL   *)
(* leaves the store and is disconnected.                                   *)
Live == store \ old

(* Mutated: what is collected stays connected. *)
Open_All == connected

Open == connected \ (store \cap old)

Collect ==
  /\ store' = Live
  /\ connected' = Open

(* cancel: out of the store, and disconnected if it was in it. *)
Drop(f) ==
  /\ store' = store \ {f}
  /\ connected' = IF f \in store THEN connected \ {f} ELSE connected

(* A handler is over: it lets go of the lock, and its transaction is undone. *)
Answer(h) == call' = [call EXCEPT ![h] = Idle]
Unlock(f) == lock' = [lock EXCEPT ![f] = None]

AccountsOf(u) == {t \in People : account[u][t] # None}

(* start: the code has been sent, to the phone of t, for the user whose     *)
(* cookie the request carried.  Only a login gives a cookie.  A start that  *)
(* fails leaves nothing behind.                                            *)
Start(f, t, owner) ==
  /\ flow[f].status = "unused"
  /\ owner # None => AccountsOf(owner) # {}
  /\ flow' = [flow EXCEPT ![f] = [status |-> "code_sent", attempts |-> 0, phone |-> t,
                                  owner |-> owner]]
  /\ store' = store \cup {f}
  /\ connected' = connected \cup {f}
  /\ UNCHANGED <<old, lock, granted, call, tables, counts>>

(* POST /auth/cancel *)
Cancel(f) ==
  /\ f \in store
  /\ Drop(f)
  /\ UNCHANGED <<flow, old, lock, granted, call, tables, counts>>

GrowOld(f) ==
  /\ f \in store \ old
  /\ old' = old \cup {f}
  /\ UNCHANGED <<flow, store, connected, lock, granted, call, tables, counts>>

-----------------------------------------------------------------------------
(* submit_code and submit_password.                                        *)

StepOf(step) == IF step = "code" THEN "code_sent" ELSE "needs_2fa"

(* Mutated: the count begins anew with the second step. *)
TriesOf_Anew(step) == IF step = "code" THEN MaxCodeAttempts ELSE 3 * MaxCodeAttempts

TriesOf(step) == IF step = "code" THEN MaxCodeAttempts ELSE 2 * MaxCodeAttempts

(* Mutated: the lock is not taken. *)
TakeLock_Not(h, f) == UNCHANGED lock

TakeLock(h, f) == lock' = [lock EXCEPT ![f] = h]

(* What a handler does on getting the lock, before sign_in is sent.  kept   *)
(* and open: the store and the clients as get has left them.                *)
Enter(h, f, step, kept, open) ==
  LET attempts == flow[f].attempts + 1
  IN  \/ /\ flow[f].status # StepOf(step)
         /\ store' = kept /\ connected' = open
         /\ Answer(h)
         /\ UNCHANGED <<flow, lock, counts>>
      \/ /\ flow[f].status = StepOf(step)
         /\ flow' = [flow EXCEPT ![f].attempts = attempts]
         /\ \/ /\ attempts > TriesOf(step)
               /\ store' = kept \ {f} /\ connected' = open \ {f}
               /\ Answer(h)
               /\ UNCHANGED <<lock, counts>>
            \/ /\ attempts <= TriesOf(step)
               /\ store' = kept /\ connected' = open
               /\ TakeLock(h, f)
               /\ call' = [call EXCEPT ![h] = [Idle EXCEPT !.pc = "sign_in", !.flow = f,
                                                           !.step = step]]
               /\ codes' = IF step = "code" THEN [codes EXCEPT ![f] = @ + 1] ELSE codes
               /\ passwords' = IF step = "password" THEN [passwords EXCEPT ![f] = @ + 1]
                               ELSE passwords

Waiting(f) == {h \in Handlers : call[h].pc = "lock" /\ call[h].flow = f}

(* The request arrives: get, and the lock if nobody has it or waits for it. *)
(* A flow that is gone, or a code without a digit, is the end of it.       *)
Submit(h, f, step) ==
  /\ call[h].pc = "idle"
  /\ flow[f].status # "unused"
  /\ \/ /\ f \notin Live \/ step = "code"
        /\ Collect
        /\ UNCHANGED <<flow, lock, call, counts>>
     \/ /\ f \in Live
        /\ lock[f] = None /\ Waiting(f) = {}
        /\ Enter(h, f, step, Live, Open)
     \/ /\ f \in Live
        /\ lock[f] # None \/ Waiting(f) # {}
        /\ Collect
        /\ call' = [call EXCEPT ![h] = [Idle EXCEPT !.pc = "lock", !.flow = f, !.step = step]]
        /\ UNCHANGED <<flow, lock, counts>>
  /\ UNCHANGED <<old, granted, tables>>

(* A waiting handler gets the lock; the flow may have left the store. *)
GetLock(h) ==
  LET f == call[h].flow
  IN  /\ call[h].pc = "lock"
      /\ lock[f] = None
      /\ Enter(h, f, call[h].step, store, connected)
      /\ UNCHANGED <<old, granted, tables>>

(* Telegram: a right code gives the session, or asks for the password; a    *)
(* right password gives it too.  Telethon's sign_in returns at once when    *)
(* the client already has a session.                                       *)
Grants(f, step) ==
  IF granted[f] = "session" THEN {"session"}
  ELSE IF step = "password" THEN IF granted[f] = "code" THEN {"session"} ELSE {}
  ELSE IF granted[f] = "code" THEN {"code"} ELSE {"code", "session"}

SigningIn(h) == call[h].pc = "sign_in"

(* Mutated: the demand for a password counts as a login. *)
LoggedIn_Anyhow(g) == g # "nothing"

LoggedIn(g) == g = "session"

Accepted(h) ==
  LET f == call[h].flow
  IN  /\ SigningIn(h)
      /\ f \in connected
      /\ \E g \in Grants(f, call[h].step) :
           /\ granted' = [granted EXCEPT ![f] = g]
           /\ \/ /\ LoggedIn(g)
                 /\ call' = [call EXCEPT ![h].pc = "get_me"]
                 /\ UNCHANGED <<flow, lock>>
              \/ /\ ~LoggedIn(g)
                 /\ flow' = [flow EXCEPT ![f].status = "needs_2fa"]
                 /\ Answer(h) /\ Unlock(f)
      /\ UNCHANGED <<store, old, connected, tables, counts>>

(* A wrong code or password, a FloodWait, another RPCError. *)
Refused(h) ==
  /\ SigningIn(h)
  /\ call[h].flow \in connected
  /\ Answer(h) /\ Unlock(call[h].flow)
  /\ UNCHANGED <<flow, store, old, connected, granted, tables, counts>>

(* The code has expired, or the phone has no account: the flow is over. *)
CodeIsDead(h) ==
  /\ SigningIn(h) /\ call[h].step = "code"
  /\ call[h].flow \in connected
  /\ Drop(call[h].flow)
  /\ Answer(h) /\ Unlock(call[h].flow)
  /\ UNCHANGED <<flow, old, granted, tables, counts>>

(* Mutated: an exception nobody catches leaves the lock taken. *)
UnlockOnError_Not(f) == UNCHANGED lock

UnlockOnError(f) == Unlock(f)

(* The connection is lost, before Telegram has the request or after: no     *)
(* handler catches that.  A client that was disconnected meanwhile only     *)
(* ends so.                                                                *)
SignInLost(h) ==
  LET f == call[h].flow
  IN  /\ SigningIn(h)
      /\ \/ UNCHANGED granted
         \/ \E g \in Grants(f, call[h].step) : granted' = [granted EXCEPT ![f] = g]
      /\ Answer(h) /\ UnlockOnError(f)
      /\ UNCHANGED <<flow, store, old, connected, tables, counts>>

GetMeLost(h) ==
  /\ call[h].pc = "get_me"
  /\ Answer(h) /\ UnlockOnError(call[h].flow)
  /\ UNCHANGED <<flow, store, old, connected, granted, tables, counts>>

(* _complete's end, and without another await _finish of the route up to   *)
(* its transaction: get, which may find the flow gone, and take_result.     *)
Complete(h) ==
  LET f == call[h].flow
  IN  /\ call[h].pc = "get_me"
      /\ flow' = [flow EXCEPT ![f].status = "done"]
      /\ Unlock(f)
      /\ store' = Live \ {f}
      /\ connected' = IF f \in Live THEN Open \ {f} ELSE Open
      /\ call' = [call EXCEPT ![h] =
                    IF f \in Live THEN [Idle EXCEPT !.pc = "user", !.flow = f] ELSE Idle]
      /\ UNCHANGED <<old, granted, tables, counts>>

-----------------------------------------------------------------------------
(* link_account, in one transaction.                                       *)

(* Mutated: a login without a cookie has no user. *)
UserOf_Owner(f) == flow[f].owner

(* The user of the cookie, or the one with the tg_user_id of the login. *)
UserOf(f) == IF flow[f].owner # None THEN flow[f].owner ELSE flow[f].phone

MayLogIn(f) == flow[f].owner # None \/ flow[f].phone \in Allowed

ReadUser(h) ==
  LET f == call[h].flow
  IN  /\ call[h].pc = "user"
      /\ \/ /\ ~MayLogIn(f)
            /\ Answer(h)
         \/ /\ MayLogIn(f)
            /\ call' = [call EXCEPT ![h].user = UserOf(f),
                                    ![h].pc = IF UserOf(f) \in users THEN "account"
                                              ELSE "new_user"]
      /\ UNCHANGED <<memory, granted, tables, counts>>

(* Another transaction has inserted the same key and is not over. *)
UserPending(h) ==
  \E k \in Handlers \ {h} : call[k].newUser /\ call[k].user = call[h].user

AccountPending(h) ==
  \E k \in Handlers \ {h} : /\ call[k].newAccount /\ call[k].user = call[h].user
                            /\ flow[call[k].flow].phone = flow[call[h].flow].phone

(* get_or_create_user looks once more; what is committed after that makes  *)
(* the insert fail.                                                        *)
NewUser(h) ==
  /\ call[h].pc = "new_user"
  /\ \/ /\ call[h].user \in users
        /\ \/ call' = [call EXCEPT ![h].pc = "account"]
           \/ Answer(h)
     \/ /\ call[h].user \notin users /\ ~UserPending(h)
        /\ call' = [call EXCEPT ![h].pc = "account", ![h].newUser = TRUE]
  /\ UNCHANGED <<memory, granted, tables, counts>>

Row(h) == account[call[h].user][flow[call[h].flow].phone]

ReadAccount(h) ==
  /\ call[h].pc = "account"
  /\ call' = [call EXCEPT ![h].pc = IF Row(h) # None THEN "commit" ELSE "count"]
  /\ UNCHANGED <<memory, granted, tables, counts>>

CountAccounts(h) ==
  /\ call[h].pc = "count"
  /\ IF Cardinality(AccountsOf(call[h].user)) >= MaxAccounts
     THEN Answer(h)
     ELSE call' = [call EXCEPT ![h].pc = "new_account"]
  /\ UNCHANGED <<memory, granted, tables, counts>>

NewAccount(h) ==
  /\ call[h].pc = "new_account"
  /\ ~AccountPending(h)
  /\ IF Row(h) # None
     THEN Answer(h)
     ELSE call' = [call EXCEPT ![h].pc = "commit", ![h].newAccount = TRUE]
  /\ UNCHANGED <<memory, granted, tables, counts>>

(* store_session, and the commit. *)
Commit(h) ==
  LET f == call[h].flow
  IN  /\ call[h].pc = "commit"
      /\ users' = users \cup {call[h].user}
      /\ account' = [account EXCEPT ![call[h].user][flow[f].phone] = f]
      /\ call' = [call EXCEPT ![h] = [Idle EXCEPT !.pc = "cookie", !.flow = f]]
      /\ UNCHANGED <<memory, granted, counts>>

(* The cookie, _kick_sync (SyncJobs' Press), and the answer. *)
SetCookie(h) ==
  /\ call[h].pc = "cookie"
  /\ Answer(h)
  /\ UNCHANGED <<memory, granted, tables, counts>>

(* The database fails; the result has been taken and is lost. *)
LinkFails(h) ==
  /\ call[h].pc \in {"user", "new_user", "account", "count", "new_account", "commit"}
  /\ Answer(h)
  /\ UNCHANGED <<memory, granted, tables, counts>>

(* The bot registers an allowed user it meets; UserMiddleware. *)
Meet(t) ==
  /\ t \in Allowed \ users
  /\ ~\E h \in Handlers : call[h].newUser /\ call[h].user = t
  /\ users' = users \cup {t}
  /\ UNCHANGED <<memory, granted, call, account, counts>>

(* The API process ends and starts: every flow and every request is gone. *)
Restart ==
  /\ store' = {} /\ old' = {} /\ connected' = {}
  /\ lock' = [f \in Flows |-> None]
  /\ call' = [h \in Handlers |-> Idle]
  /\ UNCHANGED <<flow, granted, tables, counts>>

-----------------------------------------------------------------------------
Init ==
  /\ flow = [f \in Flows |-> Unused]
  /\ store = {} /\ old = {} /\ connected = {}
  /\ lock = [f \in Flows |-> None]
  /\ granted = [f \in Flows |-> "nothing"]
  /\ call = [h \in Handlers |-> Idle]
  /\ users = {}
  /\ account = [u \in People |-> [t \in People |-> None]]
  /\ codes = [f \in Flows |-> 0]
  /\ passwords = [f \in Flows |-> 0]

Telegram(h) ==
  Accepted(h) \/ Refused(h) \/ CodeIsDead(h) \/ SignInLost(h) \/ GetMeLost(h) \/ Complete(h)

Link(h) ==
  \/ ReadUser(h) \/ NewUser(h) \/ ReadAccount(h) \/ CountAccounts(h) \/ NewAccount(h)
  \/ Commit(h) \/ SetCookie(h) \/ LinkFails(h)

Next ==
  \/ \E f \in Flows, login \in Logins : Start(f, login[1], login[2])
  \/ \E f \in Flows : Cancel(f) \/ GrowOld(f)
  \/ \E h \in Handlers, f \in Flows, step \in {"code", "password"} : Submit(h, f, step)
  \/ \E h \in Handlers : GetLock(h) \/ Telegram(h) \/ Link(h)
  \/ \E t \in People : Meet(t)
  \/ Restart

Spec == Init /\ [][Next]_vars

-----------------------------------------------------------------------------
(* Properties.                                                             *)

(* Every variable keeps to the values the code can give it. *)
Linking == {"new_user", "account", "count", "new_account", "commit"}

TypeOK ==
  /\ flow \in [Flows -> Flow]
  /\ store \subseteq Flows /\ old \subseteq Flows /\ connected \subseteq Flows
  /\ lock \in [Flows -> Handlers \cup {None}]
  /\ granted \in [Flows -> {"nothing", "code", "session"}]
  /\ call \in [Handlers -> Call]
  /\ \A h \in Handlers : call[h].pc \in Linking => call[h].user \in People
  /\ users \subseteq People
  /\ account \in [People -> [People -> Flows \cup {None}]]
  /\ codes \in [Flows -> Nat]
  /\ passwords \in [Flows -> Nat]

(* Two requests never talk to Telegram through one client at a time,        *)
(* however their waiting, cancellations and expiries interleave.            *)
AtTelegram == {"sign_in", "get_me"}

OneSignIn ==
  \A h, k \in Handlers :
    (call[h].pc \in AtTelegram /\ call[k].pc \in AtTelegram /\ call[h].flow = call[k].flow)
      => h = k

(* A lock is held by a handler that is at Telegram with its flow: no error   *)
(* path, known or not, leaves a lock behind that others would wait for.     *)
LocksAreFreed ==
  \A f \in Flows :
    lock[f] # None => call[lock[f]].flow = f /\ call[lock[f]].pc \in AtTelegram

(* What logins and their locks are at any moment: one conversation with      *)
(* Telegram for a flow, and no lock without one.                            *)
LoginInv == TypeOK /\ OneSignIn /\ LocksAreFreed

(* The limits on attempts hold for what Telegram is really asked, also when *)
(* requests were already waiting as the flow was dropped.                   *)
GuessesBounded ==
  \A f \in Flows : /\ codes[f] <= MaxCodeAttempts
                   /\ codes[f] + passwords[f] <= 2 * MaxCodeAttempts

(* A stored session was granted by Telegram for just that account, in a     *)
(* login begun by just that user or by somebody who may log in as it.       *)
LinkedWasVerified ==
  \A u, t \in People :
    LET f == account[u][t]
    IN  f # None => /\ granted[f] = "session"
                    /\ flow[f].phone = t
                    /\ flow[f].owner = u \/ (flow[f].owner = None /\ u = t /\ t \in Allowed)

(* No client outlives its flow: whoever takes a flow out of the store, by   *)
(* cancel, collection, too many attempts or success, disconnects it.        *)
NoLeakedClient == connected \subseteq store

(* MAX_ACCOUNTS bounds the accounts of a user. *)
AccountsLimited == \A u \in People : Cardinality(AccountsOf(u)) <= MaxAccounts

(* The requests that have found room for one more account of u, and have not committed it. *)
Room(u) ==
  {h \in Handlers : /\ call[h].user = u
                    /\ \/ call[h].pc = "new_account"
                       \/ call[h].pc = "commit" /\ call[h].newAccount}

(* Requests that count at the same time exceed it, by less than the number of requests: whatever *)
(* they count, nothing is linked on top of an excess that is committed.                         *)
AccountsNearlyLimited ==
  \A u \in People :
    Cardinality(AccountsOf(u)) + Cardinality(Room(u)) < MaxAccounts + Cardinality(Handlers)
=============================================================================
