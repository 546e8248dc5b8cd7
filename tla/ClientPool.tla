------------------------------ MODULE ClientPool ------------------------------
(***************************************************************************)
(* The pool of Telegram clients of one process, for one account:           *)
(* mtproto/pool.py, the guarded client of mtproto/client.py and the        *)
(* session store.  Coroutines get the pooled client or connect one, read   *)
(* dialogs and messages through it, and revoke the account when Telegram   *)
(* no longer knows the key.  A login may store a new session at any time.  *)
(*                                                                         *)
(* Sessions are numbered in the order of the logins.  The ids of clients   *)
(* that nobody refers to any more are used again; one of them that is still *)
(* connected is counted as a stray.                                        *)
(***************************************************************************)
EXTENDS Integers, Sequences, FiniteSets

CONSTANTS
  None,
  Callers,      \* coroutines that use the pool at the same time (bound)
  MaxClients,   \* bound: clients in memory at once
  MaxSessions,  \* bound: logins
  MaxCuts       \* bound: lost connections

ASSUME PoolAssumption ==
  /\ {MaxClients, MaxSessions} \subseteq Nat \ {0}
  /\ MaxCuts \in Nat
  /\ None \notin Callers
  /\ IsFiniteSet(Callers) /\ Callers # {}

Clients == 1..MaxClients
Kinds == {"dialogs", "messages"}

VARIABLES
  row,      \* the account's row: the stored session (0: none) and status = ACTIVE
  live,     \* the sessions Telegram still accepts
  logins,   \* how many sessions there have been
  client,   \* client[c]: its session, whether it is connected, and its _Entry:
            \*   the holder of the lock, whether the peer is in dialogs and input_peers
  stray,    \* clients that are connected although nobody refers to them
  entry,    \* _entries: the pooled client, or 0
  lock,     \* _locks: the holder, or None
  op,       \* op[q]: where the coroutine q is
  cuts,     \* bound
  tainted   \* history: a client of an earlier session was around at the last login

vars == <<row, live, logins, client, stray, entry, lock, op, cuts, tainted>>

Gone == [session |-> 0, up |-> FALSE, lock |-> None, known |-> FALSE]

(* got: what the calls of _entry returned, in order; mine: the client that   *)
(* is connected or revoked.                                                *)
Idle == [pc |-> "idle", kind |-> "dialogs", got |-> <<>>, mine |-> 0]

At(q, pc) == op[q].pc = pc
Newest(q) == op[q].got[Len(op[q].got)]
Alive(c) == client[c].session \in live

Referred == {entry} \cup UNION {{op[q].got[i] : i \in DOMAIN op[q].got} \cup {op[q].mine} : q \in Callers}
Free == {c \in Clients : client[c] = Gone} \ Referred

(* The clients become f; one that nobody refers to any more is garbage, or a *)
(* stray if it is connected.                                                *)
Becomes(f) ==
  /\ client' = [c \in Clients |-> IF c \in Referred' THEN f[c] ELSE Gone]
  /\ stray' = stray + Cardinality({c \in Clients \ Referred' : f[c].up})

(* The end of a call, by its result or an exception: its locks are freed. *)
Done(q) == op' = [op EXCEPT ![q] = Idle]
FreeEntryLock(q) == [c \in Clients |-> IF client[c].lock = q THEN [client[c] EXCEPT !.lock = None] ELSE client[c]]
FreeLock(q) == IF lock = q THEN None ELSE lock

-----------------------------------------------------------------------------
(* _entry: under the account's lock, the pooled client or a new one.       *)

(* Requests about a peer go through the first client that was returned. *)
Needed(pc, got) == IF pc = "request" THEN <<got[1]>> ELSE got

(* Where a coroutine goes on when _entry has returned.                     *)
(* recent_messages, and whoever writes to a peer, calls _entry itself, in    *)
(* input_peer, and in dialogs.                                             *)
After(q, c) ==
  LET got == Append(op[q].got, c)
      pc == IF op[q].kind = "dialogs" \/ Len(got) = 3 THEN "dialogs"
            ELSE IF Len(got) = 2 /\ client[c].known THEN "request" ELSE "enter"
  IN  [op[q] EXCEPT !.got = Needed(pc, got), !.pc = pc, !.mine = 0]

(* Mutated: the lock of the account is not taken. *)
Locked_Never == FALSE

Locked == lock # None

Enter(q) ==
  /\ At(q, "enter") /\ ~Locked
  /\ IF entry # 0 /\ client[entry].up
     THEN /\ op' = [op EXCEPT ![q] = After(q, entry)]
          /\ UNCHANGED lock
     ELSE /\ lock' = q
          /\ op' = [op EXCEPT ![q].pc = "load"]
  /\ UNCHANGED <<row, live, logins, client, stray, entry, cuts, tainted>>

(* The session is read in a transaction of its own: PoolError account_inactive *)
(* or no_session, or a client that is yet to be connected.                   *)
Load(q) ==
  /\ At(q, "load")
  /\ UNCHANGED <<row, live, logins, entry, cuts, tainted>>
  /\ IF row.active /\ row.session # 0
     THEN LET c == CHOOSE c \in Free : TRUE IN
          /\ Free # {}
          /\ op' = [op EXCEPT ![q].pc = "connect", ![q].mine = c]
          /\ Becomes([client EXCEPT ![c] = [Gone EXCEPT !.session = row.session]])
          /\ UNCHANGED lock
     ELSE Done(q) /\ lock' = FreeLock(q) /\ Becomes(client)

Connect(q) ==
  /\ At(q, "connect")
  /\ UNCHANGED <<row, live, logins, cuts, tainted>>
  /\ IF Alive(op[q].mine)
     THEN entry' = op[q].mine /\ lock' = FreeLock(q) /\ op' = [op EXCEPT ![q] = After(q, op[q].mine)]
     ELSE op' = [op EXCEPT ![q].pc = "revoke", ![q].got = <<>>] /\ UNCHANGED <<entry, lock>>
  /\ Becomes([client EXCEPT ![op[q].mine].up = TRUE])

(* Mutated: an exception leaves the lock of the account taken. *)
Freed_Not(q) == lock

Freed(q) == FreeLock(q)

(* PoolError network: connect has failed, or is_user_authorized after it, and *)
(* then the client stays connected.                                         *)
ConnectFails(q) ==
  /\ At(q, "connect")
  /\ cuts < MaxCuts /\ cuts' = cuts + 1
  /\ UNCHANGED <<row, live, logins, entry, tainted>>
  /\ lock' = Freed(q)
  /\ Done(q)
  /\ \E up \in BOOLEAN : Becomes([client EXCEPT ![op[q].mine].up = up])

-----------------------------------------------------------------------------
(* _mark_revoked: disconnect, then the row, then the pool, with an await    *)
(* after each.                                                             *)

Disconnect(q) ==
  /\ At(q, "revoke")
  /\ UNCHANGED <<row, live, logins, entry, lock, cuts, tainted>>
  /\ op' = [op EXCEPT ![q].pc = "row", ![q].mine = 0]
  /\ Becomes([client EXCEPT ![op[q].mine].up = FALSE])

(* Mutated: the session is cleared with a value of another type. *)
Revoked_None == [session |-> None, active |-> FALSE]

Revoked == [session |-> 0, active |-> FALSE]

(* revoke_session, whatever session the row holds by now. *)
RevokeRow(q) ==
  /\ At(q, "row")
  /\ row' = Revoked
  /\ op' = [op EXCEPT ![q].pc = "pop"]
  /\ UNCHANGED <<live, logins, client, stray, entry, lock, cuts, tainted>>

Pop(q) ==
  /\ At(q, "pop")
  /\ UNCHANGED <<row, live, logins, cuts, tainted>>
  /\ entry' = 0
  /\ lock' = FreeLock(q)
  /\ Done(q)
  /\ Becomes(FreeEntryLock(q))

-----------------------------------------------------------------------------
(* Reading.                                                                *)

(* What a request of q to Telegram through client c comes to: the key is    *)
(* unknown, or the connection is gone, or Telegram asks to wait (flood).    *)
Unregistered(q, c) ==
  op' = [op EXCEPT ![q].pc = "revoke", ![q].mine = c, ![q].got = <<>>] /\ UNCHANGED <<client, stray>>
Fails(q) == Done(q) /\ Becomes(FreeEntryLock(q))

(* Mutated: a FloodWait revokes the account as well. *)
Refused_Revokes(q, c) == Fails(q) \/ (client[c].up /\ Unregistered(q, c))

Refused(q, c) == Fails(q)

(* dialogs: the cache, if it is young enough and the caller does not force.  *)
Dialogs(q) ==
  LET c == Newest(q) IN
  /\ At(q, "dialogs") /\ client[c].lock = None
  /\ UNCHANGED <<row, live, logins, entry, lock, cuts, tainted>>
  /\ \/ op[q].kind = "dialogs" /\ client[c].known /\ Done(q) /\ Becomes(client)
     \/ op' = [op EXCEPT ![q].pc = "list"] /\ Becomes([client EXCEPT ![c].lock = q])

(* get_dialogs under the entry's lock.  The peer may not be among them.      *)
List(q) ==
  LET c == Newest(q) IN
  /\ At(q, "list")
  /\ UNCHANGED <<row, live, logins, entry, lock, cuts, tainted>>
  /\ \/ client[c].up /\ ~Alive(c) /\ Unregistered(q, c)
     \/ Refused(q, c)
     \/ /\ client[c].up /\ Alive(c)
        /\ \E found \in BOOLEAN :
             LET seen == [client[c] EXCEPT !.lock = None, !.known = @ \/ found]
                 all == [client EXCEPT ![c] = seen]
             IN  /\ op' = IF op[q].kind = "messages" /\ all[op[q].got[2]].known
                          THEN [op EXCEPT ![q].pc = "request", ![q].got = Needed("request", @)] ELSE [op EXCEPT ![q] = Idle]
                 /\ Becomes(all)

(* A request about the peer: the guarded client blocks it (RpcBlocked), or it *)
(* is on its way to Telegram.                                               *)
Request(q) ==
  /\ At(q, "request")
  /\ UNCHANGED <<row, live, logins, entry, lock, cuts, tainted>>
  /\ \/ Done(q) /\ Becomes(client)
     \/ op' = [op EXCEPT ![q].pc = "sent"] /\ UNCHANGED <<client, stray>>

Answer(q) ==
  LET c == op[q].got[1] IN
  /\ At(q, "sent")
  /\ UNCHANGED <<row, live, logins, entry, lock, cuts, tainted>>
  /\ \/ client[c].up /\ ~Alive(c) /\ Unregistered(q, c)
     \/ Refused(q, c)
     \/ client[c].up /\ Alive(c) /\ Done(q) /\ Becomes(client)

-----------------------------------------------------------------------------
(* Logins.                                                                 *)

(* q has got hold of a client, or is about to revoke the account. *)
InUse(q) == op[q].mine # 0 \/ op[q].got # <<>> \/ op[q].pc \in {"row", "pop"}

(* store_session, at the end of a login that used a client of its own. *)
StoreSession ==
  /\ logins < MaxSessions
  /\ logins' = logins + 1
  /\ live' = live \cup {logins'}
  /\ row' = [session |-> logins', active |-> TRUE]
  /\ tainted' = (entry # 0 \/ \E q \in Callers : InUse(q))
  /\ UNCHANGED <<client, stray, entry, lock, op, cuts>>

-----------------------------------------------------------------------------
(* The environment.                                                        *)

Start(q, kind) ==
  /\ At(q, "idle")
  /\ op' = [op EXCEPT ![q] = [Idle EXCEPT !.pc = "enter", !.kind = kind]]
  /\ UNCHANGED <<row, live, logins, client, stray, entry, lock, cuts, tainted>>

(* The owner ends a session in Telegram. *)
Terminate(s) ==
  /\ live' = live \ {s}
  /\ UNCHANGED <<row, logins, client, stray, entry, lock, op, cuts, tainted>>

(* The client gives up reconnecting. *)
Drop(c) ==
  /\ client[c].up /\ cuts < MaxCuts
  /\ cuts' = cuts + 1
  /\ UNCHANGED <<row, live, logins, entry, lock, op, tainted>>
  /\ Becomes([client EXCEPT ![c].up = FALSE])

(* close, from close_all when the process stops: the other coroutines still  *)
(* run until they end.                                                      *)
Close ==
  /\ entry # 0 /\ cuts < MaxCuts
  /\ cuts' = cuts + 1
  /\ entry' = 0
  /\ UNCHANGED <<row, live, logins, lock, op, tainted>>
  /\ Becomes([client EXCEPT ![entry].up = FALSE])

Init ==
  /\ row = [session |-> 1, active |-> TRUE]
  /\ live = {1} /\ logins = 1
  /\ client = [c \in Clients |-> Gone] /\ stray = 0
  /\ entry = 0 /\ lock = None
  /\ op = [q \in Callers |-> Idle]
  /\ cuts = 0 /\ tainted = FALSE

Step(q) ==
  \/ Enter(q) \/ Load(q) \/ Connect(q) \/ ConnectFails(q)
  \/ Disconnect(q) \/ RevokeRow(q) \/ Pop(q)
  \/ Dialogs(q) \/ List(q) \/ Request(q) \/ Answer(q)

Next ==
  \/ \E q \in Callers : Step(q) \/ \E kind \in Kinds : Start(q, kind)
  \/ StoreSession
  \/ \E s \in live : Terminate(s)
  \/ \E c \in Clients : Drop(c)
  \/ Close

Spec == Init /\ [][Next]_vars

(* A coroutine goes on, also from a lock that others keep taking: asyncio.Lock *)
(* wakes those who wait in their order.                                      *)
LiveSpec == Spec /\ \A q \in Callers : SF_vars(Step(q))

-----------------------------------------------------------------------------
(* Properties.                                                             *)

Client == [session : 0..MaxSessions, up : BOOLEAN, lock : Callers \cup {None}, known : BOOLEAN]

Places == {"idle", "enter", "load", "connect", "revoke", "row", "pop", "dialogs", "list", "request",
           "sent"}

Op == [pc : Places, kind : Kinds, got : Seq(Clients), mine : Clients \cup {0}]

(* Every variable keeps to the values the code can give it. *)
TypeOK ==
  /\ row \in [session : 0..MaxSessions, active : BOOLEAN]
  /\ live \subseteq 1..logins /\ logins \in 1..MaxSessions
  /\ client \in [Clients -> Client]
  /\ entry \in Clients \cup {0} /\ stray \in Nat
  /\ lock \in Callers \cup {None}
  /\ op \in [Callers -> Op] /\ \A q \in Callers : Len(op[q].got) <= 3
  /\ cuts \in 0..MaxCuts /\ tainted \in BOOLEAN

(* The pool keeps one connected client for the account.  Others are left     *)
(* behind only by a cut connection, one each, or by a login: each of the     *)
(* other coroutines that were revoking by then may take one fresh client out *)
(* of the pool.                                                            *)
FewClients ==
  stray + Cardinality({c \in Clients : client[c].up})
    <= 1 + cuts + (logins - 1) * (Cardinality(Callers) - 1)

(* What the pool, its locks and the table are at any moment.                 *)
PoolInv == TypeOK /\ FewClients

(* A login that found no client of an earlier session in use stays: its      *)
(* session is not taken from the row while Telegram accepts it.              *)
LoginStays == logins \in live /\ ~tainted => row = [session |-> logins, active |-> TRUE]

(* Every use of the pool ends: no lock is left behind, and the two kinds of  *)
(* locks do not wait for each other.                                        *)
CallsEnd == \A q \in Callers : []<>At(q, "idle")
=============================================================================
