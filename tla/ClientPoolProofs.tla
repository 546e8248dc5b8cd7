--------------------------- MODULE ClientPoolProofs ---------------------------
(***************************************************************************)
(* What holds of ClientPool for every number of coroutines, logins, lost   *)
(* connections and clients in memory, and whatever requests are tried.     *)
(***************************************************************************)
EXTENDS ClientPool, FiniteSetTheorems, TLAPS

(* Where a coroutine is says how many clients its calls of _entry have      *)
(* returned, and whether it has one to connect or to revoke; a login that    *)
(* is under way has yet to store its session.                              *)
Shape(o) ==
  /\ o.pc \in {"idle", "revoke", "row", "pop"} => o.got = <<>>
  /\ o.pc \in {"enter", "load", "connect"} => Len(o.got) <= IF o.kind = "dialogs" THEN 0 ELSE 2
  /\ o.pc \in {"dialogs", "list"} => Len(o.got) = IF o.kind = "dialogs" THEN 1 ELSE 3
  /\ o.pc \in {"request", "sent"} => o.kind = "messages" /\ Len(o.got) = 1
  /\ o.pc \in {"connect", "revoke"} <=> o.mine # 0

TypeInv == TypeOK /\ \A q \in Callers : Shape(op[q])

(* What a step of q does to its local variables: all of it, field by field.  *)
Moved(q, pc, kind, got, mine) ==
  /\ op' \in [Callers -> Op] /\ \A k \in Callers : Len(op'[k].got) <= 3 /\ Shape(op'[k])
  /\ op'[q].pc = pc /\ op'[q].kind = kind /\ op'[q].got = got /\ op'[q].mine = mine
  /\ \A k \in Callers \ {q} : op'[k] = op[k]

Ended(q) == Moved(q, "idle", "dialogs", <<>>, 0)

LEMMA NoneAtHand == <<>> \in Seq(Clients) /\ Len(<<>>) = 0
  OBVIOUS

LEMMA MovedBy ==
  ASSUME TypeInv, NEW q \in Callers, NEW c \in Op, Len(c.got) <= 3, Shape(c),
         op' = [op EXCEPT ![q] = c]
  PROVE  Moved(q, c.pc, c.kind, c.got, c.mine)
  <1>1. op \in [Callers -> Op]
    BY DEF TypeInv, TypeOK
  <1>2. op'[q] = c /\ op' \in [Callers -> Op] /\ \A k \in Callers \ {q} : op'[k] = op[k]
    BY <1>1
  <1>3. \A k \in Callers : Len(op'[k].got) <= 3 /\ Shape(op'[k])
    BY <1>2 DEF TypeInv, TypeOK
  <1> QED
    BY <1>2, <1>3 DEF Moved

LEMMA EndedBy ==
  ASSUME TypeInv, NEW q \in Callers, Done(q)
  PROVE  Ended(q)
  <1>1. /\ Idle \in Op /\ Len(Idle.got) <= 3 /\ Shape(Idle)
        /\ Idle.pc = "idle" /\ Idle.kind = "dialogs" /\ Idle.got = <<>> /\ Idle.mine = 0
    BY DEF Idle, Op, Places, Kinds, Shape
  <1>2. op' = [op EXCEPT ![q] = Idle]
    BY DEF Done
  <1> QED
    BY <1>1, <1>2, MovedBy DEF Ended

(* A call of _entry has returned c: the clients at hand grow by one, and are *)
(* cut down to the first one when the request is due.                      *)
LEMMA AfterIs ==
  ASSUME TypeInv, NEW q \in Callers, op[q].pc \in {"enter", "connect"}, NEW c \in Clients
  PROVE  LET r == After(q, c)
         IN  /\ r \in Op /\ Len(r.got) <= 3 /\ Shape(r)
             /\ r.pc \in {"enter", "dialogs", "request"} /\ r.kind = op[q].kind /\ r.mine = 0
              /\ r.got \in {Append(op[q].got, c), <<Append(op[q].got, c)[1]>>}
  <1> DEFINE got == Append(op[q].got, c)
             pc  == IF op[q].kind = "dialogs" \/ Len(got) = 3 THEN "dialogs"
                    ELSE IF Len(got) = 2 /\ client[c].known THEN "request" ELSE "enter"
             r   == [op[q] EXCEPT !.got = Needed(pc, got), !.pc = pc, !.mine = 0]
  <1>1. op[q] \in Op /\ op[q].got \in Seq(Clients) /\ op[q].kind \in Kinds
    BY DEF TypeInv, TypeOK, Op
  <1>2. /\ Len(op[q].got) \in Nat /\ Len(op[q].got) <= 2
        /\ op[q].kind = "dialogs" => Len(op[q].got) = 0
    BY <1>1 DEF TypeInv, Shape
  <1>3. got \in Seq(Clients) /\ Len(got) = Len(op[q].got) + 1 /\ got[1] \in Clients
    BY <1>1, <1>2
  <1> HIDE DEF got
  <1>4. /\ pc \in {"enter", "dialogs", "request"}
        /\ pc = "enter" => Len(got) <= 2 /\ op[q].kind = "messages"
        /\ pc = "dialogs" => Len(got) = IF op[q].kind = "dialogs" THEN 1 ELSE 3
        /\ pc = "request" => op[q].kind = "messages"
    BY <1>1, <1>2, <1>3 DEF Kinds
  <1> HIDE DEF pc
  <1>5. /\ Needed(pc, got) \in Seq(Clients) /\ Needed(pc, got) \in {got, <<got[1]>>}
        /\ pc = "request" => Len(Needed(pc, got)) = 1
        /\ pc # "request" => Needed(pc, got) = got
    BY <1>3 DEF Needed
  <1>6. /\ r \in Op /\ r.pc = pc /\ r.kind = op[q].kind /\ r.mine = 0
        /\ r.got = Needed(pc, got)
    BY <1>1, <1>4, <1>5 DEF Op, Places
  <1>7. Len(r.got) <= 3 /\ Shape(r)
    <2>1. Len(r.got) <= 3
      BY <1>2, <1>3, <1>5, <1>6
    <2>2. CASE pc = "request"
      BY <1>4, <1>5, <1>6, <2>1, <2>2 DEF Shape
    <2>3. CASE pc = "enter"
      BY <1>4, <1>5, <1>6, <2>1, <2>3 DEF Shape
    <2>4. CASE pc = "dialogs"
      BY <1>4, <1>5, <1>6, <2>1, <2>4 DEF Shape
    <2> QED
      BY <1>4, <2>2, <2>3, <2>4
  <1>8. r = After(q, c)
    BY DEF After, got, pc
  <1> QED
    BY <1>4, <1>5, <1>6, <1>7, <1>8 DEF got

(* The other steps of a coroutine. *)
LEMMA WentOn ==
  ASSUME TypeInv, NEW q \in Callers, NEW pc \in Places, op' = [op EXCEPT ![q].pc = pc],
         Shape([op[q] EXCEPT !.pc = pc])
  PROVE  Moved(q, pc, op[q].kind, op[q].got, op[q].mine)
  <1> DEFINE c == [op[q] EXCEPT !.pc = pc]
  <1>1. op \in [Callers -> Op] /\ Len(op[q].got) <= 3
    BY DEF TypeInv, TypeOK
  <1>2. /\ c \in Op /\ c.pc = pc /\ c.kind = op[q].kind /\ c.got = op[q].got /\ c.mine = op[q].mine
    BY <1>1 DEF Op
  <1>3. op' = [op EXCEPT ![q] = c]
    BY <1>1
  <1> HIDE DEF c
  <1>4. Shape(c)
    BY DEF c
  <1> QED
    BY <1>1, <1>2, <1>3, <1>4, MovedBy

LEMMA EnterMoves ==
  ASSUME TypeInv, NEW q \in Callers, Enter(q)
  PROVE  \/ /\ entry \in Clients /\ client[entry].up /\ UNCHANGED lock
            /\ \E pc \in {"enter", "dialogs", "request"},
                  got \in {Append(op[q].got, entry), <<Append(op[q].got, entry)[1]>>} :
                 Moved(q, pc, op[q].kind, got, 0)
         \/ /\ entry = 0 \/ ~client[entry].up
            /\ lock = None /\ lock' = q
            /\ Moved(q, "load", op[q].kind, op[q].got, 0)
  <1>1. op[q].pc = "enter" /\ op[q].mine = 0 /\ entry \in Clients \cup {0}
    BY DEF Enter, At, TypeInv, TypeOK, Shape
  <1>2. CASE entry # 0 /\ client[entry].up
    <2> DEFINE r == After(q, entry)
    <2>1. op' = [op EXCEPT ![q] = r] /\ UNCHANGED lock /\ entry \in Clients
      BY <1>1, <1>2 DEF Enter
    <2>2. /\ r \in Op /\ Len(r.got) <= 3 /\ Shape(r)
          /\ r.pc \in {"enter", "dialogs", "request"} /\ r.kind = op[q].kind /\ r.mine = 0
          /\ r.got \in {Append(op[q].got, entry), <<Append(op[q].got, entry)[1]>>}
      BY <1>1, <2>1, AfterIs
    <2> HIDE DEF r
    <2>3. Moved(q, r.pc, r.kind, r.got, r.mine)
      BY <2>1, <2>2, MovedBy
    <2> QED
      BY <1>2, <2>1, <2>2, <2>3
  <1>3. CASE ~(entry # 0 /\ client[entry].up)
    <2>1. op' = [op EXCEPT ![q].pc = "load"] /\ lock' = q /\ lock = None
      BY <1>3 DEF Enter, Locked
    <2>2. Shape([op[q] EXCEPT !.pc = "load"])
      BY <1>1 DEF TypeInv, TypeOK, Op, Shape
    <2>3. Moved(q, "load", op[q].kind, op[q].got, op[q].mine)
      BY <2>1, <2>2, WentOn DEF Places
    <2> QED
      BY <1>1, <1>3, <2>1, <2>3
  <1> QED
    BY <1>2, <1>3

LEMMA LoadMoves ==
  ASSUME TypeInv, NEW q \in Callers, Load(q)
  PROVE  \/ Ended(q) /\ lock' = FreeLock(q) /\ Becomes(client)
         \/ /\ row.active /\ row.session # 0 /\ UNCHANGED lock
            /\ \E c \in Free : /\ Moved(q, "connect", op[q].kind, op[q].got, c)
                               /\ Becomes([client EXCEPT ![c] = [Gone EXCEPT !.session = row.session]])
  <1>1. op[q].pc = "load" /\ op \in [Callers -> Op] /\ Len(op[q].got) <= 3
    BY DEF Load, At, TypeInv, TypeOK
  <1>2. CASE row.active /\ row.session # 0
    <2> DEFINE c == CHOOSE c \in Free : TRUE
               o == [op[q] EXCEPT !.pc = "connect", !.mine = c]
    <2>1. c \in Free /\ c \in Clients
      BY <1>2 DEF Load, Free
    <2>2. /\ op' = [op EXCEPT ![q].pc = "connect", ![q].mine = c] /\ UNCHANGED lock
          /\ Becomes([client EXCEPT ![c] = [Gone EXCEPT !.session = row.session]])
      BY <1>2 DEF Load
    <2> HIDE DEF c
    <2>3. op' = [op EXCEPT ![q] = o]
      BY <1>1, <2>2
    <2>4. /\ o \in Op /\ o.pc = "connect" /\ o.kind = op[q].kind /\ o.got = op[q].got /\ o.mine = c
      BY <1>1, <2>1 DEF Op, Places
    <2> HIDE DEF o
    <2>5. c # 0
      BY <2>1, PoolAssumption DEF Clients
    <2>6. Shape(o)
      BY <1>1, <2>4, <2>5 DEF TypeInv, Shape
    <2>7. Moved(q, o.pc, o.kind, o.got, o.mine)
      BY <1>1, <2>3, <2>4, <2>6, MovedBy
    <2> QED
      BY <1>2, <2>1, <2>2, <2>4, <2>7
  <1>3. CASE ~(row.active /\ row.session # 0)
    BY <1>3, EndedBy DEF Load
  <1> QED
    BY <1>2, <1>3

LEMMA ConnectMoves ==
  ASSUME TypeInv, NEW q \in Callers, Connect(q)
  PROVE  LET c == op[q].mine
         IN  /\ c \in Clients /\ Becomes([client EXCEPT ![c].up = TRUE])
             /\ \/ /\ Alive(c) /\ entry' = c /\ lock' = FreeLock(q)
                   /\ \E pc \in {"enter", "dialogs", "request"},
                         got \in {Append(op[q].got, c), <<Append(op[q].got, c)[1]>>} :
                        Moved(q, pc, op[q].kind, got, 0)
                \/ /\ ~Alive(c) /\ UNCHANGED <<entry, lock>>
                   /\ Moved(q, "revoke", op[q].kind, <<>>, c)
  <1> DEFINE c == op[q].mine
  <1>1. op[q].pc = "connect" /\ op \in [Callers -> Op] /\ c \in Clients /\ c # 0
    BY DEF Connect, At, TypeInv, TypeOK, Shape, Op
  <1>2. Becomes([client EXCEPT ![c].up = TRUE])
    BY DEF Connect
  <1>3. CASE Alive(c)
    <2> DEFINE r == After(q, c)
    <2>1. op' = [op EXCEPT ![q] = r] /\ entry' = c /\ lock' = FreeLock(q)
      BY <1>3 DEF Connect
    <2>2. /\ r \in Op /\ Len(r.got) <= 3 /\ Shape(r)
          /\ r.pc \in {"enter", "dialogs", "request"} /\ r.kind = op[q].kind /\ r.mine = 0
          /\ r.got \in {Append(op[q].got, c), <<Append(op[q].got, c)[1]>>}
      BY <1>1, AfterIs
    <2> HIDE DEF r
    <2>3. Moved(q, r.pc, r.kind, r.got, r.mine)
      BY <2>1, <2>2, MovedBy
    <2> QED
      BY <1>1, <1>2, <1>3, <2>1, <2>2, <2>3
  <1>4. CASE ~Alive(c)
    <2> DEFINE o == [op[q] EXCEPT !.pc = "revoke", !.got = <<>>]
    <2>1. op' = [op EXCEPT ![q] = o] /\ UNCHANGED <<entry, lock>>
      BY <1>1, <1>4 DEF Connect
    <2>2. /\ o \in Op /\ o.pc = "revoke" /\ o.kind = op[q].kind /\ o.got = <<>> /\ o.mine = c
      BY <1>1, NoneAtHand DEF Op, Places
    <2> HIDE DEF o
    <2>3. Len(o.got) <= 3 /\ Shape(o)
      BY <1>1, <2>2 DEF Shape
    <2>4. Moved(q, o.pc, o.kind, o.got, o.mine)
      BY <2>1, <2>2, <2>3, MovedBy
    <2> QED
      BY <1>1, <1>2, <1>4, <2>1, <2>2, <2>4
  <1> QED
    BY <1>3, <1>4

(* An answer of Telegram to q about a client at hand. *)
LEMMA UnregisteredMoves ==
  ASSUME TypeInv, NEW q \in Callers, NEW c \in Clients, Unregistered(q, c)
  PROVE  Moved(q, "revoke", op[q].kind, <<>>, c) /\ UNCHANGED <<client, stray>>
  <1> DEFINE o == [op[q] EXCEPT !.pc = "revoke", !.mine = c, !.got = <<>>]
  <1>1. op \in [Callers -> Op] /\ c # 0
    BY PoolAssumption DEF TypeInv, TypeOK, Clients
  <1>2. op' = [op EXCEPT ![q] = o] /\ UNCHANGED <<client, stray>>
    BY <1>1 DEF Unregistered
  <1>3. /\ o \in Op /\ o.pc = "revoke" /\ o.kind = op[q].kind /\ o.got = <<>> /\ o.mine = c
    BY <1>1, NoneAtHand DEF Op, Places
  <1> HIDE DEF o
  <1>4. Len(o.got) <= 3 /\ Shape(o)
    BY <1>1, <1>3 DEF Shape
  <1>5. Moved(q, o.pc, o.kind, o.got, o.mine)
    BY <1>2, <1>3, <1>4, MovedBy
  <1> QED
    BY <1>2, <1>3, <1>5

LEMMA RevokeMoves ==
  ASSUME TypeInv, NEW q \in Callers
  PROVE  /\ Disconnect(q) => /\ op[q].mine \in Clients
                             /\ Moved(q, "row", op[q].kind, <<>>, 0)
         /\ RevokeRow(q) => Moved(q, "pop", op[q].kind, <<>>, 0)
  <1>1. op \in [Callers -> Op] /\ Len(op[q].got) <= 3
    BY DEF TypeInv, TypeOK
  <1>2. ASSUME Disconnect(q)
        PROVE  op[q].mine \in Clients /\ Moved(q, "row", op[q].kind, <<>>, 0)
    <2> DEFINE o == [op[q] EXCEPT !.pc = "row", !.mine = 0]
    <2>1. op' = [op EXCEPT ![q] = o]
      BY <1>1, <1>2 DEF Disconnect
    <2>2. op[q].mine \in Clients /\ op[q].got = <<>>
      BY <1>1, <1>2 DEF Disconnect, At, TypeInv, Shape, Op
    <2>3. /\ o \in Op /\ o.pc = "row" /\ o.kind = op[q].kind /\ o.got = <<>> /\ o.mine = 0
      BY <1>1, <2>2 DEF Op, Places
    <2> HIDE DEF o
    <2>4. Len(o.got) <= 3 /\ Shape(o)
      BY <1>1, <2>2, <2>3 DEF Shape
    <2>5. Moved(q, o.pc, o.kind, o.got, o.mine)
      BY <2>1, <2>3, <2>4, MovedBy
    <2> QED
      BY <2>2, <2>3, <2>5
  <1>3. ASSUME RevokeRow(q)
        PROVE  Moved(q, "pop", op[q].kind, <<>>, 0)
    <2>1. op' = [op EXCEPT ![q].pc = "pop"] /\ op[q].mine = 0 /\ op[q].got = <<>>
      BY <1>1, <1>3 DEF RevokeRow, At, TypeInv, Shape
    <2>2. Shape([op[q] EXCEPT !.pc = "pop"])
      BY <1>1, <2>1 DEF Op, Shape
    <2>3. Moved(q, "pop", op[q].kind, op[q].got, op[q].mine)
      BY <2>1, <2>2, WentOn DEF Places
    <2> QED
      BY <2>1, <2>3
  <1> QED
    BY <1>2, <1>3

LEMMA NewestIs ==
  ASSUME TypeInv, NEW q \in Callers, op[q].pc \in {"dialogs", "list"}
  PROVE  /\ Newest(q) \in Clients /\ \E i \in 1..Len(op[q].got) : Newest(q) = op[q].got[i]
         /\ op[q].kind = "messages" => op[q].got[1] \in Clients
  <1>1. /\ op[q].got \in Seq(Clients) /\ op[q].kind \in Kinds
        /\ Len(op[q].got) = IF op[q].kind = "dialogs" THEN 1 ELSE 3
    BY DEF TypeInv, TypeOK, Op, Shape
  <1> QED
    BY <1>1 DEF Newest, Kinds

LEMMA DialogsMoves ==
  ASSUME TypeInv, NEW q \in Callers, Dialogs(q)
  PROVE  \/ Ended(q) /\ Becomes(client)
         \/ /\ Moved(q, "list", op[q].kind, op[q].got, 0)
            /\ Newest(q) \in Clients /\ Becomes([client EXCEPT ![Newest(q)].lock = q])
  <1>1. op[q].pc = "dialogs" /\ op[q].mine = 0 /\ op \in [Callers -> Op]
    BY DEF Dialogs, At, TypeInv, TypeOK, Shape
  <1>2. CASE Done(q) /\ Becomes(client)
    BY <1>2, EndedBy
  <1>3. CASE op' = [op EXCEPT ![q].pc = "list"] /\ Becomes([client EXCEPT ![Newest(q)].lock = q])
    <2>1. Shape([op[q] EXCEPT !.pc = "list"])
      BY <1>1 DEF TypeInv, Op, Shape
    <2>2. Moved(q, "list", op[q].kind, op[q].got, op[q].mine)
      BY <1>3, <2>1, WentOn DEF Places
    <2> QED
      BY <1>1, <1>3, <2>2, NewestIs
  <1> QED
    BY <1>2, <1>3 DEF Dialogs

LEMMA ListMoves ==
  ASSUME TypeInv, NEW q \in Callers, List(q)
  PROVE  LET c == Newest(q)
         IN  /\ c \in Clients /\ \E i \in 1..Len(op[q].got) : c = op[q].got[i]
             /\ \/ /\ client[c].up /\ ~Alive(c) /\ UNCHANGED <<client, stray>>
                   /\ Moved(q, "revoke", op[q].kind, <<>>, c)
                \/ Ended(q) /\ Becomes(FreeEntryLock(q))
                \/ \E found \in BOOLEAN :
                     /\ Becomes([client EXCEPT ![c] = [client[c] EXCEPT !.lock = None, !.known = @ \/ found]])
                     /\ \/ Ended(q)
                        \/ Moved(q, "request", op[q].kind, <<op[q].got[1]>>, 0)
  <1> DEFINE c == Newest(q)
  <1>1. op[q].pc = "list" /\ op[q].mine = 0 /\ op \in [Callers -> Op] /\ op[q].got \in Seq(Clients)
    BY DEF List, At, TypeInv, TypeOK, Shape, Op
  <1>2. c \in Clients /\ (op[q].kind = "messages" => op[q].got[1] \in Clients)
        /\ \E i \in 1..Len(op[q].got) : c = op[q].got[i]
    BY <1>1, NewestIs
  <1> HIDE DEF c
  <1>3. CASE client[c].up /\ ~Alive(c) /\ Unregistered(q, c)
    BY <1>2, <1>3, UnregisteredMoves DEF c
  <1>4. CASE Refused(q, c)
    BY <1>2, <1>4, EndedBy DEF Refused, Fails, c
  <1>5. ASSUME NEW found \in BOOLEAN,
               LET seen == [client[c] EXCEPT !.lock = None, !.known = @ \/ found]
                   all == [client EXCEPT ![c] = seen]
               IN  /\ op' = IF op[q].kind = "messages" /\ all[op[q].got[2]].known
                            THEN [op EXCEPT ![q].pc = "request", ![q].got = Needed("request", @)]
                            ELSE [op EXCEPT ![q] = Idle]
                   /\ Becomes(all)
        PROVE  /\ Becomes([client EXCEPT ![c] = [client[c] EXCEPT !.lock = None, !.known = @ \/ found]])
               /\ \/ Ended(q)
                  \/ Moved(q, "request", op[q].kind, <<op[q].got[1]>>, 0)
    <2> DEFINE o == [op[q] EXCEPT !.pc = "request", !.got = <<op[q].got[1]>>]
    <2>1. Becomes([client EXCEPT ![c] = [client[c] EXCEPT !.lock = None, !.known = @ \/ found]])
      BY <1>5
    <2>2. \/ Done(q)
          \/ op[q].kind = "messages" /\ op' = [op EXCEPT ![q] = o]
      BY <1>1, <1>5 DEF Done, Needed
    <2>3. CASE op[q].kind = "messages" /\ op' = [op EXCEPT ![q] = o]
      <3>1. <<op[q].got[1]>> \in Seq(Clients) /\ Len(<<op[q].got[1]>>) = 1
        BY <1>2, <2>3
      <3>2. /\ o \in Op /\ o.pc = "request" /\ o.kind = op[q].kind /\ o.got = <<op[q].got[1]>>
            /\ o.mine = 0
        BY <1>1, <3>1 DEF Op, Places
      <3> HIDE DEF o
      <3>3. Len(o.got) <= 3 /\ Shape(o)
        BY <2>3, <3>1, <3>2 DEF Shape
      <3>4. Moved(q, o.pc, o.kind, o.got, o.mine)
        BY <2>3, <3>2, <3>3, MovedBy
      <3> QED
        BY <2>1, <3>2, <3>4
    <2> QED
      BY <2>1, <2>2, <2>3, EndedBy
  <1> QED
    BY <1>2, <1>3, <1>4, <1>5 DEF List, c

LEMMA RequestMoves ==
  ASSUME TypeInv, NEW q \in Callers, Request(q)
  PROVE  \/ Ended(q) /\ Becomes(client)
         \/ UNCHANGED <<client, stray>> /\ Moved(q, "sent", op[q].kind, op[q].got, 0)
  <1>1. op[q].pc = "request" /\ op[q].mine = 0 /\ op \in [Callers -> Op]
    BY DEF Request, At, TypeInv, TypeOK, Shape
  <1>2. CASE op' = [op EXCEPT ![q].pc = "sent"] /\ UNCHANGED <<client, stray>>
    <2>1. Shape([op[q] EXCEPT !.pc = "sent"])
      BY <1>1 DEF TypeInv, TypeOK, Shape, Op
    <2> QED
      BY <1>1, <1>2, <2>1, WentOn DEF Places
  <1>3. CASE Done(q) /\ Becomes(client)
    BY <1>3, EndedBy
  <1> QED
    BY <1>2, <1>3 DEF Request

LEMMA AnswerMoves ==
  ASSUME TypeInv, NEW q \in Callers, Answer(q)
  PROVE  LET c == op[q].got[1]
         IN  /\ c \in Clients /\ 1 \in DOMAIN op[q].got
             /\ \/ /\ client[c].up /\ ~Alive(c) /\ UNCHANGED <<client, stray>>
                   /\ Moved(q, "revoke", op[q].kind, <<>>, c)
                \/ Ended(q) /\ Becomes(FreeEntryLock(q))
                \/ Ended(q) /\ Becomes(client)
  <1>1. op[q].pc = "sent" /\ op[q].got \in Seq(Clients) /\ Len(op[q].got) = 1
    BY DEF Answer, At, TypeInv, TypeOK, Shape, Op
  <1>2. op[q].got[1] \in Clients /\ 1 \in DOMAIN op[q].got
    BY <1>1
  <1> QED
    BY <1>2, UnregisteredMoves, EndedBy DEF Answer, Refused, Fails

LEMMA StartMoves ==
  ASSUME TypeInv, NEW q \in Callers, NEW kind \in Kinds, Start(q, kind)
  PROVE  Moved(q, "enter", kind, <<>>, 0)
  <1> DEFINE o == [Idle EXCEPT !.pc = "enter", !.kind = kind]
  <1>1. op' = [op EXCEPT ![q] = o]
    BY DEF Start
  <1>2. /\ o \in Op /\ o.pc = "enter" /\ o.kind = kind /\ o.got = <<>> /\ o.mine = 0
    BY NoneAtHand DEF Idle, Op, Places
  <1> HIDE DEF o
  <1>3. Len(o.got) <= 3 /\ Shape(o)
    BY <1>2, NoneAtHand DEF Shape
  <1>4. Moved(q, o.pc, o.kind, o.got, o.mine)
    BY <1>1, <1>2, <1>3, MovedBy
  <1> QED
    BY <1>2, <1>4

(***************************************************************************)
(* The clients, and who refers to them.                                    *)
(***************************************************************************)
Same(f) == f \in [Clients -> Client] /\ \A c \in Clients : f[c].session = client[c].session

(* The clients referred to were referred to before, and keep their sessions. *)
Kept ==
  /\ client' \in [Clients -> Client] /\ stray' \in Nat
  /\ Referred' \subseteq Referred \cup {0}
  /\ \A c \in Clients \cap Referred' : client'[c].session = client[c].session

LEMMA BecomesIs ==
  ASSUME TypeInv, NEW f \in [Clients -> Client], Becomes(f)
  PROVE  /\ client' \in [Clients -> Client] /\ stray' \in Nat
         /\ \A c \in Clients : client'[c] = IF c \in Referred' THEN f[c] ELSE Gone
  <1>1. Gone \in Client
    BY PoolAssumption DEF Gone, Client
  <1>2. client' = [c \in Clients |-> IF c \in Referred' THEN f[c] ELSE Gone]
    BY DEF Becomes
  <1>3. stray' \in Nat
    <2> DEFINE S == {c \in Clients \ Referred' : f[c].up}
    <2>1. IsFiniteSet(Clients) /\ S \subseteq Clients
      BY FS_Interval, PoolAssumption DEF Clients
    <2>2. Cardinality(S) \in Nat
      BY <2>1, FS_Subset, FS_CardinalityType
    <2> QED
      BY <2>2 DEF Becomes, TypeInv, TypeOK
  <1> QED
    BY <1>1, <1>2, <1>3

(* The clients that the steps other than Load and Load's error path lead to. *)
LEMMA SameIs ==
  ASSUME TypeInv
  PROVE  /\ Same(client)
         /\ \A c \in Clients, up \in BOOLEAN : Same([client EXCEPT ![c].up = up])
         /\ \A c \in Clients, q \in Callers : Same([client EXCEPT ![c].lock = q])
         /\ \A q \in Callers : Same(FreeEntryLock(q))
         /\ \A c \in Clients, found \in BOOLEAN :
              Same([client EXCEPT ![c] = [client[c] EXCEPT !.lock = None, !.known = @ \/ found]])
  <1>1. client \in [Clients -> Client]
    BY DEF TypeInv, TypeOK
  <1>2. ASSUME NEW c \in Clients, NEW up \in BOOLEAN
        PROVE  Same([client EXCEPT ![c].up = up])
    BY <1>1 DEF Same, Client
  <1>3. ASSUME NEW c \in Clients, NEW q \in Callers
        PROVE  Same([client EXCEPT ![c].lock = q])
    BY <1>1 DEF Same, Client
  <1>4. ASSUME NEW q \in Callers
        PROVE  Same(FreeEntryLock(q))
    BY <1>1 DEF Same, Client, FreeEntryLock
  <1>5. ASSUME NEW c \in Clients, NEW found \in BOOLEAN
        PROVE  Same([client EXCEPT ![c] = [client[c] EXCEPT !.lock = None, !.known = @ \/ found]])
    <2> DEFINE e == [client[c] EXCEPT !.lock = None, !.known = @ \/ found]
    <2>1. e \in Client /\ e.session = client[c].session
      BY <1>1 DEF Client
    <2> HIDE DEF e
    <2>2. Same([client EXCEPT ![c] = e])
      BY <1>1, <2>1 DEF Same
    <2> QED
      BY <2>2 DEF e
  <1>6. Same(client)
    BY <1>1 DEF Same
  <1> QED
    BY <1>2, <1>3, <1>4, <1>5, <1>6

(* What q refers to after a step is what its local variables say. *)
LEMMA RefersTo ==
  ASSUME TypeInv, NEW q \in Callers, NEW pc, NEW kind, NEW got, NEW mine,
         Moved(q, pc, kind, got, mine), NEW S, Referred \cup {0} \subseteq S,
         \A i \in DOMAIN got : got[i] \in S, mine \in S, entry' \in S
  PROVE  Referred' \subseteq S
  <1>1. \A k \in Callers : /\ \A i \in DOMAIN op'[k].got : op'[k].got[i] \in S
                           /\ op'[k].mine \in S
    <2> SUFFICES ASSUME NEW k \in Callers
                 PROVE  (\A i \in DOMAIN op'[k].got : op'[k].got[i] \in S) /\ op'[k].mine \in S
      OBVIOUS
    <2>1. CASE k = q
      BY <2>1 DEF Moved
    <2>2. CASE k # q
      BY <2>2 DEF Moved, Referred
    <2> QED
      BY <2>1, <2>2
  <1> QED
    BY <1>1 DEF Referred

(* What can be said of got and mine of a coroutine: they are referred to. *)
LEMMA OwnAre ==
  ASSUME TypeInv, NEW q \in Callers
  PROVE  /\ op[q].mine \in Referred /\ entry \in Referred
         /\ \A i \in DOMAIN op[q].got : op[q].got[i] \in Referred
         /\ \A c \in Referred \cap Clients :
              \A got \in {Append(op[q].got, c), <<Append(op[q].got, c)[1]>>} :
                \A i \in DOMAIN got : got[i] \in Referred
         /\ 1 \in DOMAIN op[q].got => \A i \in DOMAIN <<op[q].got[1]>> : <<op[q].got[1]>>[i] \in Referred
         /\ \A i \in DOMAIN <<>> : <<>>[i] \in Referred
  <1>1. op[q].got \in Seq(Clients)
    BY DEF TypeInv, TypeOK, Op
  <1>2. /\ op[q].mine \in Referred /\ entry \in Referred
        /\ \A i \in DOMAIN op[q].got : op[q].got[i] \in Referred
    BY DEF Referred
  <1> DEFINE got == op[q].got
  <1>3. got \in Seq(Clients) /\ \A i \in 1..Len(got) : got[i] \in Referred
    BY <1>1, <1>2
  <1> HIDE DEF got
  <1>4. ASSUME NEW c \in Referred \cap Clients
        PROVE  /\ \A i \in DOMAIN Append(got, c) : Append(got, c)[i] \in Referred
               /\ \A i \in DOMAIN <<Append(got, c)[1]>> : <<Append(got, c)[1]>>[i] \in Referred
    BY <1>3
  <1> QED
    BY <1>2, <1>4 DEF got

(***************************************************************************)
(* A step of a coroutine that takes no client out of memory.                *)
(***************************************************************************)
Revoking(o) == o.pc \in {"revoke", "row", "pop"}

(* Some client that is referred to has a session that Telegram ended. *)
SomeIsOut == \E c \in Referred \cap Clients : ~Alive(c)

Stepped(q) ==
  /\ TypeInv'
  /\ UNCHANGED <<live, logins, tainted>>
  /\ Kept
  /\ row' = row \/ (Revoking(op[q]) /\ row' = Revoked)
  /\ \A k \in Callers : Revoking(op'[k]) => Revoking(op[k]) \/ SomeIsOut

(* What a step leaves the same, or sets to a value of the right type. *)
Around(q) ==
  /\ UNCHANGED <<live, logins, tainted>>
  /\ entry' \in Referred \cup {0}
  /\ lock' \in Callers \cup {None}
  /\ cuts' \in 0..MaxCuts
  /\ row' = row \/ (Revoking(op[q]) /\ row' = Revoked)
  /\ UNCHANGED <<client, stray>> \/ \E f : Same(f) /\ Becomes(f)

LEMMA ReferredAre ==
  ASSUME TypeInv
  PROVE  Referred \subseteq Clients \cup {0}
  BY DEF TypeInv, TypeOK, Op, Referred

LEMMA SteppedBy ==
  ASSUME TypeInv, NEW q \in Callers, NEW pc, NEW kind, NEW got, NEW mine,
         Moved(q, pc, kind, got, mine), Around(q),
         \A i \in DOMAIN got : got[i] \in Referred, mine \in Referred \cup {0},
         pc \in {"revoke", "row", "pop"} => Revoking(op[q]) \/ SomeIsOut
  PROVE  Stepped(q)
  <1>1. Referred' \subseteq Referred \cup {0}
    BY RefersTo DEF Around
  <1>2. /\ client' \in [Clients -> Client] /\ stray' \in Nat
        /\ \A c \in Clients \cap Referred' : client'[c].session = client[c].session
    <2>1. CASE UNCHANGED <<client, stray>>
      BY <2>1 DEF TypeInv, TypeOK
    <2>2. CASE \E f : Same(f) /\ Becomes(f)
      BY <2>2, BecomesIs DEF Same
    <2> QED
      BY <2>1, <2>2 DEF Around
  <1>3. row' \in [session : 0..MaxSessions, active : BOOLEAN]
    <2>1. 0 \in 0..MaxSessions
      BY PoolAssumption
    <2>2. Revoked \in [session : 0..MaxSessions, active : BOOLEAN]
      BY <2>1 DEF Revoked
    <2> QED
      BY <2>2 DEF Around, TypeInv, TypeOK
  <1>4. TypeInv'
    BY <1>1, <1>2, <1>3, ReferredAre DEF Around, Moved, TypeInv, TypeOK
  <1>5. \A k \in Callers : Revoking(op'[k]) => Revoking(op[k]) \/ SomeIsOut
    BY DEF Moved, Revoking
  <1> QED
    BY <1>1, <1>2, <1>4, <1>5 DEF Stepped, Kept, Around

LEMMA EndedStep ==
  ASSUME TypeInv, NEW q \in Callers, Ended(q), Around(q)
  PROVE  Stepped(q)
  BY SteppedBy DEF Ended

LEMMA TypesOf ==
  ASSUME TypeInv, NEW q \in Callers
  PROVE  /\ lock \in Callers \cup {None} /\ FreeLock(q) \in Callers \cup {None}
         /\ cuts \in 0..MaxCuts /\ (cuts < MaxCuts => cuts + 1 \in 0..MaxCuts)
         /\ entry \in Referred /\ op[q].mine \in Referred
  <1>1. lock \in Callers \cup {None} /\ FreeLock(q) \in Callers \cup {None}
    BY DEF TypeInv, TypeOK, FreeLock
  <1>2. cuts \in 0..MaxCuts /\ (cuts < MaxCuts => cuts + 1 \in 0..MaxCuts)
    BY PoolAssumption DEF TypeInv, TypeOK
  <1> QED
    BY <1>1, <1>2, OwnAre

LEMMA EnterStep ==
  ASSUME TypeInv, NEW q \in Callers, Enter(q)
  PROVE  Stepped(q)
  <1>1. lock' \in Callers \cup {None} => Around(q)
    BY TypesOf DEF Enter, Around
  <1>2. CASE /\ entry \in Clients /\ client[entry].up /\ UNCHANGED lock
             /\ \E pc \in {"enter", "dialogs", "request"},
                   got \in {Append(op[q].got, entry), <<Append(op[q].got, entry)[1]>>} :
                  Moved(q, pc, op[q].kind, got, 0)
    <2>1. Around(q)
      BY <1>1, <1>2, TypesOf
    <2>2. PICK pc \in {"enter", "dialogs", "request"},
               got \in {Append(op[q].got, entry), <<Append(op[q].got, entry)[1]>>} :
            Moved(q, pc, op[q].kind, got, 0)
      BY <1>2
    <2>3. \A i \in DOMAIN got : got[i] \in Referred
      BY <1>2, <2>2, OwnAre
    <2> QED
      BY <2>1, <2>2, <2>3, SteppedBy
  <1>3. CASE lock' = q /\ Moved(q, "load", op[q].kind, op[q].got, 0)
    BY <1>1, <1>3, OwnAre, SteppedBy
  <1> QED
    BY <1>2, <1>3, EnterMoves

LEMMA ConnectStep ==
  ASSUME TypeInv, NEW q \in Callers, Connect(q)
  PROVE  Stepped(q)
  <1> DEFINE c == op[q].mine
  <1>1. c \in Clients /\ Becomes([client EXCEPT ![c].up = TRUE]) /\ c \in Referred
    BY ConnectMoves, OwnAre
  <1>2. Same([client EXCEPT ![c].up = TRUE])
    BY <1>1, SameIs
  <1>3. entry' \in {entry, c} /\ lock' \in {lock, FreeLock(q)}
    BY ConnectMoves
  <1>4. Around(q)
    BY <1>1, <1>2, <1>3, TypesOf DEF Connect, Around
  <1>5. CASE \E pc \in {"enter", "dialogs", "request"},
                got \in {Append(op[q].got, c), <<Append(op[q].got, c)[1]>>} :
               Moved(q, pc, op[q].kind, got, 0)
    <2>1. PICK pc \in {"enter", "dialogs", "request"},
               got \in {Append(op[q].got, c), <<Append(op[q].got, c)[1]>>} :
            Moved(q, pc, op[q].kind, got, 0)
      BY <1>5
    <2>2. \A i \in DOMAIN got : got[i] \in Referred
      BY <1>1, <2>1, OwnAre
    <2> QED
      BY <1>4, <2>1, <2>2, SteppedBy
  <1>6. CASE ~Alive(c) /\ Moved(q, "revoke", op[q].kind, <<>>, c)
    <2>1. SomeIsOut
      BY <1>1, <1>6 DEF SomeIsOut
    <2> QED
      BY <1>1, <1>4, <1>6, <2>1, OwnAre, SteppedBy
  <1> QED
    BY <1>5, <1>6, ConnectMoves

LEMMA ConnectFailsStep ==
  ASSUME TypeInv, NEW q \in Callers, ConnectFails(q)
  PROVE  Stepped(q)
  <1>1. op[q].mine \in Clients
    BY DEF ConnectFails, At, TypeInv, TypeOK, Shape, Op
  <1>2. PICK up \in BOOLEAN : Becomes([client EXCEPT ![op[q].mine].up = up])
    BY DEF ConnectFails
  <1>3. Same([client EXCEPT ![op[q].mine].up = up])
    BY <1>1, SameIs
  <1>4. Around(q)
    BY <1>2, <1>3, TypesOf DEF ConnectFails, Freed, Around
  <1> QED
    BY <1>4, EndedBy, EndedStep DEF ConnectFails

LEMMA RevokeSteps ==
  ASSUME TypeInv, NEW q \in Callers, Disconnect(q) \/ RevokeRow(q) \/ Pop(q)
  PROVE  Stepped(q)
  <1>1. CASE Disconnect(q)
    <2>1. /\ op[q].mine \in Clients /\ Moved(q, "row", op[q].kind, <<>>, 0)
          /\ Revoking(op[q])
      BY <1>1, RevokeMoves DEF Disconnect, At, Revoking
    <2>2. Same([client EXCEPT ![op[q].mine].up = FALSE])
      BY <2>1, SameIs
    <2>3. Around(q)
      BY <1>1, <2>2, TypesOf DEF Disconnect, Around
    <2> QED
      BY <2>1, <2>3, OwnAre, SteppedBy
  <1>2. CASE RevokeRow(q)
    <2>1. Moved(q, "pop", op[q].kind, <<>>, 0) /\ Revoking(op[q])
      BY <1>2, RevokeMoves DEF RevokeRow, At, Revoking
    <2>2. Around(q)
      BY <1>2, <2>1, TypesOf DEF RevokeRow, Around
    <2> QED
      BY <2>1, <2>2, OwnAre, SteppedBy
  <1>3. CASE Pop(q)
    <2>1. Same(FreeEntryLock(q))
      BY SameIs
    <2>2. Around(q)
      BY <1>3, <2>1, TypesOf DEF Pop, Around
    <2> QED
      BY <1>3, <2>2, EndedBy, EndedStep DEF Pop
  <1> QED
    BY <1>1, <1>2, <1>3

LEMMA DialogsStep ==
  ASSUME TypeInv, NEW q \in Callers, Dialogs(q)
  PROVE  Stepped(q)
  <1>1. (\E f : Same(f) /\ Becomes(f)) => Around(q)
    BY TypesOf DEF Dialogs, Around
  <1>2. CASE Ended(q) /\ Becomes(client)
    BY <1>1, <1>2, SameIs, EndedStep
  <1>3. CASE /\ Moved(q, "list", op[q].kind, op[q].got, 0)
             /\ Newest(q) \in Clients /\ Becomes([client EXCEPT ![Newest(q)].lock = q])
    <2>1. Same([client EXCEPT ![Newest(q)].lock = q])
      BY <1>3, SameIs
    <2>2. Around(q)
      BY <1>1, <1>3, <2>1
    <2> QED
      BY <1>3, <2>2, OwnAre, SteppedBy
  <1> QED
    BY <1>2, <1>3, DialogsMoves

LEMMA ListStep ==
  ASSUME TypeInv, NEW q \in Callers, List(q)
  PROVE  Stepped(q)
  <1> DEFINE c == Newest(q)
             f(found) == [client EXCEPT ![c] = [client[c] EXCEPT !.lock = None, !.known = @ \/ found]]
  <1>1. (UNCHANGED <<client, stray>> \/ \E g : Same(g) /\ Becomes(g)) => Around(q)
    BY TypesOf DEF List, Around
  <1>2. c \in Clients /\ c \in Referred
    <2>1. c \in Clients /\ \E i \in 1..Len(op[q].got) : c = op[q].got[i]
      BY ListMoves
    <2>2. DOMAIN op[q].got = 1..Len(op[q].got)
      BY DEF TypeInv, TypeOK, Op
    <2> QED
      BY <2>1, <2>2, OwnAre
  <1>3. CASE /\ client[c].up /\ ~Alive(c) /\ UNCHANGED <<client, stray>>
             /\ Moved(q, "revoke", op[q].kind, <<>>, c)
    <2>1. SomeIsOut
      BY <1>2, <1>3 DEF SomeIsOut
    <2> QED
      BY <1>1, <1>2, <1>3, <2>1, OwnAre, SteppedBy
  <1>4. CASE Ended(q) /\ Becomes(FreeEntryLock(q))
    BY <1>1, <1>4, SameIs, EndedStep
  <1>5. ASSUME NEW found \in BOOLEAN, Becomes(f(found)),
               Ended(q) \/ Moved(q, "request", op[q].kind, <<op[q].got[1]>>, 0)
        PROVE  Stepped(q)
    <2>1. Around(q)
      BY <1>1, <1>2, <1>5, SameIs
    <2>2. 1 \in DOMAIN op[q].got
      <3>1. op[q].got \in Seq(Clients) /\ Len(op[q].got) \in {1, 3}
        BY DEF List, At, TypeInv, TypeOK, Op, Shape
      <3> QED
        BY <3>1
    <2>3. \A i \in DOMAIN <<op[q].got[1]>> : <<op[q].got[1]>>[i] \in Referred
      BY <2>2, OwnAre
    <2> QED
      BY <1>5, <2>1, <2>3, EndedStep, SteppedBy
  <1> QED
    BY <1>3, <1>4, <1>5, ListMoves

LEMMA RequestStep ==
  ASSUME TypeInv, NEW q \in Callers, Request(q)
  PROVE  Stepped(q)
  <1>1. (UNCHANGED <<client, stray>> \/ \E f : Same(f) /\ Becomes(f)) => Around(q)
    BY TypesOf DEF Request, Around
  <1>2. CASE Ended(q) /\ Becomes(client)
    BY <1>1, <1>2, SameIs, EndedStep
  <1>3. CASE UNCHANGED <<client, stray>> /\ Moved(q, "sent", op[q].kind, op[q].got, 0)
    BY <1>1, <1>3, OwnAre, SteppedBy
  <1> QED
    BY <1>2, <1>3, RequestMoves

LEMMA AnswerStep ==
  ASSUME TypeInv, NEW q \in Callers, Answer(q)
  PROVE  Stepped(q)
  <1> DEFINE c == op[q].got[1]
  <1>1. (UNCHANGED <<client, stray>> \/ \E f : Same(f) /\ Becomes(f)) => Around(q)
    BY TypesOf DEF Answer, Around
  <1>2. c \in Clients /\ c \in Referred
    BY AnswerMoves, OwnAre
  <1>3. CASE /\ client[c].up /\ ~Alive(c) /\ UNCHANGED <<client, stray>>
             /\ Moved(q, "revoke", op[q].kind, <<>>, c)
    <2>1. SomeIsOut
      BY <1>2, <1>3 DEF SomeIsOut
    <2> QED
      BY <1>1, <1>2, <1>3, <2>1, OwnAre, SteppedBy
  <1>4. CASE Ended(q) /\ (Becomes(FreeEntryLock(q)) \/ Becomes(client))
    BY <1>1, <1>4, SameIs, EndedStep
  <1> QED
    BY <1>3, <1>4, AnswerMoves

LEMMA StartStep ==
  ASSUME TypeInv, NEW q \in Callers, NEW kind \in Kinds, Start(q, kind)
  PROVE  Stepped(q)
  <1>1. Around(q)
    BY TypesOf DEF Start, Around
  <1> QED
    BY <1>1, StartMoves, OwnAre, SteppedBy

(***************************************************************************)
(* Load, and the environment.                                              *)
(***************************************************************************)

(* A coroutine that loads a session is given a client with it. *)
Loaded(q, c) ==
  /\ row.active /\ row.session # 0 /\ c \in Free
  /\ UNCHANGED <<row, live, logins, entry, lock, cuts, tainted>>
  /\ Moved(q, "connect", op[q].kind, op[q].got, c)
  /\ client' \in [Clients -> Client] /\ stray' \in Nat
  /\ Referred' \subseteq Referred \cup {0, c}
  /\ \A k \in Clients \cap Referred' : client'[k].session = IF k = c THEN row.session ELSE client[k].session

LEMMA LoadStep ==
  ASSUME TypeInv, NEW q \in Callers, Load(q)
  PROVE  TypeInv' /\ (Stepped(q) \/ \E c \in Clients : Loaded(q, c))
  <1>1. CASE Ended(q) /\ lock' = FreeLock(q) /\ Becomes(client)
    <2>1. Around(q)
      BY <1>1, TypesOf, SameIs DEF Load, Around
    <2> QED
      BY <1>1, <2>1, EndedStep DEF Stepped
  <1>2. ASSUME NEW c \in Free, row.active, row.session # 0, UNCHANGED lock,
               Moved(q, "connect", op[q].kind, op[q].got, c),
               Becomes([client EXCEPT ![c] = [Gone EXCEPT !.session = row.session]])
        PROVE  TypeInv' /\ \E k \in Clients : Loaded(q, k)
    <2> DEFINE e == [Gone EXCEPT !.session = row.session]
               f == [client EXCEPT ![c] = e]
    <2>1. c \in Clients /\ client \in [Clients -> Client]
      BY DEF Free, TypeInv, TypeOK
    <2>2. e \in Client /\ e.session = row.session
      BY DEF Gone, Client, TypeInv, TypeOK
    <2> HIDE DEF e
    <2>3. f \in [Clients -> Client] /\ \A k \in Clients : f[k].session = IF k = c THEN row.session ELSE client[k].session
      BY <2>1, <2>2
    <2>4. Becomes(f)
      BY <1>2 DEF e
    <2> HIDE DEF f
    <2>5. /\ client' \in [Clients -> Client] /\ stray' \in Nat
          /\ \A k \in Clients \cap Referred' : client'[k] = f[k]
      BY <2>3, <2>4, BecomesIs
    <2>6. UNCHANGED <<row, live, logins, entry, lock, cuts, tainted>>
      BY <1>2 DEF Load
    <2>7. Referred' \subseteq Referred \cup {0, c}
      <3>1. \A i \in DOMAIN op[q].got : op[q].got[i] \in Referred \cup {0, c}
        BY OwnAre
      <3>2. entry' \in Referred \cup {0, c}
        BY <2>6, OwnAre
      <3> QED
        BY <1>2, <3>1, <3>2, RefersTo
    <2>8. Loaded(q, c)
      BY <1>2, <2>3, <2>5, <2>6, <2>7 DEF Loaded
    <2>9. TypeInv'
      BY <1>2, <2>5, <2>6 DEF Moved, TypeInv, TypeOK
    <2> QED
      BY <2>1, <2>8, <2>9
  <1> QED
    BY <1>1, <1>2, LoadMoves

LEMMA StepIs ==
  ASSUME TypeInv, NEW q \in Callers, Step(q)
  PROVE  TypeInv' /\ (Stepped(q) \/ \E c \in Clients : Loaded(q, c))
  <1>1. CASE Load(q)
    BY <1>1, LoadStep
  <1>2. CASE ~Load(q)
    BY <1>2, EnterStep, ConnectStep, ConnectFailsStep, RevokeSteps, DialogsStep, ListStep, RequestStep,
       AnswerStep DEF Step, Stepped
  <1> QED
    BY <1>1, <1>2

(* The steps that are nobody's: the coroutines stay where they are. *)
Outside ==
  /\ TypeInv'
  /\ UNCHANGED op
  /\ \/ /\ UNCHANGED <<row, logins, tainted>> /\ live' \subseteq live
        /\ Kept
     \/ StoreSession

LEMMA OutsideIs ==
  ASSUME TypeInv,
         StoreSession \/ (\E s \in live : Terminate(s)) \/ (\E c \in Clients : Drop(c)) \/ Close
  PROVE  Outside
  <1> USE DEF TypeInv, TypeOK
  <1>1. UNCHANGED op /\ ((entry' \in {0, entry}) => Referred' \subseteq Referred \cup {0})
    <2>1. UNCHANGED op
      BY DEF StoreSession, Terminate, Drop, Close
    <2> QED
      BY <2>1 DEF Referred
  <1>2. UNCHANGED <<client, stray, entry>> => Kept
    BY <1>1 DEF Kept
  <1>3. ASSUME NEW f, Same(f), Becomes(f), entry' \in {0, entry}
        PROVE  Kept
    BY <1>1, <1>3, BecomesIs DEF Kept, Same
  <1>5. CASE StoreSession
    <2>1. /\ logins' = logins + 1 /\ logins' \in 1..MaxSessions /\ logins' \in 0..MaxSessions
          /\ live' = live \cup {logins'} /\ row' = [session |-> logins', active |-> TRUE]
      BY <1>5, PoolAssumption DEF StoreSession
    <2>2. row' \in [session : 0..MaxSessions, active : BOOLEAN]
      BY <2>1
    <2>3. live' \subseteq 1..logins'
      <3>1. live \subseteq 1..logins /\ logins \in Nat
        BY PoolAssumption
      <3> QED
        BY <2>1, <3>1
    <2>4. tainted' \in BOOLEAN
      BY <1>5 DEF StoreSession
    <2>5. UNCHANGED <<client, stray, entry, lock, op, cuts>>
      BY <1>5 DEF StoreSession
    <2>6. TypeInv'
      BY <2>1, <2>2, <2>3, <2>4, <2>5
    <2> QED
      BY <1>1, <1>5, <2>6 DEF Outside
  <1>6. CASE \E s \in live : Terminate(s)
    BY <1>1, <1>2, <1>6 DEF Terminate, Outside
  <1>7. CASE \E c \in Clients : Drop(c)
    <2>1. PICK c \in Clients : Drop(c)
      BY <1>7
    <2>2. Kept
      BY <1>3, <2>1, SameIs DEF Drop
    <2>3. cuts' \in 0..MaxCuts
      BY <2>1, PoolAssumption DEF Drop
    <2> QED
      BY <1>1, <2>1, <2>2, <2>3 DEF Drop, Outside, Kept
  <1>8. CASE Close
    <2>1. entry \in Clients /\ entry' = 0
      BY <1>8 DEF Close
    <2>2. Kept
      BY <1>3, <1>8, <2>1, SameIs DEF Close
    <2>3. cuts' \in 0..MaxCuts
      BY <1>8, PoolAssumption DEF Close
    <2> QED
      BY <1>1, <1>8, <2>1, <2>2, <2>3 DEF Close, Outside, Kept
  <1> QED
    BY <1>5, <1>6, <1>7, <1>8

(***************************************************************************)
(* The invariants.                                                         *)
(***************************************************************************)
LEMMA InitTypes == Init => TypeInv /\ Referred = {0} /\ \A q \in Callers : op[q] = Idle
  <1> SUFFICES ASSUME Init
               PROVE  TypeInv /\ Referred = {0} /\ \A q \in Callers : op[q] = Idle
    OBVIOUS
  <1>1. Idle \in Op /\ Len(Idle.got) <= 3 /\ Shape(Idle) /\ Idle.got = <<>> /\ Idle.mine = 0
    BY DEF Idle, Op, Places, Kinds, Shape
  <1>2. {0, 1} \subseteq 0..MaxSessions /\ 1 \in 1..MaxSessions /\ 0 \in 0..MaxCuts
    BY PoolAssumption
  <1>3. Gone \in Client
    BY <1>2 DEF Gone, Client
  <1>4. row \in [session : 0..MaxSessions, active : BOOLEAN] /\ live \subseteq 1..logins
    BY <1>2 DEF Init
  <1>5. \A q \in Callers : op[q] = Idle
    BY DEF Init
  <1>6. TypeInv
    BY <1>1, <1>2, <1>3, <1>4, <1>5 DEF Init, TypeInv, TypeOK
  <1>7. Referred = {0}
    <2>1. \A q \in Callers : {op[q].got[i] : i \in DOMAIN op[q].got} \cup {op[q].mine} = {0}
      BY <1>1, <1>5
    <2> QED
      BY <2>1 DEF Referred, Init
  <1> QED
    BY <1>5, <1>6, <1>7

(* What a step comes to. *)
LEMMA NextIs ==
  ASSUME TypeInv, Next
  PROVE  /\ TypeInv'
         /\ \/ \E q \in Callers : Stepped(q) \/ \E c \in Clients : Loaded(q, c)
            \/ Outside
  <1>1. CASE \E q \in Callers : Step(q)
    BY <1>1, StepIs
  <1>2. CASE \E q \in Callers : \E kind \in Kinds : Start(q, kind)
    BY <1>2, StartStep DEF Stepped
  <1>3. CASE StoreSession \/ (\E s \in live : Terminate(s)) \/ (\E c \in Clients : Drop(c)) \/ Close
    BY <1>3, OutsideIs DEF Outside
  <1> QED
    BY <1>1, <1>2, <1>3 DEF Next

LEMMA TypesStay ==
  ASSUME TypeInv, UNCHANGED vars
  PROVE  TypeInv'
  BY DEF TypeInv, TypeOK, vars

(* Whatever the coroutines ask of the pool, each variable keeps to its values *)
(* and each coroutine to the clients that its place in _entry, dialogs,     *)
(* input_peer and _mark_revoked says it has.                               *)
THEOREM PoolKeepsToItsTypes == Spec => []TypeInv
  <1>1. Init => TypeInv
    BY InitTypes
  <1>2. TypeInv /\ [Next]_vars => TypeInv'
    BY NextIs, TypesStay
  <1> QED
    BY <1>1, <1>2, PTL DEF Spec

(* After a login that found no client of an earlier session: the row, and    *)
(* every client at hand, is of the login, and nobody revokes while Telegram  *)
(* accepts its session.                                                    *)
FreshInv ==
  ~tainted =>
    /\ row.session \in {0, logins}
    /\ \A c \in Referred \cap Clients : client[c].session = logins
    /\ logins \in live => /\ row = [session |-> logins, active |-> TRUE]
                          /\ \A q \in Callers : ~Revoking(op[q])

LEMMA FreshStep ==
  ASSUME TypeInv, FreshInv, NEW q \in Callers, Stepped(q)
  PROVE  FreshInv'
  <1> SUFFICES ASSUME ~tainted
               PROVE  FreshInv'
    BY DEF FreshInv, Stepped
  <1>1. row'.session \in {0, logins} /\ UNCHANGED <<live, logins, tainted>>
    BY DEF FreshInv, Stepped, Revoked
  <1>2. ASSUME NEW c \in Referred' \cap Clients
        PROVE  client'[c].session = logins
    <2>1. c \in Referred
      BY PoolAssumption DEF Stepped, Kept, Clients
    <2> QED
      BY <2>1 DEF FreshInv, Stepped, Kept
  <1>3. ASSUME logins \in live
        PROVE  /\ row' = [session |-> logins, active |-> TRUE]
               /\ \A k \in Callers : ~Revoking(op'[k])
    <2>1. ~SomeIsOut
      BY <1>3 DEF FreshInv, SomeIsOut, Alive
    <2> QED
      BY <1>3, <2>1 DEF FreshInv, Stepped
  <1> QED
    BY <1>1, <1>2, <1>3 DEF FreshInv, Revoking

LEMMA FreshLoad ==
  ASSUME TypeInv, FreshInv, NEW q \in Callers, NEW c \in Clients, Loaded(q, c)
  PROVE  FreshInv'
  <1> SUFFICES ASSUME ~tainted
               PROVE  FreshInv'
    BY DEF FreshInv, Loaded
  <1>1. row.session = logins /\ UNCHANGED <<row, live, logins, tainted>>
    BY DEF FreshInv, Loaded
  <1>2. ASSUME NEW k \in Referred' \cap Clients
        PROVE  client'[k].session = logins
    <2>1. k \in Referred \/ k = c
      BY PoolAssumption DEF Loaded, Clients
    <2> QED
      BY <1>1, <2>1 DEF FreshInv, Loaded
  <1>3. ASSUME logins \in live
        PROVE  \A k \in Callers : ~Revoking(op'[k])
    BY <1>3 DEF FreshInv, Loaded, Moved, Revoking
  <1> QED
    BY <1>1, <1>2, <1>3 DEF FreshInv, Revoking

LEMMA FreshOutside ==
  ASSUME TypeInv, FreshInv, Outside
  PROVE  FreshInv'
  <1>1. CASE UNCHANGED <<row, logins, tainted>> /\ live' \subseteq live /\ Kept
    <2>1. ASSUME NEW c \in Referred' \cap Clients, ~tainted
          PROVE  client'[c].session = logins
      <3>1. c \in Referred
        BY <1>1, PoolAssumption DEF Kept, Clients
      <3> QED
        BY <1>1, <2>1, <3>1 DEF FreshInv, Kept
    <2> QED
      BY <1>1, <2>1 DEF FreshInv, Outside
  <1>2. CASE StoreSession
    <2>1. row' = [session |-> logins', active |-> TRUE] /\ UNCHANGED op
      BY <1>2 DEF StoreSession
    <2>2. ASSUME ~tainted'
          PROVE  Referred' \cap Clients = {} /\ \A q \in Callers : ~Revoking(op'[q])
      <3>1. entry' = 0 /\ \A q \in Callers : ~InUse(q)
        BY <1>2, <2>2 DEF StoreSession
      <3>2. \A q \in Callers : op'[q].got = <<>> /\ op'[q].mine = 0
        BY <2>1, <3>1 DEF InUse
      <3>3. Referred' \subseteq {0}
        BY <3>1, <3>2 DEF Referred
      <3>4. \A q \in Callers : ~Revoking(op'[q])
        BY <2>1, <3>1 DEF InUse, Revoking, TypeInv, Shape
      <3> QED
        BY <3>3, <3>4, PoolAssumption DEF Clients
    <2> QED
      BY <2>1, <2>2 DEF FreshInv, Revoking
  <1> QED
    BY <1>1, <1>2 DEF Outside

(* store_session, with nothing of an earlier session in the pool or in a      *)
(* coroutine's hands: _mark_revoked takes the new session from the row only  *)
(* when Telegram has ended it.                                             *)
THEOREM FreshLoginsStay == Spec => []LoginStays
  <1>1. Init => TypeInv /\ FreshInv
    <2> SUFFICES ASSUME Init
                 PROVE  TypeInv /\ FreshInv
      OBVIOUS
    <2>1. TypeInv /\ Referred \cap Clients = {} /\ \A q \in Callers : op[q] = Idle
      BY InitTypes, PoolAssumption DEF Clients
    <2> QED
      BY <2>1 DEF FreshInv, Init, Revoking, Idle
  <1>2. TypeInv /\ FreshInv /\ [Next]_vars => TypeInv' /\ FreshInv'
    <2> SUFFICES ASSUME TypeInv, FreshInv, [Next]_vars
                 PROVE  TypeInv' /\ FreshInv'
      OBVIOUS
    <2>1. CASE UNCHANGED vars
      BY <2>1, TypesStay DEF FreshInv, Referred, Revoking, vars
    <2>2. CASE Next
      BY <2>2, NextIs, FreshStep, FreshLoad, FreshOutside
    <2> QED
      BY <2>1, <2>2
  <1>3. FreshInv => LoginStays
    BY DEF FreshInv, LoginStays
  <1> QED
    BY <1>1, <1>2, <1>3, PTL DEF Spec

(***************************************************************************)
(* How many clients are connected.                                         *)
(***************************************************************************)
Up(f) == {c \in Clients : f[c].up}
Connected == stray + Cardinality(Up(client))

(* A coroutine that is about to revoke, its client already disconnected; and *)
(* one that has just connected a client whose key is unknown.               *)
IsDown(q) == op[q].pc \in {"row", "pop"} \/ (At(q, "revoke") /\ ~client[op[q].mine].up)
IsFull(q) == At(q, "revoke") /\ lock = q /\ client[op[q].mine].up

EntryUp == entry # 0 /\ client[entry].up

Down    == {q \in Callers : IsDown(q)}
Popping == {q \in Callers : At(q, "pop")}
Filled  == EntryUp \/ \E q \in Callers : IsFull(q)
Waiting == \E q \in Callers : At(q, "connect")
Usable  == row.active /\ row.session # 0

(* One client more can be connected before the next login: by whom has its   *)
(* session at hand; or, as long as the row has one, whenever the pool is     *)
(* empty and somebody is not revoking.  The other cases are what a           *)
(* disconnection has left over, for the login that makes use of it.          *)
Owed ==
  IF Usable THEN IF Down = Callers THEN Popping # Callers ELSE ~Filled
  ELSE \/ Down = Callers \/ Waiting
       \/ ~Filled /\ \E q \in Callers : Callers \ Down = {q}

(* Each coroutine that is at the end of _mark_revoked may take one from the pool. *)
Spare == (IF Usable THEN Cardinality(Popping) ELSE 0) + (IF Owed THEN 1 ELSE 0)

(* Who connects has the lock, and the pool has no connected client then.     *)
LoneConnect == \A q \in Callers : op[q].pc \in {"load", "connect"} => lock = q /\ ~EntryUp

FewInv ==
  /\ LoneConnect
  /\ Connected + Spare <= 1 + cuts + (logins - 1) * (Cardinality(Callers) - 1)

LEMMA UpTypes ==
  ASSUME NEW f
  PROVE  IsFiniteSet(Up(f)) /\ Cardinality(Up(f)) \in Nat
  <1>1. IsFiniteSet(Clients) /\ Up(f) \subseteq Clients
    BY FS_Interval, PoolAssumption DEF Clients, Up
  <1> QED
    BY <1>1, FS_Subset, FS_CardinalityType

LEMMA PoppingTypes ==
  /\ Cardinality(Callers) \in Nat /\ Cardinality(Callers) >= 1
  /\ IsFiniteSet(Popping) /\ Cardinality(Popping) \in Nat
  /\ Cardinality(Popping) <= Cardinality(Callers)
  /\ Cardinality(Popping) = Cardinality(Callers) => Popping = Callers
  <1>1. Popping \subseteq Callers /\ IsFiniteSet(Callers)
    BY PoolAssumption DEF Popping
  <1>2. Cardinality(Callers) \in Nat /\ Cardinality(Callers) # 0
    BY <1>1, PoolAssumption, FS_CardinalityType, FS_EmptySet
  <1> QED
    BY <1>1, <1>2, FS_Subset, FS_CardinalityType

(* Clients that nobody refers to any more are strays when they are connected: *)
(* none of them is lost to the count.                                      *)
LEMMA CountOf ==
  ASSUME TypeInv, NEW f \in [Clients -> Client], Becomes(f)
  PROVE  /\ Connected' = stray + Cardinality(Up(f))
         /\ \A c \in Clients \cap Referred' : client'[c].up = f[c].up
  <1> DEFINE kept == Up(f) \cap Referred'
             left == Up(f) \ Referred'
  <1>1. \A c \in Clients : client'[c] = IF c \in Referred' THEN f[c] ELSE Gone
    BY BecomesIs
  <1>2. Gone.up = FALSE
    BY DEF Gone
  <1>3. Up(client') = kept
    BY <1>1, <1>2 DEF Up
  <1>4. {c \in Clients \ Referred' : f[c].up} = left
    BY DEF Up
  <1>5. stray' = stray + Cardinality(left)
    BY <1>4 DEF Becomes
  <1>6. /\ IsFiniteSet(kept) /\ IsFiniteSet(left) /\ Cardinality(kept) \in Nat /\ Cardinality(left) \in Nat
        /\ stray \in Nat
    <2>1. kept \subseteq Up(f) /\ left \subseteq Up(f)
      OBVIOUS
    <2> QED
      BY <2>1, UpTypes, FS_Subset, FS_CardinalityType DEF TypeInv, TypeOK
  <1>7. Cardinality(Up(f)) = Cardinality(kept) + Cardinality(left)
    <2>1. kept \cup left = Up(f) /\ kept \cap left = {}
      OBVIOUS
    <2> HIDE DEF kept, left
    <2>2. Cardinality(kept \cup left) = Cardinality(kept) + Cardinality(left) - Cardinality({})
      BY <1>6, <2>1, FS_Union
    <2> QED
      BY <1>6, <2>1, <2>2, FS_EmptySet
  <1>8. Connected' = stray' + Cardinality(Up(client'))
    BY DEF Connected
  <1> HIDE DEF kept, left
  <1>9. Connected' = stray + Cardinality(Up(f))
    BY <1>3, <1>5, <1>6, <1>7, <1>8
  <1> QED
    BY <1>1, <1>9

(* What the count comes to in a step that is not a login. *)
Pays == logins' = logins /\ Connected' + Spare' + cuts <= Connected + Spare + cuts'

SameUps(f) == f \in [Clients -> Client] /\ \A c \in Clients : f[c].up = client[c].up

Calm == Connected' = Connected /\ \A c \in Clients \cap Referred' : client'[c].up = client[c].up

LEMMA SpareTypes ==
  /\ Spare \in Nat /\ Spare' \in Nat
  /\ row' = row /\ Popping' = Popping => Spare' <= Spare + 1
  /\ row' = row /\ Popping' = Popping /\ (Owed' => Owed) => Spare' <= Spare
  <1> DEFINE p == Cardinality(Popping)
             n == Cardinality(Popping')
             s == IF Owed THEN 1 ELSE 0
             t == IF Owed' THEN 1 ELSE 0
  <1>1. p \in Nat /\ n \in Nat
    <2>1. Popping' \subseteq Callers /\ IsFiniteSet(Callers)
      BY PoolAssumption DEF Popping
    <2>2. n \in Nat
      BY <2>1, FS_Subset, FS_CardinalityType
    <2> QED
      BY <2>2, PoppingTypes
  <1>2. s \in 0..1 /\ t \in 0..1 /\ ((Owed' => Owed) => t <= s)
    OBVIOUS
  <1>3. /\ Spare = (IF Usable THEN p ELSE 0) + s
        /\ Spare' = (IF Usable' THEN n ELSE 0) + t
    BY DEF Spare
  <1>4. (Popping' = Popping => n = p) /\ (row' = row => Usable' = Usable)
    BY DEF Usable
  <1> HIDE DEF p, n, s, t
  <1> QED
    BY <1>1, <1>2, <1>3, <1>4

LEMMA CalmIs ==
  ASSUME TypeInv, UNCHANGED <<client, stray>> \/ \E f : SameUps(f) /\ Becomes(f)
  PROVE  Calm
  <1>1. CASE UNCHANGED <<client, stray>>
    BY <1>1 DEF Calm, Connected, Up
  <1>2. ASSUME NEW f, SameUps(f), Becomes(f)
        PROVE  Calm
    <2>1. /\ Connected' = stray + Cardinality(Up(f))
          /\ \A c \in Clients \cap Referred' : client'[c].up = f[c].up
      BY <1>2, CountOf DEF SameUps
    <2>2. Up(f) = Up(client)
      BY <1>2 DEF Up, SameUps
    <2> QED
      BY <1>2, <2>1, <2>2 DEF Calm, Connected, SameUps
  <1> QED
    BY <1>1, <1>2

LEMMA SameUpsAre ==
  ASSUME TypeInv
  PROVE  /\ SameUps(client)
         /\ \A c \in Clients, q \in Callers : SameUps([client EXCEPT ![c].lock = q])
         /\ \A q \in Callers : SameUps(FreeEntryLock(q))
         /\ \A c \in Clients : ~client[c].up => SameUps([client EXCEPT ![c].up = FALSE])
         /\ \A c \in Clients, found \in BOOLEAN :
              SameUps([client EXCEPT ![c] = [client[c] EXCEPT !.lock = None, !.known = @ \/ found]])
         /\ \A c \in Free : SameUps([client EXCEPT ![c] = [Gone EXCEPT !.session = row.session]])
  <1>1. client \in [Clients -> Client]
    BY DEF TypeInv, TypeOK
  <1>2. SameUps(client)
    BY <1>1 DEF SameUps
  <1>3. ASSUME NEW c \in Clients, NEW q \in Callers
        PROVE  SameUps([client EXCEPT ![c].lock = q])
    <2> DEFINE e == [client[c] EXCEPT !.lock = q]
    <2>1. e \in Client /\ e.up = client[c].up
      BY <1>1 DEF Client
    <2>2. [client EXCEPT ![c].lock = q] = [client EXCEPT ![c] = e]
      BY <1>1
    <2> HIDE DEF e
    <2>3. SameUps([client EXCEPT ![c] = e])
      BY <1>1, <2>1 DEF SameUps
    <2> QED
      BY <2>2, <2>3
  <1>4. ASSUME NEW q \in Callers
        PROVE  SameUps(FreeEntryLock(q))
    <2>1. \A c \in Clients : FreeEntryLock(q)[c].up = client[c].up
      BY <1>1 DEF FreeEntryLock, Client
    <2> QED
      BY <2>1, SameIs DEF SameUps, Same
  <1>5. ASSUME NEW c \in Clients, ~client[c].up
        PROVE  SameUps([client EXCEPT ![c].up = FALSE])
    <2> DEFINE e == [client[c] EXCEPT !.up = FALSE]
    <2>1. e \in Client /\ e.up = client[c].up
      BY <1>1, <1>5 DEF Client
    <2>2. [client EXCEPT ![c].up = FALSE] = [client EXCEPT ![c] = e]
      BY <1>1
    <2> HIDE DEF e
    <2>3. SameUps([client EXCEPT ![c] = e])
      BY <1>1, <2>1 DEF SameUps
    <2> QED
      BY <2>2, <2>3
  <1>6. ASSUME NEW c \in Clients, NEW found \in BOOLEAN
        PROVE  SameUps([client EXCEPT ![c] = [client[c] EXCEPT !.lock = None, !.known = @ \/ found]])
    <2> DEFINE e == [client[c] EXCEPT !.lock = None, !.known = @ \/ found]
    <2>1. e \in Client /\ e.up = client[c].up
      BY <1>1 DEF Client
    <2> HIDE DEF e
    <2>2. SameUps([client EXCEPT ![c] = e])
      BY <1>1, <2>1 DEF SameUps
    <2> QED
      BY <2>2 DEF e
  <1>7. ASSUME NEW c \in Free
        PROVE  SameUps([client EXCEPT ![c] = [Gone EXCEPT !.session = row.session]])
    <2> DEFINE e == [Gone EXCEPT !.session = row.session]
    <2>1. e \in Client /\ e.up = FALSE /\ c \in Clients /\ client[c].up = FALSE
      <3>1. c \in Clients /\ client[c] = Gone
        BY DEF Free
      <3>2. e \in Client /\ e.up = FALSE
        BY DEF Gone, Client, TypeInv, TypeOK
      <3> QED
        BY <3>1, <3>2 DEF Gone
    <2> HIDE DEF e
    <2>2. SameUps([client EXCEPT ![c] = e])
      BY <1>1, <2>1 DEF SameUps
    <2> QED
      BY <2>2 DEF e
  <1> QED
    BY <1>2, <1>3, <1>4, <1>5, <1>6, <1>7

(* A coroutine that stays where it is, while its client stays as it is. *)
LEMMA OthersStay ==
  ASSUME TypeInv, TypeInv', Calm, NEW k \in Callers, op'[k] = op[k], lock' = k <=> lock = k
  PROVE  /\ IsDown(k)' <=> IsDown(k)
         /\ IsFull(k)' <=> IsFull(k)
         /\ \A pc : At(k, pc)' <=> At(k, pc)
  <1>1. At(k, "revoke") => op[k].mine \in Clients \cap Referred'
    <2>1. At(k, "revoke") => op[k].mine \in Clients
      BY DEF At, TypeInv, TypeOK, Shape, Op
    <2>2. op'[k].mine \in Referred'
      BY DEF Referred
    <2> QED
      BY <2>1, <2>2
  <1> QED
    BY <1>1 DEF Calm, IsDown, IsFull, At

LEMMA EntryStays ==
  ASSUME TypeInv, Calm, entry' = entry
  PROVE  EntryUp' <=> EntryUp
  <1>1. entry # 0 => entry \in Clients \cap Referred'
    BY DEF Referred, TypeInv, TypeOK
  <1> QED
    BY <1>1 DEF Calm, EntryUp

LEMMA EntryFalls ==
  ASSUME TypeInv, entry' = entry, \A c \in Clients \cap Referred' : client'[c].up => client[c].up
  PROVE  EntryUp' => EntryUp
  <1>1. entry # 0 => entry \in Clients \cap Referred'
    BY DEF Referred, TypeInv, TypeOK
  <1> QED
    BY <1>1 DEF EntryUp

LEMMA QuietStep ==
  ASSUME TypeInv, TypeInv', LoneConnect, Calm, UNCHANGED <<row, logins, entry>>, cuts' >= cuts,
         NEW q \in Callers,
         \A k \in Callers \ {q} : op'[k] = op[k] /\ (lock' = k <=> lock = k),
         IsDown(q)' <=> IsDown(q), At(q, "pop")' <=> At(q, "pop"), IsFull(q) => IsFull(q)',
         At(q, "connect")' => At(q, "connect") \/ Usable,
         op'[q].pc \in {"load", "connect"} => lock' = q /\ ~EntryUp
  PROVE  Pays /\ LoneConnect'
  <1>1. \A k \in Callers \ {q} :
          /\ IsDown(k)' <=> IsDown(k)
          /\ IsFull(k)' <=> IsFull(k)
          /\ \A pc : At(k, pc)' <=> At(k, pc)
    BY OthersStay
  <1>2. EntryUp' <=> EntryUp
    BY EntryStays
  <1>3. Down' = Down /\ Popping' = Popping
    BY <1>1 DEF Down, Popping
  <1>4. Filled => Filled'
    BY <1>1, <1>2 DEF Filled
  <1>5. Waiting' => Waiting \/ Usable
    BY <1>1 DEF Waiting
  <1>6. Usable' <=> Usable
    BY DEF Usable
  <1>7. Owed' => Owed
    BY <1>3, <1>4, <1>5, <1>6 DEF Owed
  <1>8. Spare' <= Spare /\ Spare \in Nat /\ Spare' \in Nat
    BY <1>3, <1>7, SpareTypes
  <1>9. Connected \in Nat /\ Connected' = Connected
    BY UpTypes DEF Connected, Calm, TypeInv, TypeOK
  <1>10. cuts \in Nat /\ cuts' \in Nat
    BY PoolAssumption DEF TypeInv, TypeOK
  <1>11. Pays
    BY <1>8, <1>9, <1>10 DEF Pays
  <1>12. LoneConnect'
    BY <1>2 DEF LoneConnect
  <1> QED
    BY <1>11, <1>12

(* A step of a coroutine that has no part in a connection or a revocation,   *)
(* unless it begins one.                                                   *)
LEMMA PlainStep ==
  ASSUME TypeInv, TypeInv', LoneConnect, Calm, UNCHANGED <<row, logins, entry, cuts>>,
         NEW q \in Callers, lock' \in {lock, FreeLock(q)},
         op[q].pc \notin {"revoke", "row", "pop"},
         \A k \in Callers \ {q} : op'[k] = op[k],
         op'[q].pc \notin {"row", "pop", "load", "connect"},
         op'[q].pc = "revoke" => client'[op'[q].mine].up
  PROVE  Pays /\ LoneConnect'
  <1>1. \A k \in Callers \ {q} : lock' = k <=> lock = k
    BY PoolAssumption DEF FreeLock
  <1>2. /\ ~IsDown(q) /\ ~IsDown(q)' /\ ~IsFull(q) /\ ~At(q, "pop") /\ ~At(q, "pop")'
        /\ ~At(q, "connect")'
    BY DEF IsDown, IsFull, At
  <1>3. cuts' >= cuts
    BY PoolAssumption DEF TypeInv, TypeOK
  <1> QED
    BY <1>1, <1>2, <1>3, QuietStep

LEMMA EnterPays ==
  ASSUME TypeInv, TypeInv', LoneConnect, NEW q \in Callers, Enter(q)
  PROVE  Pays /\ LoneConnect'
  <1>1. /\ op[q].pc = "enter" /\ UNCHANGED <<row, logins, client, stray, entry, cuts>>
        /\ cuts' >= cuts
    BY PoolAssumption DEF Enter, At, TypeInv, TypeOK
  <1>2. Calm
    BY <1>1, CalmIs
  <1>3. CASE /\ UNCHANGED lock
             /\ \E pc \in {"enter", "dialogs", "request"},
                   got \in {Append(op[q].got, entry), <<Append(op[q].got, entry)[1]>>} :
                  Moved(q, pc, op[q].kind, got, 0)
    <2>1. op'[q].pc \in {"enter", "dialogs", "request"} /\ \A k \in Callers \ {q} : op'[k] = op[k]
      BY <1>3 DEF Moved
    <2> QED
      BY <1>1, <1>2, <1>3, <2>1, PlainStep
  <1>4. CASE /\ entry = 0 \/ ~client[entry].up
             /\ lock = None /\ lock' = q
             /\ Moved(q, "load", op[q].kind, op[q].got, 0)
    <2>1. op'[q].pc = "load" /\ \A k \in Callers \ {q} : op'[k] = op[k] /\ (lock' = k <=> lock = k)
      BY <1>4, PoolAssumption DEF Moved
    <2>2. ~IsDown(q) /\ ~IsDown(q)' /\ ~IsFull(q) /\ ~At(q, "pop") /\ ~At(q, "pop")' /\ ~At(q, "connect")'
      BY <1>1, <2>1 DEF IsDown, IsFull, At
    <2>3. ~EntryUp
      BY <1>4 DEF EntryUp
    <2> QED
      BY <1>1, <1>2, <1>4, <2>1, <2>2, <2>3, QuietStep
  <1> QED
    BY <1>3, <1>4, EnterMoves

LEMMA LoadPays ==
  ASSUME TypeInv, TypeInv', LoneConnect, NEW q \in Callers, Load(q)
  PROVE  Pays /\ LoneConnect'
  <1>1. op[q].pc = "load" /\ UNCHANGED <<row, logins, entry, cuts>> /\ cuts' >= cuts
    BY PoolAssumption DEF Load, At, TypeInv, TypeOK
  <1>2. CASE Ended(q) /\ lock' = FreeLock(q) /\ Becomes(client)
    <2>1. op'[q].pc = "idle" /\ \A k \in Callers \ {q} : op'[k] = op[k]
      BY <1>2 DEF Ended, Moved
    <2>2. Calm
      BY <1>2, CalmIs, SameUpsAre
    <2> QED
      BY <1>1, <1>2, <2>1, <2>2, PlainStep
  <1>3. ASSUME NEW c \in Free, row.active, row.session # 0, UNCHANGED lock,
               Moved(q, "connect", op[q].kind, op[q].got, c),
               Becomes([client EXCEPT ![c] = [Gone EXCEPT !.session = row.session]])
        PROVE  Pays /\ LoneConnect'
    <2>1. op'[q].pc = "connect" /\ \A k \in Callers \ {q} : op'[k] = op[k] /\ (lock' = k <=> lock = k)
      BY <1>3 DEF Moved
    <2>2. Calm
      BY <1>3, CalmIs, SameUpsAre
    <2>3. ~IsDown(q) /\ ~IsDown(q)' /\ ~IsFull(q) /\ ~At(q, "pop") /\ ~At(q, "pop")'
      BY <1>1, <2>1 DEF IsDown, IsFull, At
    <2>4. lock' = q /\ ~EntryUp /\ Usable
      BY <1>1, <1>3 DEF LoneConnect, Usable
    <2> QED
      BY <1>1, <2>1, <2>2, <2>3, <2>4, QuietStep
  <1> QED
    BY <1>2, <1>3, LoadMoves

LEMMA ReadPays ==
  ASSUME TypeInv, TypeInv', LoneConnect, NEW q \in Callers,
         Dialogs(q) \/ List(q) \/ Request(q) \/ Answer(q) \/ \E kind \in Kinds : Start(q, kind)
  PROVE  Pays /\ LoneConnect'
  <1>1. op[q].pc \notin {"revoke", "row", "pop"} /\ UNCHANGED <<row, logins, entry, lock, cuts>>
    BY DEF Dialogs, List, Request, Answer, Start, At
  <1>2. ASSUME Calm, NEW pc \in {"idle", "enter", "list", "request", "sent"}, NEW kind, NEW got,
               NEW mine, Moved(q, pc, kind, got, mine)
        PROVE  Pays /\ LoneConnect'
    <2>1. op'[q].pc = pc /\ \A k \in Callers \ {q} : op'[k] = op[k]
      BY <1>2 DEF Moved
    <2> QED
      BY <1>1, <1>2, <2>1, PlainStep
  <1>3. ASSUME NEW c \in Clients, client[c].up, UNCHANGED <<client, stray>>,
               Moved(q, "revoke", op[q].kind, <<>>, c)
        PROVE  Pays /\ LoneConnect'
    <2>1. /\ op'[q].pc = "revoke" /\ op'[q].mine = c /\ \A k \in Callers \ {q} : op'[k] = op[k]
          /\ client'[op'[q].mine].up
      BY <1>3 DEF Moved
    <2>2. Calm
      BY <1>3, CalmIs
    <2> QED
      BY <1>1, <2>1, <2>2, PlainStep
  <1>4. Ended(q) /\ (Becomes(client) \/ Becomes(FreeEntryLock(q))) => Pays /\ LoneConnect'
    BY <1>2, CalmIs, SameUpsAre DEF Ended
  <1>5. CASE Dialogs(q)
    <2>1. CASE /\ Moved(q, "list", op[q].kind, op[q].got, 0)
               /\ Newest(q) \in Clients /\ Becomes([client EXCEPT ![Newest(q)].lock = q])
      BY <1>2, <2>1, CalmIs, SameUpsAre
    <2> QED
      BY <1>4, <1>5, <2>1, DialogsMoves
  <1>6. CASE List(q)
    <2> DEFINE c == Newest(q)
    <2>1. c \in Clients
      BY <1>6, ListMoves
    <2>2. ASSUME NEW found \in BOOLEAN,
                 Becomes([client EXCEPT ![c] = [client[c] EXCEPT !.lock = None, !.known = @ \/ found]]),
                 Ended(q) \/ Moved(q, "request", op[q].kind, <<op[q].got[1]>>, 0)
          PROVE  Pays /\ LoneConnect'
      <3>1. Calm
        BY <2>1, <2>2, CalmIs, SameUpsAre
      <3> QED
        BY <1>2, <2>2, <3>1 DEF Ended
    <2> QED
      BY <1>3, <1>4, <1>6, <2>1, <2>2, ListMoves
  <1>7. CASE Request(q)
    <2>1. UNCHANGED <<client, stray>> => Calm
      BY CalmIs
    <2> QED
      BY <1>2, <1>4, <1>7, <2>1, RequestMoves
  <1>8. CASE Answer(q)
    BY <1>3, <1>4, <1>8, AnswerMoves
  <1>9. CASE \E kind \in Kinds : Start(q, kind)
    <2>1. PICK kind \in Kinds : Start(q, kind)
      BY <1>9
    <2>2. Moved(q, "enter", kind, <<>>, 0) /\ UNCHANGED <<client, stray>>
      BY <2>1, StartMoves DEF Start
    <2> QED
      BY <1>2, <2>2, CalmIs
  <1> QED
    BY <1>5, <1>6, <1>7, <1>8, <1>9

(* A client is connected or disconnected. *)
LEMMA UpEdit ==
  ASSUME TypeInv, NEW c \in Clients, NEW up \in BOOLEAN, Becomes([client EXCEPT ![c].up = up])
  PROVE  /\ Connected \in Nat /\ Connected' \in Nat
         /\ Connected' <= Connected + 1
         /\ client[c].up /\ ~up => Connected' = Connected - 1
         /\ \A k \in Clients \cap Referred' : client'[k].up = IF k = c THEN up ELSE client[k].up
  <1> DEFINE f == [client EXCEPT ![c].up = up]
  <1>1. f \in [Clients -> Client] /\ \A k \in Clients : f[k].up = IF k = c THEN up ELSE client[k].up
    <2>1. client \in [Clients -> Client] /\ Same(f)
      BY SameIs DEF TypeInv, TypeOK
    <2>2. f[c].up = up
      BY <2>1 DEF Client
    <2> QED
      BY <2>1, <2>2 DEF Same
  <1>2. Becomes(f)
    OBVIOUS
  <1> HIDE DEF f
  <1>3. /\ Connected' = stray + Cardinality(Up(f))
        /\ \A k \in Clients \cap Referred' : client'[k].up = f[k].up
    BY <1>1, <1>2, CountOf
  <1> DEFINE before == Cardinality(Up(client))
             after == Cardinality(Up(f))
  <1>4. before \in Nat /\ after \in Nat /\ stray \in Nat
    BY UpTypes DEF TypeInv, TypeOK
  <1>5. after <= before + 1
    <2>1. Up(f) \subseteq Up(client) \cup {c}
      BY <1>1 DEF Up
    <2>2. /\ IsFiniteSet(Up(client) \cup {c})
          /\ Cardinality(Up(client) \cup {c}) \in {before, before + 1}
      BY UpTypes, FS_AddElement
    <2>3. after <= Cardinality(Up(client) \cup {c})
      BY <2>1, <2>2, FS_Subset
    <2> QED
      BY <1>4, <2>2, <2>3
  <1>6. client[c].up /\ ~up => after = before - 1
    <2> SUFFICES ASSUME client[c].up, ~up
                 PROVE  after = before - 1
      OBVIOUS
    <2>1. Up(f) = Up(client) \ {c} /\ c \in Up(client)
      BY <1>1 DEF Up
    <2> QED
      BY <2>1, UpTypes, FS_RemoveElement
  <1>7. Connected = stray + before
    BY DEF Connected
  <1> HIDE DEF before
  <1>8. Connected' = stray + after
    BY <1>3
  <1> HIDE DEF after
  <1> QED
    BY <1>1, <1>3, <1>4, <1>5, <1>6, <1>7, <1>8

LEMMA PaysBy ==
  ASSUME TypeInv, TypeInv', UNCHANGED logins, NEW k \in Int, NEW m \in Int, k + m <= cuts' - cuts,
         Connected' <= Connected + k, Spare' <= Spare + m
  PROVE  Pays
  <1> DEFINE x == Connected
             y == Connected'
             s == Spare
             t == Spare'
             c == cuts
             d == cuts'
  <1>1. x \in Nat /\ y \in Nat
    <2>1. stray' \in Nat /\ Cardinality(Up(client')) \in Nat
      BY UpTypes DEF TypeInv, TypeOK
    <2> QED
      BY <2>1, UpTypes DEF Connected, TypeInv, TypeOK
  <1>2. s \in Nat /\ t \in Nat
    BY SpareTypes
  <1>3. c \in Nat /\ d \in Nat
    BY PoolAssumption DEF TypeInv, TypeOK
  <1>4. y <= x + k /\ t <= s + m /\ k + m <= d - c
    OBVIOUS
  <1> HIDE DEF x, y, s, t, c, d
  <1>5. y + t + c <= x + s + d
    BY <1>1, <1>2, <1>3, <1>4
  <1> QED
    BY <1>5 DEF Pays, x, y, s, t, c, d

(* A client less, and no caller closer to the end of a revocation. *)
LEMMA LossPays ==
  ASSUME TypeInv, TypeInv', UNCHANGED <<row, logins>>, Popping' = Popping,
         Connected \in Nat, Connected' = Connected - 1, cuts' >= cuts
  PROVE  Pays
  <1>1. Spare' <= Spare + 1
    BY SpareTypes
  <1>2. cuts \in Nat /\ cuts' \in Nat
    BY PoolAssumption DEF TypeInv, TypeOK
  <1> DEFINE k == 0 - 1
             y == Connected'
             x == Connected
             c == cuts
             d == cuts'
  <1>3. k \in Int /\ k + 1 = 0
    OBVIOUS
  <1>4. y = x - 1 /\ x \in Nat /\ c \in Nat /\ d \in Nat /\ d >= c
    BY <1>2
  <1> HIDE DEF k, x, y, c, d
  <1>5. k + 1 <= d - c
    BY <1>3, <1>4
  <1>6. y <= x + k
    BY <1>3, <1>4
  <1> QED
    BY <1>1, <1>3, <1>5, <1>6, PaysBy DEF x, y, c, d

LEMMA ConnectingOwes ==
  ASSUME TypeInv, LoneConnect, NEW q \in Callers, At(q, "connect")
  PROVE  /\ Owed /\ ~Filled
         /\ \A k \in Callers \ {q} : op[k].pc \notin {"load", "connect"}
  <1>1. lock = q /\ ~EntryUp
    BY DEF LoneConnect, At
  <1>2. ~Filled
    BY <1>1 DEF Filled, IsFull, At
  <1>3. q \notin Down
    BY DEF Down, IsDown, At
  <1>4. Waiting
    BY DEF Waiting
  <1> QED
    BY <1>1, <1>2, <1>3, <1>4 DEF Owed, LoneConnect

LEMMA ConnectPays ==
  ASSUME TypeInv, TypeInv', LoneConnect, NEW q \in Callers, Connect(q)
  PROVE  Pays /\ LoneConnect'
  <1> DEFINE c == op[q].mine
  <1>1. /\ At(q, "connect") /\ UNCHANGED <<row, logins, cuts>> /\ c \in Clients
        /\ Becomes([client EXCEPT ![c].up = TRUE])
    BY ConnectMoves DEF Connect
  <1>2. Owed /\ \A k \in Callers \ {q} : op[k].pc \notin {"load", "connect"}
    BY <1>1, ConnectingOwes
  <1>3. /\ Connected \in Nat /\ Connected' \in Nat /\ Connected' <= Connected + 1
        /\ \A k \in Clients \cap Referred' : client'[k].up = IF k = c THEN TRUE ELSE client[k].up
    BY <1>1, UpEdit
  <1>4. /\ \A k \in Callers \ {q} : op'[k] = op[k]
        /\ op'[q].pc \notin {"row", "pop", "load", "connect"}
        /\ ~IsDown(q)' /\ Filled'
    <2>1. CASE /\ entry' = c
               /\ \E pc \in {"enter", "dialogs", "request"},
                     got \in {Append(op[q].got, c), <<Append(op[q].got, c)[1]>>} :
                    Moved(q, pc, op[q].kind, got, 0)
      <3>1. op'[q].pc \in {"enter", "dialogs", "request"} /\ \A k \in Callers \ {q} : op'[k] = op[k]
        BY <2>1 DEF Moved
      <3>2. ~IsDown(q)'
        BY <3>1 DEF IsDown, At
      <3>3. c \in Referred' /\ c # 0
        BY <1>1, <2>1, PoolAssumption DEF Referred, Clients
      <3>4. EntryUp'
        BY <1>1, <1>3, <2>1, <3>3 DEF EntryUp
      <3> QED
        BY <3>1, <3>2, <3>4 DEF Filled
    <2>2. CASE UNCHANGED <<entry, lock>> /\ Moved(q, "revoke", op[q].kind, <<>>, c)
      <3>1. op'[q].pc = "revoke" /\ op'[q].mine = c /\ \A k \in Callers \ {q} : op'[k] = op[k]
        BY <2>2 DEF Moved
      <3>2. c \in Referred'
        BY <3>1 DEF Referred
      <3>3. client'[c].up
        BY <1>1, <1>3, <3>2
      <3>4. lock' = q
        BY <1>1, <2>2 DEF LoneConnect, At
      <3>5. ~IsDown(q)' /\ IsFull(q)'
        BY <3>1, <3>3, <3>4 DEF IsDown, IsFull, At
      <3> QED
        BY <3>1, <3>5 DEF Filled
    <2> QED
      BY <2>1, <2>2, ConnectMoves
  <1>5. Popping' = Popping
    BY <1>1, <1>4 DEF Popping, At
  <1>6. ~Owed'
    <2>1. q \notin Down'
      BY <1>4 DEF Down
    <2>2. ~Waiting'
      BY <1>2, <1>4 DEF Waiting, At
    <2> QED
      BY <1>4, <2>1, <2>2 DEF Owed
  <1>7. Spare' + 1 = Spare /\ Spare \in Nat /\ Spare' \in Nat
    <2>1. Spare = (IF Usable THEN Cardinality(Popping) ELSE 0) + 1
      BY <1>2 DEF Spare
    <2>2. Spare' = (IF Usable THEN Cardinality(Popping) ELSE 0) + 0
      BY <1>1, <1>5, <1>6 DEF Spare, Usable
    <2>3. Cardinality(Popping) \in Nat
      BY PoppingTypes
    <2> QED
      BY <2>1, <2>2, <2>3
  <1>8. cuts' = cuts /\ cuts \in Nat
    BY <1>1, PoolAssumption DEF TypeInv, TypeOK
  <1>9. Pays
    <2> DEFINE m == 0 - 1
               s == Spare
               t == Spare'
    <2>1. m \in Int /\ 1 + m = 0
      OBVIOUS
    <2>2. t + 1 = s /\ s \in Nat /\ t \in Nat
      BY <1>7
    <2> HIDE DEF m, s, t
    <2>3. t <= s + m
      BY <2>1, <2>2
    <2>4. 1 + m <= cuts' - cuts
      BY <1>8, <2>1
    <2> QED
      BY <1>1, <1>3, <2>1, <2>3, <2>4, PaysBy DEF s, t
  <1>10. LoneConnect'
    BY <1>2, <1>4 DEF LoneConnect
  <1> QED
    BY <1>9, <1>10

LEMMA ConnectFailsPays ==
  ASSUME TypeInv, TypeInv', LoneConnect, NEW q \in Callers, ConnectFails(q)
  PROVE  Pays /\ LoneConnect'
  <1> DEFINE c == op[q].mine
  <1>1. /\ At(q, "connect") /\ UNCHANGED <<row, logins>> /\ cuts' = cuts + 1 /\ c \in Clients
    BY DEF ConnectFails, At, TypeInv, TypeOK, Shape, Op
  <1>2. PICK up \in BOOLEAN : Becomes([client EXCEPT ![c].up = up])
    BY DEF ConnectFails
  <1>3. Connected \in Nat /\ Connected' \in Nat /\ Connected' <= Connected + 1
    BY <1>1, <1>2, UpEdit
  <1>4. Owed /\ \A k \in Callers \ {q} : op[k].pc \notin {"load", "connect"}
    BY <1>1, ConnectingOwes
  <1>5. op'[q].pc = "idle" /\ \A k \in Callers \ {q} : op'[k] = op[k]
    BY EndedBy DEF ConnectFails, Ended, Moved
  <1>6. Popping' = Popping
    BY <1>1, <1>5 DEF Popping, At
  <1>7. Spare' <= Spare /\ Spare \in Nat /\ Spare' \in Nat
    BY <1>1, <1>4, <1>6, SpareTypes
  <1>8. 1 + 0 <= cuts' - cuts
    BY <1>1, PoolAssumption DEF TypeInv, TypeOK
  <1>9. Pays
    <2>1. Spare' <= Spare + 0
      BY <1>7
    <2> QED
      BY <1>1, <1>3, <1>8, <2>1, PaysBy
  <1>10. LoneConnect'
    BY <1>4, <1>5 DEF LoneConnect
  <1> QED
    BY <1>9, <1>10

LEMMA CalmPays ==
  ASSUME TypeInv, TypeInv', UNCHANGED logins, Calm, NEW m \in Nat, m <= cuts' - cuts,
         Spare' <= Spare + m
  PROVE  Pays
  <1> DEFINE x == Connected
             y == Connected'
             d == cuts' - cuts
             k == 0
  <1>1. x \in Nat /\ y = x /\ d \in Int /\ m <= d
    <2>1. Connected \in Nat /\ Connected' = Connected
      BY UpTypes DEF Connected, Calm, TypeInv, TypeOK
    <2>2. cuts' - cuts \in Int
      BY PoolAssumption DEF TypeInv, TypeOK
    <2> QED
      BY <2>1, <2>2
  <1>2. k \in Int /\ k = 0
    OBVIOUS
  <1> HIDE DEF x, y, d, k
  <1>3. y <= x + k
    BY <1>1, <1>2
  <1>4. k + m <= d
    BY <1>1, <1>2
  <1> QED
    BY <1>2, <1>3, <1>4, PaysBy DEF x, y, d

LEMMA SpareMoves ==
  ASSUME TypeInv, TypeInv', UNCHANGED <<logins, cuts>>, Calm, Spare' <= Spare
  PROVE  Pays
  <1> DEFINE s == Spare
             t == Spare'
             m == 0
             d == cuts' - cuts
  <1>1. s \in Nat /\ t \in Nat /\ t <= s
    BY SpareTypes
  <1>2. m \in Nat /\ m = 0 /\ d = 0
    BY PoolAssumption DEF TypeInv, TypeOK
  <1> HIDE DEF s, t, m, d
  <1>3. t <= s + m /\ m <= d
    BY <1>1, <1>2
  <1> QED
    BY <1>2, <1>3, CalmPays DEF s, t, d

LEMMA DisconnectPays ==
  ASSUME TypeInv, TypeInv', LoneConnect, NEW q \in Callers, Disconnect(q)
  PROVE  Pays /\ LoneConnect'
  <1> DEFINE c == op[q].mine
  <1>1. /\ c \in Clients /\ op[q].pc = "revoke"
        /\ op'[q].pc = "row" /\ \A k \in Callers \ {q} : op'[k] = op[k]
    BY RevokeMoves DEF Disconnect, Moved, At
  <1>2. /\ UNCHANGED <<row, logins, entry, lock, cuts>> /\ cuts' >= cuts
        /\ Becomes([client EXCEPT ![c].up = FALSE])
    BY PoolAssumption DEF Disconnect, TypeInv, TypeOK
  <1>3. CASE client[c].up
    <2>1. /\ Connected \in Nat /\ Connected' = Connected - 1
          /\ \A k \in Clients \cap Referred' : client'[k].up = IF k = c THEN FALSE ELSE client[k].up
      BY <1>1, <1>2, <1>3, UpEdit
    <2>2. Popping' = Popping
      BY <1>1 DEF Popping, At
    <2>3. Pays
      BY <1>2, <2>1, <2>2, LossPays
    <2>4. EntryUp' => EntryUp
      BY <1>2, <2>1, EntryFalls
    <2>5. LoneConnect'
      BY <1>1, <1>2, <2>4 DEF LoneConnect
    <2> QED
      BY <2>3, <2>5
  <1>4. CASE ~client[c].up
    <2>1. Calm
      BY <1>1, <1>2, <1>4, CalmIs, SameUpsAre
    <2>2. /\ IsDown(q) /\ IsDown(q)' /\ ~At(q, "pop") /\ ~At(q, "pop")' /\ ~IsFull(q)
          /\ ~At(q, "connect")'
      BY <1>1, <1>4 DEF IsDown, IsFull, At
    <2> QED
      BY <1>1, <1>2, <2>1, <2>2, QuietStep
  <1> QED
    BY <1>3, <1>4

LEMMA RevokeRowPays ==
  ASSUME TypeInv, TypeInv', LoneConnect, NEW q \in Callers, RevokeRow(q)
  PROVE  Pays /\ LoneConnect'
  <1>1. /\ op[q].pc = "row" /\ op'[q].pc = "pop" /\ \A k \in Callers \ {q} : op'[k] = op[k]
        /\ UNCHANGED <<client, stray, logins, entry, lock, cuts>> /\ ~Usable'
    BY RevokeMoves DEF RevokeRow, Moved, At, Usable, Revoked
  <1>2. Calm
    BY <1>1, CalmIs
  <1>3. \A k \in Callers \ {q} :
          /\ IsDown(k)' <=> IsDown(k)
          /\ IsFull(k)' <=> IsFull(k)
          /\ \A pc : At(k, pc)' <=> At(k, pc)
    BY <1>1, <1>2, OthersStay
  <1>4. IsDown(q) /\ IsDown(q)' /\ ~IsFull(q) /\ ~IsFull(q)' /\ ~At(q, "connect") /\ ~At(q, "connect")'
    BY <1>1 DEF IsDown, IsFull, At
  <1>5. EntryUp' <=> EntryUp
    BY <1>1, <1>2, EntryStays
  <1>6. Down' = Down /\ (Filled' <=> Filled) /\ (Waiting' <=> Waiting)
    BY <1>3, <1>4, <1>5 DEF Down, Filled, Waiting
  <1>7. q \notin Popping
    BY <1>1 DEF Popping, At
  <1>8. Waiting => ~Filled
    BY ConnectingOwes DEF Waiting
  <1>9. Owed' => Owed
    <2>1. CASE Usable /\ Down = Callers
      BY <1>7, <2>1 DEF Owed
    <2>2. CASE Usable /\ Down # Callers
      BY <1>1, <1>6, <1>8, <2>2 DEF Owed
    <2>3. CASE ~Usable
      BY <1>1, <1>6, <2>3 DEF Owed
    <2> QED
      BY <2>1, <2>2, <2>3
  <1>10. Spare' <= Spare
    <2> DEFINE p == IF Usable THEN Cardinality(Popping) ELSE 0
               s == IF Owed THEN 1 ELSE 0
               t == IF Owed' THEN 1 ELSE 0
    <2>1. p \in Nat /\ s \in 0..1 /\ t \in 0..1 /\ t <= s
      BY <1>9, PoppingTypes
    <2>2. Spare = p + s /\ Spare' = 0 + t
      BY <1>1 DEF Spare
    <2> HIDE DEF p, s, t
    <2> QED
      BY <2>1, <2>2
  <1>11. Pays
    BY <1>1, <1>2, <1>10, SpareMoves
  <1>12. LoneConnect'
    BY <1>1, <1>5 DEF LoneConnect
  <1> QED
    BY <1>11, <1>12

LEMMA PopPays ==
  ASSUME TypeInv, TypeInv', LoneConnect, NEW q \in Callers, Pop(q)
  PROVE  Pays /\ LoneConnect'
  <1>1. /\ op[q].pc = "pop" /\ op'[q].pc = "idle" /\ \A k \in Callers \ {q} : op'[k] = op[k]
        /\ UNCHANGED <<row, logins, cuts>> /\ entry' = 0
    BY EndedBy DEF Pop, Ended, Moved, At
  <1>2. Calm
    BY CalmIs, SameUpsAre DEF Pop
  <1>3. \A k \in Callers \ {q} : lock' = k <=> lock = k
    BY PoolAssumption DEF Pop, FreeLock
  <1>4. \A k \in Callers \ {q} :
          /\ IsDown(k)' <=> IsDown(k)
          /\ IsFull(k)' <=> IsFull(k)
          /\ \A pc : At(k, pc)' <=> At(k, pc)
    BY <1>1, <1>2, <1>3, OthersStay
  <1>5. /\ IsDown(q) /\ ~IsDown(q)' /\ ~IsFull(q)' /\ At(q, "pop") /\ ~At(q, "pop")'
        /\ ~At(q, "connect")' /\ ~EntryUp'
    BY <1>1 DEF IsDown, IsFull, At, EntryUp
  <1>6. /\ Down' = Down \ {q} /\ q \in Down /\ Down \subseteq Callers
        /\ Popping' = Popping \ {q} /\ q \in Popping
        /\ (Filled' => Filled) /\ (Waiting' => Waiting)
    BY <1>4, <1>5 DEF Down, Popping, Filled, Waiting
  <1>7. ~Usable /\ Owed' => Owed
    <2> SUFFICES ASSUME ~Usable, Owed', ~Waiting
                 PROVE  Down = Callers
      BY DEF Owed
    <2>1. ~Usable' /\ ~Waiting' /\ Down' # Callers
      BY <1>1, <1>6 DEF Usable
    <2>2. PICK x \in Callers : Callers \ Down' = {x}
      BY <2>1 DEF Owed
    <2> QED
      BY <1>6, <2>2
  <1>8. Spare' <= Spare
    <2> DEFINE p == Cardinality(Popping)
               n == Cardinality(Popping')
               s == IF Owed THEN 1 ELSE 0
               t == IF Owed' THEN 1 ELSE 0
    <2>1. p \in Nat /\ s \in 0..1 /\ t \in 0..1 /\ (~Usable => t <= s) /\ n = p - 1
      <3>1. p \in Nat /\ n = p - 1
        BY <1>6, PoppingTypes, FS_RemoveElement
      <3> QED
        BY <1>7, <3>1
    <2>2. /\ Spare = (IF Usable THEN p ELSE 0) + s
          /\ Spare' = (IF Usable THEN n ELSE 0) + t
      BY <1>1 DEF Spare, Usable
    <2> HIDE DEF p, n, s, t
    <2> QED
      BY <2>1, <2>2
  <1>9. Pays
    BY <1>1, <1>2, <1>8, SpareMoves
  <1>10. LoneConnect'
    BY <1>1, <1>3, <1>5 DEF LoneConnect
  <1> QED
    BY <1>9, <1>10

LEMMA CutPays ==
  ASSUME TypeInv, TypeInv', LoneConnect, (\E c \in Clients : Drop(c)) \/ Close
  PROVE  Pays /\ LoneConnect'
  <1>1. UNCHANGED <<row, logins, lock, op>> /\ cuts \in Nat /\ cuts' = cuts + 1
    <2>1. UNCHANGED <<row, logins, lock, op>> /\ cuts' = cuts + 1
      BY DEF Drop, Close
    <2>2. cuts \in Nat
      BY PoolAssumption DEF TypeInv, TypeOK
    <2> QED
      BY <2>1, <2>2
  <1>2. Popping' = Popping /\ cuts' >= cuts
    BY <1>1 DEF Popping, At
  <1>3. ASSUME NEW c \in Clients, client[c].up, Becomes([client EXCEPT ![c].up = FALSE])
        PROVE  Pays /\ \A k \in Clients \cap Referred' : client'[k].up => client[k].up
    <2>1. /\ Connected \in Nat /\ Connected' = Connected - 1
          /\ \A k \in Clients \cap Referred' : client'[k].up = IF k = c THEN FALSE ELSE client[k].up
      BY <1>3, UpEdit
    <2> QED
      BY <1>1, <1>2, <2>1, LossPays
  <1>4. CASE \E c \in Clients : Drop(c)
    <2>1. PICK c \in Clients : Drop(c)
      BY <1>4
    <2>2. client[c].up /\ Becomes([client EXCEPT ![c].up = FALSE]) /\ entry' = entry
      BY <2>1 DEF Drop
    <2>3. Pays /\ (EntryUp' => EntryUp)
      BY <1>3, <2>2, EntryFalls
    <2> QED
      BY <1>1, <2>3 DEF LoneConnect
  <1>5. CASE Close
    <2>1. /\ entry \in Clients /\ entry' = 0 /\ Becomes([client EXCEPT ![entry].up = FALSE])
      BY <1>5 DEF Close, TypeInv, TypeOK
    <2>2. LoneConnect'
      BY <1>1, <2>1 DEF LoneConnect, EntryUp
    <2>3. CASE client[entry].up
      BY <1>3, <2>1, <2>2, <2>3
    <2>4. CASE ~client[entry].up
      <3>1. Calm
        BY <2>1, <2>4, CalmIs, SameUpsAre
      <3>2. Spare' <= Spare + 1
        BY <1>1, <1>2, SpareTypes
      <3>3. 1 \in Nat /\ 1 <= cuts' - cuts
        BY <1>1
      <3>4. Pays
        BY <1>1, <3>1, <3>2, <3>3, CalmPays
      <3> QED
        BY <2>2, <3>4
    <2> QED
      BY <2>3, <2>4
  <1> QED
    BY <1>4, <1>5

(* A step that touches neither the coroutines nor the clients. *)
LEMMA ElsewherePays ==
  ASSUME TypeInv, TypeInv', LoneConnect, UNCHANGED <<row, logins, client, stray, entry, lock, op, cuts>>
  PROVE  Pays /\ LoneConnect'
  <1>1. Calm
    BY CalmIs
  <1>2. PICK q \in Callers : TRUE
    BY PoolAssumption
  <1>3. /\ IsDown(q)' <=> IsDown(q)
        /\ IsFull(q)' <=> IsFull(q)
        /\ \A pc : At(q, pc)' <=> At(q, pc)
    BY <1>1, OthersStay
  <1>4. op'[q].pc \in {"load", "connect"} => lock' = q /\ ~EntryUp
    BY DEF LoneConnect
  <1>5. cuts' >= cuts
    BY PoolAssumption DEF TypeInv, TypeOK
  <1> QED
    BY <1>1, <1>3, <1>4, <1>5, QuietStep

(* A login makes each coroutine but one worth a client: those that are done  *)
(* with their row may each take from the pool a client of the new session.   *)
LEMMA LoginPays ==
  ASSUME TypeInv, LoneConnect, StoreSession
  PROVE  /\ LoneConnect' /\ Connected' = Connected
         /\ Spare' + 1 <= Spare + Cardinality(Callers)
  <1>1. UNCHANGED <<client, stray, entry, lock, op, cuts>> /\ Usable'
    <2>1. UNCHANGED <<client, stray, entry, lock, op, cuts>> /\ row' = [session |-> logins', active |-> TRUE]
      BY DEF StoreSession
    <2>2. logins' # 0
      BY PoolAssumption DEF StoreSession, TypeInv, TypeOK
    <2> QED
      BY <2>1, <2>2 DEF Usable
  <1>2. /\ Down' = Down /\ Popping' = Popping /\ (Filled' <=> Filled) /\ LoneConnect'
        /\ Connected' = Connected
    BY <1>1 DEF Down, Popping, Filled, LoneConnect, IsDown, IsFull, EntryUp, At, Connected, Up
  <1>3. Popping \subseteq Down /\ Down \subseteq Callers
    BY DEF Popping, Down, IsDown, At
  <1> DEFINE p == Cardinality(Popping)
             n == Cardinality(Callers)
             s == IF Owed THEN 1 ELSE 0
             t == IF Owed' THEN 1 ELSE 0
  <1>4. p \in Nat /\ n \in Nat /\ n >= 1 /\ p <= n /\ (p = n => Popping = Callers)
    BY PoppingTypes
  <1>5. s \in 0..1 /\ t \in 0..1
    OBVIOUS
  <1>6. Spare = (IF Usable THEN p ELSE 0) + s /\ Spare' = p + t
    BY <1>1, <1>2 DEF Spare
  <1>7. ASSUME Usable
        PROVE  t = s
    BY <1>1, <1>2, <1>7 DEF Owed
  <1>8. ASSUME ~Usable, Down = Callers
        PROVE  p + t + 1 <= s + n
    <2>1. Owed /\ (Owed' => Popping # Callers)
      BY <1>1, <1>2, <1>8 DEF Owed
    <2>2. s = 1 /\ (t = 1 => Popping # Callers)
      BY <2>1
    <2> HIDE DEF p, n, s, t
    <2> QED
      BY <1>4, <1>5, <2>2
  <1>9. ASSUME ~Usable, Down # Callers
        PROVE  p + t + 1 <= s + n
    <2>1. PICK x \in Callers : x \notin Down
      BY <1>3, <1>9
    <2> DEFINE S == Callers \ {x}
               c == Cardinality(S)
    <2>2. IsFiniteSet(S) /\ c = n - 1
      BY PoolAssumption, FS_RemoveElement
    <2>3. Popping \subseteq S
      BY <1>3, <2>1
    <2>4. p <= c /\ (p = c => Popping = S)
      BY <2>2, <2>3, FS_Subset
    <2>5. Popping = S => Callers \ Down = {x}
      BY <1>3, <2>1
    <2>6. Owed' => ~Filled
      BY <1>1, <1>2, <1>9 DEF Owed
    <2>7. t = 1 /\ p = c => s = 1
      BY <1>9, <2>4, <2>5, <2>6 DEF Owed
    <2> HIDE DEF p, n, s, t, c
    <2> QED
      BY <1>4, <1>5, <2>2, <2>4, <2>7
  <1> HIDE DEF p, n, s, t
  <1>10. Spare' + 1 <= Spare + n
    BY <1>4, <1>5, <1>6, <1>7, <1>8, <1>9
  <1> QED
    BY <1>2, <1>10 DEF n

LEMMA FewPays ==
  ASSUME TypeInv, TypeInv', FewInv, Pays, LoneConnect'
  PROVE  FewInv'
  <1> DEFINE x == Connected
             y == Connected'
             s == Spare
             t == Spare'
             c == cuts
             d == cuts'
             m == (logins - 1) * (Cardinality(Callers) - 1)
  <1>1. x \in Nat /\ y \in Nat
    <2>1. stray' \in Nat /\ Cardinality(Up(client')) \in Nat
      BY UpTypes DEF TypeInv, TypeOK
    <2> QED
      BY <2>1, UpTypes DEF Connected, TypeInv, TypeOK
  <1>2. s \in Nat /\ t \in Nat
    BY SpareTypes
  <1>3. c \in Nat /\ d \in Nat
    BY PoolAssumption DEF TypeInv, TypeOK
  <1>4. m \in Int
    <2>1. logins \in Int
      BY PoolAssumption DEF TypeInv, TypeOK
    <2> QED
      BY <2>1, PoppingTypes
  <1>5. x + s <= 1 + c + m /\ y + t + c <= x + s + d
    BY DEF FewInv, Pays
  <1>6. m = (logins' - 1) * (Cardinality(Callers) - 1)
    BY DEF Pays
  <1> HIDE DEF x, y, s, t, c, d, m
  <1>7. y + t <= 1 + d + m
    BY <1>1, <1>2, <1>3, <1>4, <1>5
  <1>8. Connected' + Spare' <= 1 + cuts' + m
    BY <1>7 DEF y, t, d
  <1> QED
    BY <1>6, <1>8 DEF FewInv

LEMMA FewLogin ==
  ASSUME TypeInv, FewInv, StoreSession
  PROVE  FewInv'
  <1> DEFINE x == Connected
             s == Spare
             t == Spare'
             c == cuts
             n == Cardinality(Callers)
             g == logins
             h == logins'
             m == (g - 1) * (n - 1)
  <1>1. /\ LoneConnect' /\ Connected' = x /\ t + 1 <= s + n /\ cuts' = c /\ h = g + 1
    BY LoginPays DEF FewInv, StoreSession
  <1>2. x \in Nat
    BY UpTypes DEF Connected, TypeInv, TypeOK
  <1>3. s \in Nat /\ t \in Nat /\ n \in Nat
    BY SpareTypes, PoppingTypes
  <1>4. c \in Nat /\ g \in Nat
    BY PoolAssumption DEF TypeInv, TypeOK
  <1>5. x + s <= 1 + c + m
    BY DEF FewInv
  <1>6. \A a, b \in Int : (a + 1 - 1) * b = (a - 1) * b + b /\ (a - 1) * b \in Int
    OBVIOUS
  <1> HIDE DEF x, s, t, c, n, g, h
  <1>7. n - 1 \in Int /\ g \in Int
    BY <1>3, <1>4
  <1>8. (h - 1) * (n - 1) = m + (n - 1) /\ m \in Int
    BY <1>1, <1>6, <1>7
  <1> HIDE DEF m
  <1>9. x + t <= 1 + c + (m + (n - 1))
    BY <1>1, <1>2, <1>3, <1>4, <1>5, <1>8
  <1>10. Connected' + Spare' <= 1 + cuts' + (logins' - 1) * (Cardinality(Callers) - 1)
    BY <1>1, <1>8, <1>9 DEF t, n, h
  <1> QED
    BY <1>1, <1>10 DEF FewInv

LEMMA FewStep ==
  ASSUME TypeInv, FewInv, [Next]_vars
  PROVE  TypeInv' /\ FewInv'
  <1>1. TypeInv'
    BY NextIs, TypesStay
  <1>2. LoneConnect
    BY DEF FewInv
  <1>3. CASE UNCHANGED vars
    BY <1>1, <1>2, <1>3, ElsewherePays, FewPays DEF vars
  <1>4. ASSUME NEW q \in Callers, Step(q) \/ \E kind \in Kinds : Start(q, kind)
        PROVE  FewInv'
    <2>1. CASE Enter(q) \/ Load(q) \/ Connect(q) \/ ConnectFails(q)
      BY <1>1, <1>2, <2>1, EnterPays, LoadPays, ConnectPays, ConnectFailsPays, FewPays
    <2>2. CASE Disconnect(q) \/ RevokeRow(q) \/ Pop(q)
      BY <1>1, <1>2, <2>2, DisconnectPays, RevokeRowPays, PopPays, FewPays
    <2>3. CASE Dialogs(q) \/ List(q) \/ Request(q) \/ Answer(q) \/ \E kind \in Kinds : Start(q, kind)
      BY <1>1, <1>2, <2>3, ReadPays, FewPays
    <2> QED
      BY <1>4, <2>1, <2>2, <2>3 DEF Step
  <1>5. CASE \E s \in live : Terminate(s)
    <2>1. UNCHANGED <<row, logins, client, stray, entry, lock, op, cuts>>
      BY <1>5 DEF Terminate
    <2> QED
      BY <1>1, <1>2, <2>1, ElsewherePays, FewPays
  <1>6. CASE (\E c \in Clients : Drop(c)) \/ Close
    BY <1>1, <1>2, <1>6, CutPays, FewPays
  <1>7. CASE StoreSession
    BY <1>1, <1>7, FewLogin
  <1> QED
    BY <1>1, <1>3, <1>4, <1>5, <1>6, <1>7 DEF Next

LEMMA FewInit ==
  ASSUME Init
  PROVE  FewInv
  <1>1. \A q \in Callers : op[q].pc = "idle"
    BY DEF Init, Idle
  <1>2. LoneConnect
    BY <1>1 DEF LoneConnect
  <1>3. Connected = 0
    <2>1. Up(client) = {} /\ stray = 0
      BY DEF Init, Up, Gone
    <2> QED
      BY <2>1, FS_EmptySet DEF Connected
  <1>4. Spare <= 1 /\ Spare \in Nat
    <2>1. Popping = {} /\ Cardinality(Popping) = 0
      <3>1. Popping = {}
        BY <1>1 DEF Popping, At
      <3> QED
        BY <3>1, FS_EmptySet
    <2> QED
      BY <2>1 DEF Spare
  <1>5. cuts = 0 /\ (logins - 1) * (Cardinality(Callers) - 1) = 0
    <2> DEFINE k == Cardinality(Callers) - 1
    <2>1. k \in Int
      BY PoppingTypes
    <2>2. \A a \in Int : (1 - 1) * a = 0
      OBVIOUS
    <2>3. cuts = 0 /\ logins = 1
      BY DEF Init
    <2> HIDE DEF k
    <2>4. (logins - 1) * k = 0
      BY <2>1, <2>2, <2>3
    <2> QED
      BY <2>3, <2>4 DEF k
  <1> QED
    BY <1>2, <1>3, <1>4, <1>5 DEF FewInv

(* However coroutines, logins and lost connections interleave: the clients   *)
(* that stay connected, in the pool or left behind by _mark_revoked, by a    *)
(* failed connect or by a login, are never more than the cut connections and *)
(* the logins account for.                                                 *)
THEOREM PoolStaysSmall == Spec => []PoolInv
  <1>1. Init => TypeInv /\ FewInv
    BY InitTypes, FewInit
  <1>2. TypeInv /\ FewInv /\ [Next]_vars => TypeInv' /\ FewInv'
    BY FewStep
  <1>3. TypeInv /\ FewInv => PoolInv
    <2> SUFFICES ASSUME TypeInv, FewInv
                 PROVE  FewClients
      BY DEF PoolInv, TypeInv
    <2> DEFINE x == stray + Cardinality({c \in Clients : client[c].up})
               s == Spare
               m == 1 + cuts + (logins - 1) * (Cardinality(Callers) - 1)
    <2>1. x + s <= m
      BY DEF FewInv, Connected, Up
    <2>2. s \in Nat
      BY SpareTypes
    <2>3. x \in Nat
      <3>1. Cardinality(Up(client)) \in Nat /\ stray \in Nat
        BY UpTypes DEF TypeInv, TypeOK
      <3> QED
        BY <3>1 DEF Up
    <2>4. m \in Int
      <3>1. logins \in Int /\ cuts \in Int
        BY PoolAssumption DEF TypeInv, TypeOK
      <3> QED
        BY <3>1, PoppingTypes
    <2> HIDE DEF x, s, m
    <2>5. x <= m
      BY <2>1, <2>2, <2>3, <2>4
    <2> QED
      BY <2>5 DEF FewClients, x, m
  <1> QED
    BY <1>1, <1>2, <1>3, PTL DEF Spec
=============================================================================
