----------------------------- MODULE AuthFlowProofs -----------------------------
(***************************************************************************)
(* What holds of AuthFlow for every set of logins, requests and people,    *)
(* and for every limit.                                                    *)
(***************************************************************************)
EXTENDS AuthFlow, FiniteSetTheorems, TLAPS

Steps == {"code", "password"}

(* A busy request is about a flow that has been begun, by somebody. *)
Places ==
  /\ \A h \in Handlers :
       call[h].pc # "idle" => call[h].flow \in Flows /\ flow[call[h].flow].status # "unused"
  /\ \A f \in Flows : flow[f].status # "unused" => flow[f].phone \in People

TypeInv == TypeOK /\ Places

LEMMA IdleCall == Idle \in Call /\ Idle.pc = "idle"
  BY DEF Idle, Call

(* One request has a new place, outside of link_account's middle; the others *)
(* are where they were.                                                      *)
LEMMA CallEdit ==
  ASSUME TypeOK, NEW h \in Handlers, NEW c \in Call, c.pc \notin Linking,
         call' = [call EXCEPT ![h] = c]
  PROVE  /\ call' \in [Handlers -> Call]
         /\ call'[h] = c
         /\ \A k \in Handlers \ {h} : call'[k] = call[k]
         /\ \A k \in Handlers : call'[k].pc \in Linking => call'[k].user \in People
  BY DEF TypeOK

LEMMA AnswerTypes ==
  ASSUME TypeOK, NEW h \in Handlers, Answer(h)
  PROVE  /\ call' \in [Handlers -> Call]
         /\ call'[h].pc = "idle"
         /\ \A k \in Handlers \ {h} : call'[k] = call[k]
         /\ \A k \in Handlers : call'[k].pc \in Linking => call'[k].user \in People
  <1>1. Idle.pc \notin Linking
    BY IdleCall DEF Linking
  <1>2. call' = [call EXCEPT ![h] = Idle]
    BY DEF Answer
  <1> QED
    BY <1>1, <1>2, CallEdit, IdleCall

(* An attempt, or a new status, leaves the rest of the flow as it is. *)
LEMMA Attempted ==
  ASSUME TypeOK, NEW f \in Flows, NEW n \in Nat, flow' = [flow EXCEPT ![f].attempts = n]
  PROVE  /\ flow' \in [Flows -> Flow]
         /\ flow'[f].attempts = n
         /\ \A g \in Flows \ {f} : flow'[g] = flow[g]
         /\ \A g \in Flows : /\ flow'[g].status = flow[g].status
                             /\ flow'[g].phone = flow[g].phone
                             /\ flow'[g].owner = flow[g].owner
  <1>1. flow \in [Flows -> Flow]
    BY DEF TypeOK
  <1>2. [flow[f] EXCEPT !.attempts = n] \in Flow
    BY <1>1 DEF Flow
  <1>3. flow' = [flow EXCEPT ![f] = [flow[f] EXCEPT !.attempts = n]]
    OBVIOUS
  <1>4. flow'[f] = [flow[f] EXCEPT !.attempts = n] /\ \A g \in Flows \ {f} : flow'[g] = flow[g]
    BY <1>1, <1>3
  <1>5. /\ flow'[f].attempts = n /\ flow'[f].status = flow[f].status
        /\ flow'[f].phone = flow[f].phone /\ flow'[f].owner = flow[f].owner
    BY <1>1, <1>4 DEF Flow
  <1> QED
    BY <1>1, <1>2, <1>3, <1>4, <1>5

LEMMA Advanced ==
  ASSUME TypeOK, NEW f \in Flows, NEW s \in {"needs_2fa", "done"},
         flow' = [flow EXCEPT ![f].status = s]
  PROVE  /\ flow' \in [Flows -> Flow]
         /\ flow'[f].status = s
         /\ \A g \in Flows \ {f} : flow'[g] = flow[g]
         /\ \A g \in Flows : /\ flow'[g].attempts = flow[g].attempts
                             /\ flow'[g].phone = flow[g].phone
                             /\ flow'[g].owner = flow[g].owner
  <1>1. flow \in [Flows -> Flow]
    BY DEF TypeOK
  <1>2. [flow[f] EXCEPT !.status = s] \in Flow
    BY <1>1 DEF Flow
  <1>3. flow' = [flow EXCEPT ![f] = [flow[f] EXCEPT !.status = s]]
    OBVIOUS
  <1>4. flow'[f] = [flow[f] EXCEPT !.status = s] /\ \A g \in Flows \ {f} : flow'[g] = flow[g]
    BY <1>1, <1>3
  <1>5. /\ flow'[f].status = s /\ flow'[f].attempts = flow[f].attempts
        /\ flow'[f].phone = flow[f].phone /\ flow'[f].owner = flow[f].owner
    BY <1>1, <1>4 DEF Flow
  <1> QED
    BY <1>1, <1>2, <1>3, <1>4, <1>5

(* Enter, on the path of a new request and of one that has waited: what it  *)
(* leaves behind, in the terms that the invariant is about.                 *)
LEMMA EnterTypes ==
  ASSUME TypeInv, NEW h \in Handlers, NEW f \in Flows, NEW step \in Steps,
         NEW kept \in SUBSET Flows, NEW open \in SUBSET Flows,
         Enter(h, f, step, kept, open),
         UNCHANGED <<old, granted, tables>>
  PROVE  TypeInv'
  <1> DEFINE n == flow[f].attempts + 1
             c == [Idle EXCEPT !.pc = "sign_in", !.flow = f, !.step = step]
  <1>0. n \in Nat
    BY DEF TypeInv, TypeOK, Flow
  <1>1. CASE flow[f].status # StepOf(step) /\ store' = kept /\ connected' = open /\ Answer(h)
             /\ UNCHANGED <<flow, lock, counts>>
    BY <1>1, AnswerTypes DEF TypeInv, TypeOK, Places, tables, counts
  <1>2. CASE /\ flow[f].status = StepOf(step)
             /\ flow' = [flow EXCEPT ![f].attempts = n]
             /\ store' = kept \ {f} /\ connected' = open \ {f}
             /\ Answer(h)
             /\ UNCHANGED <<lock, counts>>
    <2>1. TypeOK'
      BY <1>0, <1>2, AnswerTypes, Attempted DEF TypeInv, TypeOK, tables, counts
    <2>2. \A g \in Flows : flow'[g].status = flow[g].status /\ flow'[g].phone = flow[g].phone
      BY <1>0, <1>2, Attempted DEF TypeInv
    <2>3. call'[h].pc = "idle" /\ \A k \in Handlers \ {h} : call'[k] = call[k]
      BY <1>2, AnswerTypes DEF TypeInv
    <2>4. Places'
      BY <2>2, <2>3 DEF TypeInv, Places
    <2> QED
      BY <2>1, <2>4 DEF TypeInv
  <1>3. CASE /\ flow[f].status = StepOf(step)
             /\ flow' = [flow EXCEPT ![f].attempts = n]
             /\ store' = kept /\ connected' = open
             /\ TakeLock(h, f)
             /\ call' = [call EXCEPT ![h] = c]
             /\ codes' = IF step = "code" THEN [codes EXCEPT ![f] = @ + 1] ELSE codes
             /\ passwords' = IF step = "password" THEN [passwords EXCEPT ![f] = @ + 1]
                             ELSE passwords
    <2>1. c \in Call /\ c.pc = "sign_in" /\ c.flow = f
      BY DEF Idle, Call, Steps
    <2>2. /\ call' \in [Handlers -> Call]
          /\ call'[h].flow = f
          /\ \A k \in Handlers \ {h} : call'[k] = call[k]
          /\ \A k \in Handlers : call'[k].pc \in Linking => call'[k].user \in People
      BY <1>3, <2>1, CallEdit DEF TypeInv, Linking
    <2>3. codes' \in [Flows -> Nat] /\ passwords' \in [Flows -> Nat]
      BY <1>3 DEF TypeInv, TypeOK
    <2>4. TypeOK'
      BY <1>0, <1>3, <2>2, <2>3, Attempted DEF TypeInv, TypeOK, TakeLock, tables
    <2>5. flow[f].status # "unused"
      BY <1>3 DEF StepOf
    <2>6. Places'
      BY <1>0, <1>3, <2>2, <2>5, Attempted DEF TypeInv, Places
    <2> QED
      BY <2>4, <2>6 DEF TypeInv
  <1> QED
    BY <1>1, <1>2, <1>3 DEF Enter

-----------------------------------------------------------------------------
(* What a step of link_account does to the request: it ends, or goes on     *)
(* with the flow and the user it has.                                       *)
LinkStep(h) ==
  /\ UNCHANGED <<memory, granted, counts>>
  /\ call[h].pc \in Linking \cup {"user", "cookie"}
  /\ call' \in [Handlers -> Call]
  /\ \A k \in Handlers \ {h} : call'[k] = call[k]
  /\ call'[h].pc \in Linking \cup {"idle", "cookie"}
  /\ call'[h].pc # "idle" => call'[h].flow = call[h].flow
  /\ call'[h].pc \in Linking =>
       \/ /\ call[h].pc = "user" /\ MayLogIn(call[h].flow)
          /\ call'[h].user = UserOf(call[h].flow) /\ UserOf(call[h].flow) \in People
       \/ call[h].pc \in Linking /\ call'[h].user = call[h].user

LEMMA LinkMoves ==
  ASSUME TypeInv, NEW h \in Handlers, Link(h)
  PROVE  LinkStep(h)
  <1> DEFINE f == call[h].flow
  <1>0. call \in [Handlers -> Call] /\ call[h] \in Call
    BY DEF TypeInv, TypeOK
  <1>1. CASE /\ Answer(h)
             /\ UNCHANGED <<memory, granted, counts>>
             /\ call[h].pc \in Linking \cup {"user", "cookie"}
    BY <1>1, AnswerTypes DEF TypeInv, Linking, LinkStep
  <1>2. CASE ReadUser(h) /\ MayLogIn(f)
    <2> DEFINE c == [call[h] EXCEPT !.user = UserOf(f),
                                    !.pc = IF UserOf(f) \in users THEN "account" ELSE "new_user"]
    <2>1. call' = [call EXCEPT ![h] = c] /\ call[h].pc = "user"
             /\ UNCHANGED <<memory, granted, counts>>
      BY <1>0, <1>2 DEF ReadUser, tables
    <2>2. UserOf(f) \in People
      BY <2>1 DEF TypeInv, TypeOK, Places, UserOf, Flow
    <2>3. c \in Call /\ c.pc \in Linking /\ c.flow = f /\ c.user = UserOf(f)
      BY <1>0, <2>2 DEF Call, Linking
    <2> HIDE DEF c
    <2>4. call'[h] = c /\ call' \in [Handlers -> Call]
             /\ \A k \in Handlers \ {h} : call'[k] = call[k]
      BY <1>0, <2>1, <2>3
    <2> QED
      BY <1>2, <2>1, <2>2, <2>3, <2>4 DEF LinkStep, Linking
  <1>3. ASSUME call[h].pc \in Linking, UNCHANGED <<memory, granted, counts>>,
               NEW c \in Call, c.pc \in Linking \cup {"cookie"}, c.flow = f, c.user = call[h].user,
               call' = [call EXCEPT ![h] = c]
        PROVE  LinkStep(h)
    <2>1. call'[h] = c /\ call' \in [Handlers -> Call]
             /\ \A k \in Handlers \ {h} : call'[k] = call[k]
      BY <1>0, <1>3
    <2> QED
      BY <1>3, <2>1 DEF LinkStep, Linking
  <1>4. CASE ReadUser(h) /\ ~MayLogIn(f)
    BY <1>1, <1>4 DEF ReadUser, tables
  <1>5. CASE NewUser(h)
    <2>1. CASE call' = [call EXCEPT ![h].pc = "account"]
      <3> DEFINE c == [call[h] EXCEPT !.pc = "account"]
      <3>1. c \in Call /\ c.pc = "account" /\ c.flow = f /\ c.user = call[h].user
        BY <1>0 DEF Call
      <3>2. call' = [call EXCEPT ![h] = c]
        BY <1>0, <2>1
      <3> QED
        BY <1>3, <1>5, <3>1, <3>2 DEF NewUser, Linking, tables
    <2>2. CASE call' = [call EXCEPT ![h].pc = "account", ![h].newUser = TRUE]
      <3> DEFINE c == [call[h] EXCEPT !.pc = "account", !.newUser = TRUE]
      <3>1. c \in Call /\ c.pc = "account" /\ c.flow = f /\ c.user = call[h].user
        BY <1>0 DEF Call
      <3>2. call' = [call EXCEPT ![h] = c]
        BY <1>0, <2>2
      <3> QED
        BY <1>3, <1>5, <3>1, <3>2 DEF NewUser, Linking, tables
    <2> QED
      BY <1>1, <1>5, <2>1, <2>2 DEF NewUser, Linking, tables
  <1>6. CASE ReadAccount(h)
    <2> DEFINE c == [call[h] EXCEPT !.pc = IF Row(h) # None THEN "commit" ELSE "count"]
    <2>1. c \in Call /\ c.pc \in Linking /\ c.flow = f /\ c.user = call[h].user
      BY <1>0 DEF Call, Linking
    <2>2. call' = [call EXCEPT ![h] = c]
      BY <1>0, <1>6 DEF ReadAccount
    <2> QED
      BY <1>3, <1>6, <2>1, <2>2 DEF ReadAccount, Linking, tables
  <1>7. CASE CountAccounts(h)
    <2> DEFINE c == [call[h] EXCEPT !.pc = "new_account"]
    <2>1. c \in Call /\ c.pc \in Linking /\ c.flow = f /\ c.user = call[h].user
      BY <1>0 DEF Call, Linking
    <2>2. Answer(h) \/ call' = [call EXCEPT ![h] = c]
      BY <1>0, <1>7 DEF CountAccounts
    <2> QED
      BY <1>1, <1>3, <1>7, <2>1, <2>2 DEF CountAccounts, Linking, tables
  <1>8. CASE NewAccount(h)
    <2> DEFINE c == [call[h] EXCEPT !.pc = "commit", !.newAccount = TRUE]
    <2>1. c \in Call /\ c.pc \in Linking /\ c.flow = f /\ c.user = call[h].user
      BY <1>0 DEF Call, Linking
    <2>2. Answer(h) \/ call' = [call EXCEPT ![h] = c]
      BY <1>0, <1>8 DEF NewAccount
    <2> QED
      BY <1>1, <1>3, <1>8, <2>1, <2>2 DEF NewAccount, Linking, tables
  <1>9. CASE Commit(h)
    <2> DEFINE c == [Idle EXCEPT !.pc = "cookie", !.flow = f]
    <2>1. f \in Flows
      BY <1>9 DEF Commit, TypeInv, Places
    <2>2. c \in Call /\ c.pc = "cookie" /\ c.flow = f
      BY <2>1 DEF Idle, Call
    <2>3. call' = [call EXCEPT ![h] = c] /\ UNCHANGED <<memory, granted, counts>> /\ call[h].pc = "commit"
      BY <1>9 DEF Commit
    <2> HIDE DEF c
    <2>4. call'[h] = c /\ call' \in [Handlers -> Call]
             /\ \A k \in Handlers \ {h} : call'[k] = call[k]
      BY <1>0, <2>2, <2>3
    <2> QED
      BY <2>2, <2>3, <2>4 DEF LinkStep, Linking
  <1>10. CASE SetCookie(h) \/ LinkFails(h)
    BY <1>1, <1>10 DEF SetCookie, LinkFails, Linking, tables
  <1> QED
    BY <1>2, <1>4, <1>5, <1>6, <1>7, <1>8, <1>9, <1>10 DEF Link

(* What a step at Telegram does to the request and its flow: it stays there *)
(* with a session, or lets go of the lock, and goes on only with a session. *)
TelegramStep(h) ==
  LET f == call[h].flow
  IN  /\ call[h].pc \in AtTelegram
      /\ UNCHANGED <<old, tables, counts>>
      /\ call' \in [Handlers -> Call]
      /\ \A k \in Handlers \ {h} : call'[k] = call[k]
      /\ flow' \in [Flows -> Flow]
      /\ \A g \in Flows : /\ flow[g].status = "unused" <=> flow'[g].status = "unused"
                          /\ flow'[g].attempts = flow[g].attempts
                          /\ flow'[g].phone = flow[g].phone
                          /\ flow'[g].owner = flow[g].owner
      /\ granted' \in [Flows -> {"nothing", "code", "session"}]
      /\ \A g \in Flows : granted[g] = "session" => granted'[g] = "session"
      /\ store' \subseteq store
      /\ connected' \subseteq connected
      /\ NoLeakedClient => NoLeakedClient'
      /\ \/ /\ call'[h].pc = "get_me" /\ call'[h].flow = f
            /\ granted'[f] = "session" /\ UNCHANGED lock
         \/ call'[h].pc = "idle" /\ Unlock(f)
         \/ call[h].pc = "get_me" /\ call'[h].pc = "user" /\ call'[h].flow = f /\ Unlock(f)

LEMMA GrantsKept ==
  ASSUME NEW f \in Flows, NEW step \in Steps, NEW g \in Grants(f, step),
         granted \in [Flows -> {"nothing", "code", "session"}],
         granted' = [granted EXCEPT ![f] = g]
  PROVE  /\ granted' \in [Flows -> {"nothing", "code", "session"}]
         /\ granted'[f] = g
         /\ \A k \in Flows : granted[k] = "session" => granted'[k] = "session"
  BY DEF Grants, Steps

LEMMA TelegramMoves ==
  ASSUME TypeInv, NEW h \in Handlers, Telegram(h)
  PROVE  TelegramStep(h)
  <1> DEFINE f == call[h].flow
  <1>0. call \in [Handlers -> Call] /\ call[h] \in Call /\ call[h].step \in Steps
        /\ granted \in [Flows -> {"nothing", "code", "session"}]
    BY DEF TypeInv, TypeOK, Call, Steps
  <1>1. call[h].pc \in AtTelegram /\ f \in Flows /\ flow[f].status # "unused"
    BY DEF TypeInv, Places, Telegram, AtTelegram, Accepted, Refused, CodeIsDead, SignInLost,
           GetMeLost, Complete, SigningIn
  <1>2. UNCHANGED flow => flow' \in [Flows -> Flow]
    BY DEF TypeInv, TypeOK
  <1>3. CASE Accepted(h)
    <2>1. PICK g \in Grants(f, call[h].step) :
            /\ granted' = [granted EXCEPT ![f] = g]
            /\ \/ /\ LoggedIn(g)
                  /\ call' = [call EXCEPT ![h].pc = "get_me"]
                  /\ UNCHANGED <<flow, lock>>
               \/ /\ ~LoggedIn(g)
                  /\ flow' = [flow EXCEPT ![f].status = "needs_2fa"]
                  /\ Answer(h) /\ Unlock(f)
      BY <1>3 DEF Accepted
    <2>2. CASE LoggedIn(g) /\ call' = [call EXCEPT ![h].pc = "get_me"] /\ UNCHANGED <<flow, lock>>
      <3> DEFINE c == [call[h] EXCEPT !.pc = "get_me"]
      <3>1. c \in Call /\ c.pc = "get_me" /\ c.flow = f
        BY <1>0 DEF Call
      <3>2. call' = [call EXCEPT ![h] = c]
        BY <1>0, <2>2
      <3> HIDE DEF c
      <3>3. call'[h] = c /\ call' \in [Handlers -> Call]
            /\ \A k \in Handlers \ {h} : call'[k] = call[k]
        BY <1>0, <3>1, <3>2
      <3> QED
        BY <1>0, <1>1, <1>2, <1>3, <2>1, <2>2, <3>1, <3>3, GrantsKept
        DEF TelegramStep, NoLeakedClient, Accepted, LoggedIn
    <2>3. CASE ~LoggedIn(g) /\ flow' = [flow EXCEPT ![f].status = "needs_2fa"]
               /\ Answer(h) /\ Unlock(f)
      <3>1. /\ call' \in [Handlers -> Call] /\ call'[h].pc = "idle"
            /\ \A k \in Handlers \ {h} : call'[k] = call[k]
        BY <2>3, AnswerTypes DEF TypeInv
      <3>2. /\ flow' \in [Flows -> Flow]
            /\ \A k \in Flows : /\ flow[k].status = "unused" <=> flow'[k].status = "unused"
                                /\ flow'[k].attempts = flow[k].attempts
                                /\ flow'[k].phone = flow[k].phone
                                /\ flow'[k].owner = flow[k].owner
        BY <1>1, <2>3, Advanced DEF TypeInv
      <3> QED
        BY <1>0, <1>1, <1>3, <2>1, <2>3, <3>1, <3>2, GrantsKept
        DEF TelegramStep, NoLeakedClient, Accepted
    <2> QED
      BY <2>1, <2>2, <2>3
  <1>4. CASE Refused(h) \/ CodeIsDead(h) \/ GetMeLost(h)
    <2>1. /\ call' \in [Handlers -> Call] /\ call'[h].pc = "idle"
          /\ \A k \in Handlers \ {h} : call'[k] = call[k]
      BY <1>4, AnswerTypes DEF TypeInv, Refused, CodeIsDead, GetMeLost
    <2> QED
      BY <1>0, <1>1, <1>2, <1>4, <2>1
      DEF TelegramStep, NoLeakedClient, Refused, CodeIsDead, GetMeLost, Drop, UnlockOnError
  <1>5. CASE SignInLost(h)
    <2>1. /\ call' \in [Handlers -> Call] /\ call'[h].pc = "idle"
          /\ \A k \in Handlers \ {h} : call'[k] = call[k]
      BY <1>5, AnswerTypes DEF TypeInv, SignInLost
    <2>2. /\ granted' \in [Flows -> {"nothing", "code", "session"}]
          /\ \A k \in Flows : granted[k] = "session" => granted'[k] = "session"
      BY <1>0, <1>1, <1>5, GrantsKept DEF SignInLost
    <2> QED
      BY <1>0, <1>1, <1>2, <1>5, <2>1, <2>2
      DEF TelegramStep, NoLeakedClient, SignInLost, UnlockOnError
  <1>6. CASE Complete(h)
    <2> DEFINE c == [Idle EXCEPT !.pc = "user", !.flow = f]
    <2>1. c \in Call /\ c.pc = "user" /\ c.flow = f
      BY <1>1 DEF Idle, Call
    <2>2. call' = [call EXCEPT ![h] = c] \/ call' = [call EXCEPT ![h] = Idle]
      BY <1>6 DEF Complete
    <2> HIDE DEF c
    <2>3. /\ call' \in [Handlers -> Call]
          /\ call'[h].pc = "idle" \/ (call'[h].pc = "user" /\ call'[h].flow = f)
          /\ \A k \in Handlers \ {h} : call'[k] = call[k]
      BY <1>0, <2>1, <2>2, IdleCall
    <2>4. /\ flow' \in [Flows -> Flow]
          /\ \A k \in Flows : /\ flow[k].status = "unused" <=> flow'[k].status = "unused"
                              /\ flow'[k].attempts = flow[k].attempts
                              /\ flow'[k].phone = flow[k].phone
                              /\ flow'[k].owner = flow[k].owner
      BY <1>1, <1>6, Advanced DEF TypeInv, Complete
    <2> QED
      BY <1>0, <1>1, <1>6, <2>3, <2>4 DEF TelegramStep, NoLeakedClient, Complete, Live, Open
  <1> QED
    BY <1>3, <1>4, <1>5, <1>6 DEF Telegram

-----------------------------------------------------------------------------
(* Types.                                                                  *)

LEMMA SubmitTypes ==
  ASSUME TypeInv, NEW h \in Handlers, NEW f \in Flows, NEW step \in Steps, Submit(h, f, step)
  PROVE  TypeInv'
  <1>1. Live \in SUBSET Flows /\ Open \in SUBSET Flows
    BY DEF TypeInv, TypeOK, Live, Open
  <1>2. CASE Collect /\ UNCHANGED <<flow, lock, call, counts, old, granted, tables>>
    BY <1>1, <1>2 DEF Collect, TypeInv, TypeOK, Places, counts, tables
  <1>3. CASE Enter(h, f, step, Live, Open) /\ UNCHANGED <<old, granted, tables>>
    BY <1>1, <1>3, EnterTypes
  <1>4. CASE /\ Collect
             /\ call' = [call EXCEPT ![h] = [Idle EXCEPT !.pc = "lock", !.flow = f, !.step = step]]
             /\ UNCHANGED <<flow, lock, counts, old, granted, tables>>
             /\ flow[f].status # "unused"
    <2> DEFINE c == [Idle EXCEPT !.pc = "lock", !.flow = f, !.step = step]
    <2>1. c \in Call /\ c.pc = "lock" /\ c.flow = f
      BY DEF Idle, Call, Steps
    <2> HIDE DEF c
    <2>2. /\ call' \in [Handlers -> Call]
          /\ call'[h].flow = f
          /\ \A k \in Handlers \ {h} : call'[k] = call[k]
          /\ \A k \in Handlers : call'[k].pc \in Linking => call'[k].user \in People
      BY <1>4, <2>1, CallEdit DEF TypeInv, Linking, c
    <2>3. TypeOK'
      BY <1>1, <1>4, <2>2 DEF Collect, TypeInv, TypeOK, counts, tables
    <2>4. Places'
      BY <1>4, <2>2 DEF TypeInv, Places
    <2> QED
      BY <2>3, <2>4 DEF TypeInv
  <1> QED
    BY <1>2, <1>3, <1>4 DEF Submit

LEMMA TypeStep ==
  ASSUME TypeInv, [Next]_vars
  PROVE  TypeInv'
  <1>1. ASSUME NEW f \in Flows, NEW login \in Logins, Start(f, login[1], login[2])
        PROVE  TypeInv'
    <2> DEFINE r == [status |-> "code_sent", attempts |-> 0, phone |-> login[1], owner |-> login[2]]
    <2>1. r \in Flow /\ r.phone \in People /\ r.status # "unused"
      BY AuthAssumption DEF Flow
    <2> HIDE DEF r
    <2>2. flow' = [flow EXCEPT ![f] = r]
      BY <1>1 DEF Start, r
    <2>3. TypeOK'
      BY <1>1, <2>1, <2>2 DEF Start, TypeInv, TypeOK, tables, counts
    <2>4. Places'
      BY <1>1, <2>1, <2>2 DEF Start, TypeInv, TypeOK, Places
    <2> QED
      BY <2>3, <2>4 DEF TypeInv
  <1>2. ASSUME NEW f \in Flows, Cancel(f) \/ GrowOld(f)
        PROVE  TypeInv'
    BY <1>2 DEF Cancel, GrowOld, Drop, TypeInv, TypeOK, Places, tables, counts
  <1>3. ASSUME NEW h \in Handlers, NEW f \in Flows, NEW step \in Steps, Submit(h, f, step)
        PROVE  TypeInv'
    BY <1>3, SubmitTypes
  <1>4. ASSUME NEW h \in Handlers, GetLock(h)
        PROVE  TypeInv'
    <2>1. call[h].flow \in Flows /\ call[h].step \in Steps
          /\ store \in SUBSET Flows /\ connected \in SUBSET Flows
      BY <1>4 DEF GetLock, TypeInv, TypeOK, Places, Call, Steps
    <2> QED
      BY <1>4, <2>1, EnterTypes DEF GetLock
  <1>5. ASSUME NEW h \in Handlers, Telegram(h)
        PROVE  TypeInv'
    <2>1. TelegramStep(h)
      BY <1>5, TelegramMoves
    <2>2. call[h].flow \in Flows
      BY <2>1 DEF TypeInv, Places, TelegramStep, AtTelegram
    <2>3. TypeOK'
      <3>1. lock' \in [Flows -> Handlers \cup {None}]
        <4>1. lock \in [Flows -> Handlers \cup {None}]
          BY DEF TypeInv, TypeOK
        <4>2. UNCHANGED lock \/ Unlock(call[h].flow)
          BY <2>1 DEF TelegramStep
        <4> QED
          BY <4>1, <4>2, <2>2 DEF Unlock
      <3>2. \A k \in Handlers : call'[k].pc \in Linking => call'[k].user \in People
        BY <2>1 DEF TelegramStep, TypeInv, TypeOK, Linking
      <3>3. /\ flow' \in [Flows -> Flow] /\ call' \in [Handlers -> Call]
            /\ granted' \in [Flows -> {"nothing", "code", "session"}]
            /\ store' \subseteq store /\ connected' \subseteq connected
            /\ UNCHANGED <<old, users, account, codes, passwords>>
        BY <2>1 DEF TelegramStep, tables, counts
      <3> QED
        BY <3>1, <3>2, <3>3 DEF TypeInv, TypeOK
    <2>4. Places'
      <3>1. /\ \A k \in Handlers \ {h} : call'[k] = call[k]
            /\ \A g \in Flows : /\ flow[g].status = "unused" <=> flow'[g].status = "unused"
                                /\ flow'[g].phone = flow[g].phone
            /\ call'[h].pc # "idle" => call'[h].flow = call[h].flow
        BY <2>1 DEF TelegramStep
      <3>2. flow[call[h].flow].status # "unused"
        BY <2>1 DEF TelegramStep, TypeInv, Places, AtTelegram
      <3> QED
        BY <2>2, <3>1, <3>2 DEF TypeInv, Places
    <2> QED
      BY <2>3, <2>4 DEF TypeInv
  <1>6. ASSUME NEW h \in Handlers, Link(h)
        PROVE  TypeInv'
    <2>1. LinkStep(h)
      BY <1>6, LinkMoves
    <2>2. users' \subseteq People
      BY <1>6 DEF Link, ReadUser, NewUser, ReadAccount, CountAccounts, NewAccount, Commit, SetCookie,
                  LinkFails, tables, TypeInv, TypeOK, Linking
    <2>3. account' \in [People -> [People -> Flows \cup {None}]]
      <3>1. CASE UNCHANGED account
        BY <3>1 DEF TypeInv, TypeOK
      <3>2. CASE Commit(h)
        BY <3>2 DEF Commit, TypeInv, TypeOK, Places, Linking
      <3> QED
        BY <1>6, <3>1, <3>2 DEF Link, ReadUser, NewUser, ReadAccount, CountAccounts, NewAccount,
                                SetCookie, LinkFails, tables
    <2>4. TypeOK'
      BY <2>1, <2>2, <2>3 DEF LinkStep, TypeInv, TypeOK, memory, counts
    <2>5. Places'
      BY <2>1 DEF LinkStep, TypeInv, Places, memory, Linking
    <2> QED
      BY <2>4, <2>5 DEF TypeInv
  <1>7. ASSUME NEW t \in People, Meet(t)
        PROVE  TypeInv'
    BY <1>7 DEF Meet, TypeInv, TypeOK, Places, memory, counts
  <1>8. CASE Restart
    BY <1>8, IdleCall DEF Restart, TypeInv, TypeOK, Places, tables, counts, Linking
  <1>9. CASE UNCHANGED vars
    BY <1>9 DEF vars, memory, tables, counts, TypeInv, TypeOK, Places
  <1> QED
    BY <1>1, <1>2, <1>3, <1>4, <1>5, <1>6, <1>7, <1>8, <1>9 DEF Next, Steps

LEMMA TypeStart ==
  ASSUME Init
  PROVE  TypeInv
  BY IdleCall DEF Init, TypeInv, TypeOK, Places, Unused, Flow, Linking

-----------------------------------------------------------------------------
(* The inductive invariant.                                                *)

(* Whoever talks to Telegram holds the lock of its flow, and nobody else    *)
(* holds one.                                                              *)
Locks ==
  /\ \A h \in Handlers : call[h].pc \in AtTelegram => lock[call[h].flow] = h
  /\ LocksAreFreed

LEMMA EnterKeepsLocks ==
  ASSUME TypeInv, Locks, NEW h \in Handlers, NEW f \in Flows, NEW step \in Steps,
         NEW kept, NEW open, Enter(h, f, step, kept, open),
         lock[f] = None, call[h].pc \in {"idle", "lock"}
  PROVE  Locks'
  <1>1. CASE Answer(h) /\ UNCHANGED lock
    <2>1. call'[h].pc = "idle" /\ \A k \in Handlers \ {h} : call'[k] = call[k]
      BY <1>1, AnswerTypes DEF TypeInv
    <2>2. \A k \in Handlers : call'[k].pc \in AtTelegram => k # h /\ call'[k] = call[k]
      BY <2>1 DEF AtTelegram
    <2>3. \A g \in Flows : lock[g] # None => lock[g] \in Handlers \ {h}
      BY DEF TypeInv, TypeOK, Locks, LocksAreFreed, AtTelegram
    <2> QED
      BY <1>1, <2>1, <2>2, <2>3 DEF Locks, LocksAreFreed
  <1>2. CASE /\ TakeLock(h, f)
             /\ call' = [call EXCEPT ![h] = [Idle EXCEPT !.pc = "sign_in", !.flow = f,
                                                         !.step = step]]
    <2> DEFINE c == [Idle EXCEPT !.pc = "sign_in", !.flow = f, !.step = step]
    <2>1. c.pc = "sign_in" /\ c.flow = f
      BY DEF Idle
    <2> HIDE DEF c
    <2>2. call'[h] = c /\ \A k \in Handlers \ {h} : call'[k] = call[k]
      BY <1>2 DEF TypeInv, TypeOK, c
    <2>3. lock'[f] = h /\ \A g \in Flows \ {f} : lock'[g] = lock[g]
      BY <1>2 DEF TakeLock, TypeInv, TypeOK
    <2>4. \A k \in Handlers \ {h} : call[k].pc \in AtTelegram => call[k].flow # f
      BY AuthAssumption DEF Locks
    <2>5. \A k \in Handlers : call[k].pc \in AtTelegram => call[k].flow \in Flows
      BY DEF TypeInv, Places, AtTelegram
    <2>6. \A g \in Flows : lock[g] # None => lock[g] \in Handlers \ {h}
      BY DEF TypeInv, TypeOK, Locks, LocksAreFreed, AtTelegram
    <2> QED
      BY <2>1, <2>2, <2>3, <2>4, <2>5, <2>6 DEF Locks, LocksAreFreed, AtTelegram
  <1> QED
    BY <1>1, <1>2 DEF Enter

LEMMA LocksStep ==
  ASSUME TypeInv, Locks, [Next]_vars
  PROVE  Locks'
  <1>0. \A g \in Flows : lock[g] # None => lock[g] \in Handlers
    BY DEF TypeInv, TypeOK
  <1>1. CASE UNCHANGED <<lock, call>>
    BY <1>1 DEF Locks, LocksAreFreed
  <1>2. ASSUME NEW h \in Handlers, NEW f \in Flows, NEW step \in Steps, Submit(h, f, step)
        PROVE  Locks'
    <2>1. CASE Enter(h, f, step, Live, Open) /\ lock[f] = None
      BY <1>2, <2>1, EnterKeepsLocks DEF Submit
    <2>2. CASE /\ call' = [call EXCEPT ![h] = [Idle EXCEPT !.pc = "lock", !.flow = f, !.step = step]]
               /\ UNCHANGED lock
      <3> DEFINE c == [Idle EXCEPT !.pc = "lock", !.flow = f, !.step = step]
      <3>1. c.pc = "lock"
        BY DEF Idle
      <3> HIDE DEF c
      <3>2. call'[h].pc = "lock" /\ \A k \in Handlers \ {h} : call'[k] = call[k]
        BY <2>2, <3>1 DEF TypeInv, TypeOK, c
      <3>3. call[h].pc = "idle"
        BY <1>2 DEF Submit
      <3> QED
        BY <1>0, <2>2, <3>2, <3>3 DEF Locks, LocksAreFreed, AtTelegram
    <2> QED
      BY <1>1, <1>2, <2>1, <2>2 DEF Submit
  <1>3. ASSUME NEW h \in Handlers, GetLock(h)
        PROVE  Locks'
    <2>1. call[h].flow \in Flows /\ call[h].step \in Steps
      BY <1>3 DEF GetLock, TypeInv, TypeOK, Places, Call, Steps
    <2> QED
      BY <1>3, <2>1, EnterKeepsLocks DEF GetLock
  <1>4. ASSUME NEW h \in Handlers, Telegram(h)
        PROVE  Locks'
    <2> DEFINE f == call[h].flow
    <2>1. TelegramStep(h) /\ f \in Flows /\ lock \in [Flows -> Handlers \cup {None}]
      BY <1>4, TelegramMoves DEF TypeInv, TypeOK, Places, TelegramStep, AtTelegram
    <2>2. lock[f] = h
      BY <2>1 DEF Locks, TelegramStep
    <2>3. \A k \in Handlers \ {h} : call[k].pc \in AtTelegram => call[k].flow \in Flows \ {f}
      BY <2>2 DEF Locks, TypeInv, Places, AtTelegram
    <2>4. CASE call'[h].pc = "get_me" /\ call'[h].flow = f /\ UNCHANGED lock
      BY <1>0, <2>1, <2>2, <2>4 DEF Locks, LocksAreFreed, TelegramStep, AtTelegram
    <2>5. CASE call'[h].pc \in {"idle", "user"} /\ Unlock(f)
      <3>1. lock'[f] = None /\ \A g \in Flows \ {f} : lock'[g] = lock[g]
        BY <2>1, <2>5 DEF Unlock
      <3>2. \A g \in Flows \ {f} : lock[g] # None => lock[g] # h
        BY DEF Locks, LocksAreFreed
      <3> QED
        BY <1>0, <2>1, <2>3, <2>5, <3>1, <3>2 DEF Locks, LocksAreFreed, TelegramStep, AtTelegram
    <2> QED
      BY <2>1, <2>4, <2>5 DEF TelegramStep
  <1>5. ASSUME NEW h \in Handlers, Link(h)
        PROVE  Locks'
    <2>1. LinkStep(h)
      BY <1>5, LinkMoves
    <2>2. call[h].pc \notin AtTelegram /\ call'[h].pc \notin AtTelegram /\ UNCHANGED lock
      BY <2>1 DEF LinkStep, AtTelegram, Linking, memory
    <2> QED
      BY <1>0, <2>1, <2>2 DEF Locks, LocksAreFreed, LinkStep
  <1>6. CASE Restart
    BY <1>6, IdleCall DEF Restart, Locks, LocksAreFreed, AtTelegram
  <1> QED
    BY <1>1, <1>2, <1>3, <1>4, <1>5, <1>6
    DEF Next, Start, Cancel, GrowOld, Meet, memory, vars, Steps

(* What is asked of Telegram was counted, and is within the limits. *)
Counted ==
  \A f \in Flows :
    /\ codes[f] <= MaxCodeAttempts
    /\ codes[f] + passwords[f] <= 2 * MaxCodeAttempts
    /\ codes[f] + passwords[f] <= flow[f].attempts
    /\ flow[f].status = "unused" => codes[f] + passwords[f] = 0

LEMMA EnterCounts ==
  ASSUME TypeInv, Counted, NEW h \in Handlers, NEW f \in Flows, NEW step \in Steps,
         NEW kept, NEW open, Enter(h, f, step, kept, open)
  PROVE  Counted'
  <1> DEFINE n == flow[f].attempts + 1
  <1>0. n \in Nat /\ \A g \in Flows : codes[g] \in Nat /\ passwords[g] \in Nat /\ flow[g].attempts \in Nat
    BY DEF TypeInv, TypeOK, Flow
  <1>1. CASE UNCHANGED <<flow, counts>>
    BY <1>1 DEF Counted, counts
  <1>2. CASE flow' = [flow EXCEPT ![f].attempts = n] /\ UNCHANGED counts
    <2>1. /\ flow'[f].attempts = n /\ flow'[f].status = flow[f].status
          /\ \A g \in Flows \ {f} : flow'[g] = flow[g]
      BY <1>0, <1>2, Attempted DEF TypeInv
    <2> QED
      BY <1>0, <1>2, <2>1 DEF Counted, counts
  <1>3. CASE /\ flow[f].status = StepOf(step)
             /\ flow' = [flow EXCEPT ![f].attempts = n]
             /\ n <= TriesOf(step)
             /\ codes' = IF step = "code" THEN [codes EXCEPT ![f] = @ + 1] ELSE codes
             /\ passwords' = IF step = "password" THEN [passwords EXCEPT ![f] = @ + 1]
                             ELSE passwords
    <2>1. /\ flow'[f].attempts = n /\ flow'[f].status = flow[f].status
          /\ \A g \in Flows \ {f} : flow'[g] = flow[g]
      BY <1>0, <1>3, Attempted DEF TypeInv
    <2>2. flow'[f].status # "unused"
      BY <1>3, <2>1 DEF StepOf
    <2>3. /\ \A g \in Flows \ {f} : codes'[g] = codes[g] /\ passwords'[g] = passwords[g]
          /\ \/ step = "code" /\ codes'[f] = codes[f] + 1 /\ passwords'[f] = passwords[f]
             \/ step = "password" /\ codes'[f] = codes[f] /\ passwords'[f] = passwords[f] + 1
      BY <1>3 DEF Steps, TypeInv, TypeOK
    <2>4. MaxCodeAttempts \in Nat \ {0}
      BY AuthAssumption
    <2>5. /\ codes'[f] <= MaxCodeAttempts
          /\ codes'[f] + passwords'[f] <= 2 * MaxCodeAttempts
          /\ codes'[f] + passwords'[f] <= n
      BY <1>0, <1>3, <2>3, <2>4 DEF Counted, TriesOf
    <2> QED
      BY <2>1, <2>2, <2>3, <2>5 DEF Counted
  <1> QED
    BY <1>1, <1>2, <1>3 DEF Enter

LEMMA CountedStep ==
  ASSUME TypeInv, Counted, [Next]_vars
  PROVE  Counted'
  <1>1. CASE UNCHANGED <<flow, counts>>
    BY <1>1 DEF Counted, counts
  <1>2. ASSUME NEW f \in Flows, NEW login \in Logins, Start(f, login[1], login[2])
        PROVE  Counted'
    <2>1. flow'[f].attempts = 0 /\ flow[f].status = "unused"
          /\ \A g \in Flows \ {f} : flow'[g] = flow[g]
      BY <1>2 DEF Start, TypeInv, TypeOK
    <2>2. UNCHANGED <<codes, passwords>>
      BY <1>2 DEF Start, counts
    <2> QED
      BY <2>1, <2>2 DEF Counted, TypeInv, TypeOK
  <1>3. ASSUME NEW h \in Handlers, NEW f \in Flows, NEW step \in Steps, Submit(h, f, step)
        PROVE  Counted'
    BY <1>1, <1>3, EnterCounts DEF Submit
  <1>4. ASSUME NEW h \in Handlers, GetLock(h)
        PROVE  Counted'
    <2>1. call[h].flow \in Flows /\ call[h].step \in Steps
      BY <1>4 DEF GetLock, TypeInv, TypeOK, Places, Call, Steps
    <2> QED
      BY <1>4, <2>1, EnterCounts DEF GetLock
  <1>5. ASSUME NEW h \in Handlers, Telegram(h)
        PROVE  Counted'
    BY <1>5, TelegramMoves DEF TelegramStep, Counted, counts
  <1>6. ASSUME NEW h \in Handlers, Link(h)
        PROVE  Counted'
    BY <1>1, <1>6, LinkMoves DEF LinkStep, memory
  <1> QED
    BY <1>1, <1>2, <1>3, <1>4, <1>5, <1>6
    DEF Next, Cancel, GrowOld, Meet, Restart, memory, vars, Steps

(* A request that is past Telegram has a session that Telegram granted, one *)
(* in link_account works for the user of its flow, and what it has stored   *)
(* bears that out.                                                         *)
Granted == {"get_me", "user", "cookie"} \cup Linking

MayGoOn(c) ==
  /\ c.pc \in Granted => granted[c.flow] = "session"
  /\ c.pc \in Linking => MayLogIn(c.flow) /\ c.user = UserOf(c.flow)

Verified ==
  /\ \A h \in Handlers : MayGoOn(call[h])
  /\ LinkedWasVerified
  /\ \A u, t \in People : account[u][t] # None => flow[account[u][t]].status # "unused"

(* What a flow that has been begun keeps, whatever happens to its requests. *)
Kept ==
  \A f \in Flows :
    /\ granted[f] = "session" => granted'[f] = "session"
    /\ flow[f].status # "unused" => /\ flow'[f].status # "unused"
                                   /\ flow'[f].phone = flow[f].phone
                                   /\ flow'[f].owner = flow[f].owner

LEMMA KeptGoesOn ==
  ASSUME TypeInv, Kept, NEW h \in Handlers, MayGoOn(call[h]), call'[h] = call[h]
  PROVE  MayGoOn(call[h])'
  <1>1. CASE call[h].pc = "idle"
    BY <1>1 DEF MayGoOn, Granted, Linking
  <1>2. CASE call[h].pc # "idle"
    <2>1. call[h].flow \in Flows /\ flow[call[h].flow].status # "unused"
      BY <1>2 DEF TypeInv, Places
    <2>2. /\ granted[call[h].flow] = "session" => granted'[call[h].flow] = "session"
          /\ flow'[call[h].flow].phone = flow[call[h].flow].phone
          /\ flow'[call[h].flow].owner = flow[call[h].flow].owner
      BY <2>1 DEF Kept
    <2> QED
      BY <2>2 DEF MayGoOn, MayLogIn, UserOf
  <1> QED
    BY <1>1, <1>2

LEMMA KeptIsVerified ==
  ASSUME TypeInv, Verified, Kept, UNCHANGED account,
         \A h \in Handlers : \/ call'[h] = call[h]
                             \/ call'[h].pc \in {"idle", "lock", "sign_in"}
                             \/ MayGoOn(call[h])'
  PROVE  Verified'
  <1>1. \A h \in Handlers : MayGoOn(call[h])'
    <2>1. ASSUME NEW h \in Handlers, call'[h].pc \in {"idle", "lock", "sign_in"}
          PROVE  MayGoOn(call[h])'
      BY <2>1 DEF MayGoOn, Granted, Linking
    <2> QED
      BY <2>1, KeptGoesOn DEF Verified
  <1>2. ASSUME NEW u \in People, NEW t \in People, account[u][t] # None
        PROVE  LET f == account[u][t]
               IN  /\ flow'[f].status # "unused"
                   /\ granted'[f] = "session"
                   /\ flow'[f].phone = t
                   /\ flow'[f].owner = u \/ (flow'[f].owner = None /\ u = t /\ t \in Allowed)
    <2>1. account[u][t] \in Flows /\ flow[account[u][t]].status # "unused"
      BY <1>2 DEF TypeInv, TypeOK, Verified
    <2> QED
      BY <1>2, <2>1 DEF Kept, Verified, LinkedWasVerified
  <1> QED
    BY <1>1, <1>2 DEF Verified, LinkedWasVerified

LEMMA EnterKeeps ==
  ASSUME TypeInv, Verified, NEW h \in Handlers, NEW f \in Flows, NEW step \in Steps,
         NEW kept, NEW open, Enter(h, f, step, kept, open), UNCHANGED <<granted, tables>>
  PROVE  Verified'
  <1> DEFINE n == flow[f].attempts + 1
             c == [Idle EXCEPT !.pc = "sign_in", !.flow = f, !.step = step]
  <1>1. n \in Nat
    BY DEF TypeInv, TypeOK, Flow
  <1>2. UNCHANGED flow \/ flow' = [flow EXCEPT ![f].attempts = n]
    BY DEF Enter
  <1>3. Kept
    BY <1>1, <1>2, Attempted DEF TypeInv, Kept
  <1>4. \A k \in Handlers : call'[k] = call[k] \/ call'[k].pc \in {"idle", "lock", "sign_in"}
    <2>1. CASE Answer(h)
      BY <2>1, AnswerTypes DEF TypeInv
    <2>2. CASE call' = [call EXCEPT ![h] = c]
      <3>1. c.pc = "sign_in"
        BY DEF Idle
      <3> HIDE DEF c
      <3> QED
        BY <2>2, <3>1 DEF TypeInv, TypeOK
    <2> QED
      BY <2>1, <2>2 DEF Enter
  <1> QED
    BY <1>3, <1>4, KeptIsVerified DEF tables

(* The commit stores the session of the login in the place of its user and  *)
(* its phone.                                                              *)
LEMMA CommitVerifies ==
  ASSUME TypeInv, Verified, NEW h \in Handlers, Commit(h)
  PROVE  Verified'
  <1> DEFINE f == call[h].flow
             u == call[h].user
             t == flow[f].phone
  <1>1. /\ f \in Flows /\ u \in People /\ t \in People /\ flow[f].status # "unused"
        /\ MayLogIn(f) /\ u = UserOf(f) /\ granted[f] = "session"
    BY DEF Commit, TypeInv, TypeOK, Places, Verified, MayGoOn, Granted, Linking
  <1>2. LinkStep(h)
    BY LinkMoves DEF Link
  <1>3. UNCHANGED <<flow, granted>> /\ call'[h].pc = "cookie" /\ call'[h].flow = f
    <2>1. [Idle EXCEPT !.pc = "cookie", !.flow = f].pc = "cookie"
          /\ [Idle EXCEPT !.pc = "cookie", !.flow = f].flow = f
      BY DEF Idle
    <2> QED
      BY <2>1 DEF Commit, memory, TypeInv, TypeOK
  <1>4. \A k \in Handlers : MayGoOn(call[k])'
    <2>1. MayGoOn(call[h])'
      BY <1>1, <1>3 DEF MayGoOn, Linking
    <2>2. \A k \in Handlers \ {h} : call'[k] = call[k]
      BY <1>2 DEF LinkStep
    <2> QED
      BY <1>3, <2>1, <2>2 DEF Verified, MayGoOn, MayLogIn, UserOf
  <1>5. \A v, p \in People : \/ account'[v][p] = account[v][p]
                             \/ v = u /\ p = t /\ account'[v][p] = f
    BY DEF Commit, TypeInv, TypeOK
  <1>6. flow[f].owner = u \/ (flow[f].owner = None /\ u = t /\ t \in Allowed)
    BY <1>1 DEF MayLogIn, UserOf
  <1> QED
    BY <1>1, <1>3, <1>4, <1>5, <1>6 DEF Verified, LinkedWasVerified

LEMMA VerifiedStep ==
  ASSUME TypeInv, Verified, [Next]_vars
  PROVE  Verified'
  <1>1. CASE UNCHANGED <<flow, granted, account, call>>
    BY <1>1, KeptIsVerified DEF Kept
  <1>2. ASSUME NEW f \in Flows, NEW login \in Logins, Start(f, login[1], login[2])
        PROVE  Verified'
    <2>1. flow[f].status = "unused" /\ \A g \in Flows \ {f} : flow'[g] = flow[g]
      BY <1>2 DEF Start, TypeInv, TypeOK
    <2>2. Kept /\ UNCHANGED <<account, call>>
      BY <1>2, <2>1 DEF Kept, Start, tables
    <2> QED
      BY <2>2, KeptIsVerified
  <1>3. ASSUME NEW h \in Handlers, NEW f \in Flows, NEW step \in Steps, Submit(h, f, step)
        PROVE  Verified'
    <2>1. CASE Enter(h, f, step, Live, Open)
      BY <1>3, <2>1, EnterKeeps DEF Submit
    <2>2. CASE /\ call' = [call EXCEPT ![h] = [Idle EXCEPT !.pc = "lock", !.flow = f, !.step = step]]
               /\ UNCHANGED flow
      <3> DEFINE c == [Idle EXCEPT !.pc = "lock", !.flow = f, !.step = step]
      <3>1. c.pc = "lock"
        BY DEF Idle
      <3> HIDE DEF c
      <3>2. \A k \in Handlers : call'[k] = call[k] \/ call'[k].pc \in {"idle", "lock", "sign_in"}
        BY <2>2, <3>1 DEF TypeInv, TypeOK, c
      <3>3. Kept /\ UNCHANGED account
        BY <1>3, <2>2 DEF Kept, Submit, tables
      <3> QED
        BY <3>2, <3>3, KeptIsVerified
    <2> QED
      BY <1>1, <1>3, <2>1, <2>2 DEF Submit, tables
  <1>4. ASSUME NEW h \in Handlers, GetLock(h)
        PROVE  Verified'
    <2>1. call[h].flow \in Flows /\ call[h].step \in Steps
      BY <1>4 DEF GetLock, TypeInv, TypeOK, Places, Call, Steps
    <2> QED
      BY <1>4, <2>1, EnterKeeps DEF GetLock
  <1>5. ASSUME NEW h \in Handlers, Telegram(h)
        PROVE  Verified'
    <2>1. TelegramStep(h)
      BY <1>5, TelegramMoves
    <2>2. Kept /\ UNCHANGED account
      BY <2>1 DEF TelegramStep, Kept, tables
    <2>3. call'[h].pc = "idle" \/ MayGoOn(call[h])'
      <3>1. CASE call'[h].pc = "get_me" /\ call'[h].flow = call[h].flow /\ granted'[call[h].flow] = "session"
        BY <3>1 DEF MayGoOn, Linking
      <3>2. CASE call[h].pc = "get_me" /\ call'[h].pc = "user" /\ call'[h].flow = call[h].flow
        <4>1. granted[call[h].flow] = "session" /\ call[h].flow \in Flows
          BY <3>2 DEF Verified, MayGoOn, Granted, TypeInv, Places
        <4> QED
          BY <2>2, <3>2, <4>1 DEF MayGoOn, Linking, Kept
      <3> QED
        BY <2>1, <3>1, <3>2 DEF TelegramStep
    <2>4. \A k \in Handlers \ {h} : call'[k] = call[k]
      BY <2>1 DEF TelegramStep
    <2> QED
      BY <2>2, <2>3, <2>4, KeptIsVerified
  <1>6. ASSUME NEW h \in Handlers, Link(h)
        PROVE  Verified'
    <2>1. CASE Commit(h)
      BY <2>1, CommitVerifies
    <2>2. CASE UNCHANGED account
      <3>1. LinkStep(h)
        BY <1>6, LinkMoves
      <3>2. Kept /\ UNCHANGED <<flow, granted>>
        BY <3>1 DEF LinkStep, Kept, memory
      <3>3. call'[h].pc = "idle" \/ MayGoOn(call[h])'
        <4>1. granted[call[h].flow] = "session"
          BY <3>1 DEF LinkStep, Verified, MayGoOn, Granted
        <4>2. call[h].pc \in Linking => MayLogIn(call[h].flow) /\ call[h].user = UserOf(call[h].flow)
          BY DEF Verified, MayGoOn
        <4> QED
          BY <3>1, <3>2, <4>1, <4>2 DEF LinkStep, MayGoOn, MayLogIn, UserOf
      <3>4. \A k \in Handlers \ {h} : call'[k] = call[k]
        BY <3>1 DEF LinkStep
      <3> QED
        BY <2>2, <3>2, <3>3, <3>4, KeptIsVerified
    <2> QED
      BY <1>6, <2>1, <2>2 DEF Link, ReadUser, NewUser, ReadAccount, CountAccounts, NewAccount,
                              SetCookie, LinkFails, tables
  <1>7. CASE Restart
    BY <1>7, IdleCall, KeptIsVerified DEF Restart, Kept, tables
  <1> QED
    BY <1>1, <1>2, <1>3, <1>4, <1>5, <1>6, <1>7
    DEF Next, Cancel, GrowOld, Meet, memory, vars, tables, Steps

(* The store and the clients are only ever changed together. *)
LEMMA ClientsStep ==
  ASSUME TypeInv, NoLeakedClient, [Next]_vars
  PROVE  NoLeakedClient'
  <1>1. CASE UNCHANGED <<store, connected>>
    BY <1>1 DEF NoLeakedClient
  <1>2. ASSUME NEW h, NEW f, NEW step, NEW kept, NEW open, open \subseteq kept,
               Enter(h, f, step, kept, open)
        PROVE  NoLeakedClient'
    BY <1>2 DEF Enter, NoLeakedClient
  <1>3. Open \subseteq Live
    BY DEF NoLeakedClient, Open, Live
  <1>4. ASSUME NEW h \in Handlers, NEW f \in Flows, NEW step \in Steps, Submit(h, f, step)
        PROVE  NoLeakedClient'
    BY <1>2, <1>3, <1>4 DEF Submit, Collect, NoLeakedClient
  <1>5. ASSUME NEW h \in Handlers, GetLock(h)
        PROVE  NoLeakedClient'
    BY <1>2, <1>5 DEF GetLock, NoLeakedClient
  <1>6. ASSUME NEW h \in Handlers, Telegram(h)
        PROVE  NoLeakedClient'
    BY <1>6, TelegramMoves DEF TelegramStep
  <1>7. ASSUME NEW h \in Handlers, Link(h)
        PROVE  NoLeakedClient'
    BY <1>1, <1>7, LinkMoves DEF LinkStep, memory
  <1> QED
    BY <1>1, <1>4, <1>5, <1>6, <1>7
    DEF Next, Start, Cancel, Drop, GrowOld, Meet, Restart, NoLeakedClient, memory, vars, Steps

-----------------------------------------------------------------------------
Inv == TypeInv /\ Locks /\ Counted /\ Verified /\ NoLeakedClient

LEMMA InvStart ==
  ASSUME Init
  PROVE  Inv
  <1>1. TypeInv
    BY TypeStart
  <1>2. Locks /\ NoLeakedClient
    BY IdleCall DEF Init, Locks, LocksAreFreed, AtTelegram, NoLeakedClient
  <1>3. Counted
    BY AuthAssumption DEF Init, Counted, Unused
  <1>4. Verified
    BY IdleCall DEF Init, Verified, MayGoOn, Granted, Linking, LinkedWasVerified
  <1> QED
    BY <1>1, <1>2, <1>3, <1>4 DEF Inv

LEMMA InvStep ==
  ASSUME Inv, [Next]_vars
  PROVE  Inv'
  BY TypeStep, LocksStep, CountedStep, VerifiedStep, ClientsStep DEF Inv

LEMMA AlwaysInv == Spec => []Inv
  <1> QED
    BY InvStart, InvStep, PTL DEF Spec

(* Every request and every flow stays within what auth_flow.py can give it, *)
(* two requests never talk to Telegram through one client (the lock of the  *)
(* PendingLogin), and each lock that is held belongs to a request that is   *)
(* at Telegram, so that no error path leaves one behind.                    *)
THEOREM LoginsAreSound == Spec => []LoginInv
  <1>1. ASSUME Inv
        PROVE  LoginInv
    BY <1>1 DEF Inv, TypeInv, Locks, LoginInv, OneSignIn
  <1> QED
    BY <1>1, AlwaysInv, PTL

(* Telegram is asked for no more than MAX_CODE_ATTEMPTS codes, and for no   *)
(* more than twice as many codes and passwords together, in any login.     *)
THEOREM GuessesAreBounded == Spec => []GuessesBounded
  <1>1. ASSUME Inv
        PROVE  GuessesBounded
    BY <1>1 DEF Inv, Counted, GuessesBounded
  <1> QED
    BY <1>1, AlwaysInv, PTL

(* What link_account stores is a session Telegram granted for that phone,   *)
(* in a login begun by that user or by somebody who may log in as it.      *)
THEOREM OnlyVerifiedIsLinked == Spec => []LinkedWasVerified
  <1>1. ASSUME Inv
        PROVE  LinkedWasVerified
    BY <1>1 DEF Inv, Verified
  <1> QED
    BY <1>1, AlwaysInv, PTL

(* A connected client has its flow in the store: cancel, _gc, the limit on  *)
(* attempts and take_result disconnect whatever they take out.             *)
THEOREM NoClientLeaks == Spec => []NoLeakedClient
  <1>1. ASSUME Inv
        PROVE  NoLeakedClient
    BY <1>1 DEF Inv
  <1> QED
    BY <1>1, AlwaysInv, PTL

-----------------------------------------------------------------------------
(* The number of accounts.  A request that has counted has room for one     *)
(* account, and makes use of it once.                                      *)
Countable ==
  /\ \A h \in Handlers : call[h].newAccount => call[h].pc = "commit"
  /\ \A h \in Handlers : call[h].pc = "commit" /\ ~call[h].newAccount => Row(h) # None
  /\ \A u \in People : IsFiniteSet(AccountsOf(u))

Limited == Countable /\ AccountsNearlyLimited

LEMMA RoomIsFinite ==
  ASSUME NEW u
  PROVE  /\ IsFiniteSet(Room(u)) /\ Cardinality(Room(u)) \in Nat
         /\ Cardinality(Handlers) \in Nat /\ Cardinality(Room(u)) <= Cardinality(Handlers)
  <1>1. Room(u) \subseteq Handlers /\ IsFiniteSet(Handlers)
    BY AuthAssumption DEF Room
  <1> QED
    BY <1>1, FS_Subset, FS_CardinalityType

(* The row of a request that goes on stays, and no request has more room.   *)
RoomKept ==
  /\ UNCHANGED account
  /\ \A f \in Flows : flow[f].status # "unused" => flow'[f].phone = flow[f].phone
  /\ \A h \in Handlers :
       \/ call'[h] = call[h]
       \/ call'[h].pc \notin {"new_account", "commit"} /\ ~call'[h].newAccount

LEMMA KeptIsLimited ==
  ASSUME TypeInv, Limited, RoomKept
  PROVE  Limited'
  <1>1. \A u \in People : AccountsOf(u)' = AccountsOf(u)
    BY DEF RoomKept, AccountsOf
  <1>2. \A u \in People : Room(u)' \subseteq Room(u)
    BY DEF RoomKept, Room
  <1>3. Countable'
    <2>1. \A h \in Handlers : call'[h].newAccount => call'[h].pc = "commit"
      BY DEF Limited, Countable, RoomKept
    <2>2. ASSUME NEW h \in Handlers, call'[h].pc = "commit", ~call'[h].newAccount
          PROVE  Row(h)' # None
      <3>1. call'[h] = call[h]
        BY <2>2 DEF RoomKept
      <3>2. call[h].flow \in Flows /\ flow[call[h].flow].status # "unused"
        BY <2>2, <3>1 DEF TypeInv, Places
      <3>3. Row(h)' = Row(h)
        BY <3>1, <3>2 DEF Row, RoomKept
      <3> QED
        BY <2>2, <3>1, <3>3 DEF Limited, Countable
    <2> QED
      BY <1>1, <2>1, <2>2 DEF Limited, Countable
  <1>4. AccountsNearlyLimited'
    <2> SUFFICES ASSUME NEW u \in People
                 PROVE  Cardinality(AccountsOf(u)') + Cardinality(Room(u)')
                          < MaxAccounts + Cardinality(Handlers)
      BY DEF AccountsNearlyLimited
    <2>1. Cardinality(Room(u)') <= Cardinality(Room(u)) /\ Cardinality(Room(u)') \in Nat
      BY <1>2, RoomIsFinite, FS_Subset, FS_CardinalityType
    <2>2. Cardinality(AccountsOf(u)) \in Nat
      BY FS_CardinalityType DEF Limited, Countable
    <2>3. Cardinality(AccountsOf(u)) + Cardinality(Room(u)) < MaxAccounts + Cardinality(Handlers)
      BY DEF Limited, AccountsNearlyLimited
    <2> QED
      BY <1>1, <2>1, <2>2, <2>3, RoomIsFinite, AuthAssumption
  <1> QED
    BY <1>3, <1>4 DEF Limited

(* Another step of link_account than the commit: only a request that has    *)
(* counted fewer than MaxAccounts comes to have room.                       *)
LEMMA LinkLimits ==
  ASSUME TypeInv, Limited, NEW h \in Handlers, Link(h), ~Commit(h)
  PROVE  Limited'
  <1> DEFINE u == call[h].user
  <1>0. LinkStep(h) /\ UNCHANGED <<flow, account>>
    <2>1. LinkStep(h)
      BY LinkMoves
    <2> QED
      BY <2>1 DEF LinkStep, Link, memory, tables, ReadUser, NewUser, ReadAccount, CountAccounts,
                  NewAccount, SetCookie, LinkFails
  <1>1. \A k \in Handlers \ {h} : call'[k] = call[k]
    BY <1>0 DEF LinkStep
  <1>2. call \in [Handlers -> Call] /\ call[h] \in Call
    BY DEF TypeInv, TypeOK
  <1>3. CASE call'[h].pc \notin {"new_account", "commit"} /\ ~call'[h].newAccount
    BY <1>0, <1>1, <1>3, KeptIsLimited DEF RoomKept
  <1>4. CASE NewAccount(h) /\ call' = [call EXCEPT ![h].pc = "commit", ![h].newAccount = TRUE]
    <2>1. /\ call'[h].pc = "commit" /\ call'[h].newAccount /\ call'[h].user = u
          /\ call[h].pc = "new_account"
      BY <1>2, <1>4 DEF NewAccount
    <2>2. \A v \in People : Room(v)' = Room(v)
      BY <1>1, <2>1 DEF Room
    <2>3. \A v \in People : AccountsOf(v)' = AccountsOf(v)
      BY <1>0 DEF AccountsOf
    <2>4. \A k \in Handlers : call'[k].newAccount => call'[k].pc = "commit"
      BY <1>1, <2>1 DEF Limited, Countable
    <2>5. \A k \in Handlers : call'[k].pc = "commit" /\ ~call'[k].newAccount => Row(k)' # None
      BY <1>0, <1>1, <2>1 DEF Limited, Countable, Row
    <2> QED
      BY <2>2, <2>3, <2>4, <2>5 DEF Limited, Countable, AccountsNearlyLimited
  <1>5. CASE ReadAccount(h) /\ Row(h) # None
    <2>1. call'[h].pc = "commit" /\ call'[h].newAccount = call[h].newAccount /\ call'[h].user = u
          /\ call'[h].flow = call[h].flow /\ call[h].pc = "account"
      BY <1>2, <1>5 DEF ReadAccount
    <2>2. ~call[h].newAccount
      BY <2>1 DEF Limited, Countable
    <2>3. \A v \in People : Room(v)' = Room(v)
      BY <1>1, <2>1, <2>2 DEF Room
    <2>4. \A v \in People : AccountsOf(v)' = AccountsOf(v)
      BY <1>0 DEF AccountsOf
    <2>5. \A k \in Handlers : call'[k].newAccount => call'[k].pc = "commit"
      BY <1>1, <2>1 DEF Limited, Countable
    <2>6. \A k \in Handlers : call'[k].pc = "commit" /\ ~call'[k].newAccount => Row(k)' # None
      BY <1>0, <1>1, <1>5, <2>1 DEF Limited, Countable, Row
    <2> QED
      BY <2>3, <2>4, <2>5, <2>6 DEF Limited, Countable, AccountsNearlyLimited
  <1>6. CASE /\ CountAccounts(h) /\ Cardinality(AccountsOf(u)) < MaxAccounts
             /\ call' = [call EXCEPT ![h].pc = "new_account"]
    <2>1. call'[h].pc = "new_account" /\ call'[h].newAccount = call[h].newAccount /\ call'[h].user = u
          /\ call[h].pc = "count"
      BY <1>2, <1>6 DEF CountAccounts
    <2>2. ~call[h].newAccount
      BY <2>1 DEF Limited, Countable
    <2>3. \A v \in People : AccountsOf(v)' = AccountsOf(v)
      BY <1>0 DEF AccountsOf
    <2>4. \A k \in Handlers : call'[k].newAccount => call'[k].pc = "commit"
      BY <1>1, <2>1, <2>2 DEF Limited, Countable
    <2>5. \A k \in Handlers : call'[k].pc = "commit" /\ ~call'[k].newAccount => Row(k)' # None
      BY <1>0, <1>1, <2>1 DEF Limited, Countable, Row
    <2>6. ASSUME NEW v \in People
          PROVE  Cardinality(AccountsOf(v)') + Cardinality(Room(v)')
                   < MaxAccounts + Cardinality(Handlers)
      <3>1. CASE v = u
        <4>1. Room(v)' \subseteq Handlers /\ IsFiniteSet(Handlers)
          BY AuthAssumption DEF Room
        <4>2. Cardinality(Room(v)') <= Cardinality(Handlers) /\ Cardinality(Room(v)') \in Nat
              /\ Cardinality(Handlers) \in Nat
          BY <4>1, FS_Subset, FS_CardinalityType
        <4>3. Cardinality(AccountsOf(v)) \in Nat /\ Cardinality(AccountsOf(v)) < MaxAccounts
          BY <1>6, <3>1, FS_CardinalityType DEF Limited, Countable
        <4> QED
          BY <2>3, <4>2, <4>3, AuthAssumption
      <3>2. CASE v # u
        <4>1. Room(v)' = Room(v)
          BY <1>1, <2>1, <3>2 DEF Room
        <4> QED
          BY <2>3, <4>1 DEF Limited, AccountsNearlyLimited
      <3> QED
        BY <3>1, <3>2
    <2> QED
      BY <2>3, <2>4, <2>5, <2>6 DEF Limited, Countable, AccountsNearlyLimited
  <1>7. Idle.pc = "idle" /\ ~Idle.newAccount
    BY DEF Idle
  <1>8. CASE Answer(h)
    BY <1>2, <1>3, <1>7, <1>8 DEF Answer
  <1>9. CASE ReadUser(h) \/ NewUser(h)
    <2>1. call[h].pc \in {"user", "new_user"} /\ ~call[h].newAccount
      BY <1>9 DEF ReadUser, NewUser, Limited, Countable
    <2>2. CASE ReadUser(h) /\ ~Answer(h)
      <3> DEFINE pc == IF UserOf(call[h].flow) \in users THEN "account" ELSE "new_user"
      <3>1. call' = [call EXCEPT ![h].user = UserOf(call[h].flow), ![h].pc = pc]
        BY <2>2 DEF ReadUser
      <3>2. pc \in {"account", "new_user"}
        OBVIOUS
      <3> HIDE DEF pc
      <3>3. call'[h].pc = pc /\ call'[h].newAccount = call[h].newAccount
        BY <1>2, <3>1 DEF Call
      <3>4. call'[h].pc \notin {"new_account", "commit"}
        BY <3>2, <3>3
      <3> QED
        BY <1>3, <2>1, <3>3, <3>4
    <2>3. CASE call' = [call EXCEPT ![h].pc = "account"]
      <3>1. call'[h].pc = "account" /\ call'[h].newAccount = call[h].newAccount
        BY <1>2, <2>3 DEF Call
      <3> QED
        BY <1>3, <2>1, <3>1
    <2>4. CASE call' = [call EXCEPT ![h].pc = "account", ![h].newUser = TRUE]
      <3>1. call'[h].pc = "account" /\ call'[h].newAccount = call[h].newAccount
        BY <1>2, <2>4 DEF Call
      <3> QED
        BY <1>3, <2>1, <3>1
    <2> QED
      BY <1>8, <1>9, <2>2, <2>3, <2>4 DEF NewUser
  <1>10. CASE ReadAccount(h) /\ Row(h) = None
    <2>1. call[h].pc = "account" /\ ~call[h].newAccount
      BY <1>10 DEF ReadAccount, Limited, Countable
    <2> QED
      BY <1>2, <1>3, <1>10, <2>1 DEF ReadAccount
  <1>11. CASE CountAccounts(h)
    <2>1. Cardinality(AccountsOf(u)) \in Int /\ MaxAccounts \in Int
      <3>1. u \in People
        BY <1>11 DEF CountAccounts, TypeInv, TypeOK, Linking
      <3> QED
        BY <3>1, FS_CardinalityType, AuthAssumption DEF Limited, Countable
    <2>2. \/ Answer(h)
          \/ /\ Cardinality(AccountsOf(u)) < MaxAccounts
             /\ call' = [call EXCEPT ![h].pc = "new_account"]
      BY <1>11, <2>1 DEF CountAccounts
    <2> QED
      BY <1>6, <1>8, <1>11, <2>2
  <1>12. CASE NewAccount(h)
    BY <1>4, <1>8, <1>12 DEF NewAccount
  <1> QED
    BY <1>5, <1>8, <1>9, <1>10, <1>11, <1>12 DEF Link, SetCookie, LinkFails

(* The commit makes an account of the room, or replaces the session of one. *)
LEMMA CommitLimits ==
  ASSUME TypeInv, Limited, NEW h \in Handlers, Commit(h)
  PROVE  Limited'
  <1>0. /\ call[h].pc = "commit" /\ call[h].flow \in Flows /\ call[h].user \in People
        /\ flow[call[h].flow].phone \in People
    BY DEF Commit, TypeInv, TypeOK, Places, Linking
  <1> SUFFICES ASSUME NEW u \in People, NEW t \in People, NEW f \in Flows,
                      f = call[h].flow, u = call[h].user, t = flow[f].phone
               PROVE  Limited'
    BY <1>0
  <1> DEFINE c == [Idle EXCEPT !.pc = "cookie", !.flow = f]
  <1>1. /\ call \in [Handlers -> Call] /\ account \in [People -> [People -> Flows \cup {None}]]
        /\ flow' = flow /\ account' = [account EXCEPT ![u][t] = f] /\ call' = [call EXCEPT ![h] = c]
    BY DEF Commit, TypeInv, TypeOK, memory
  <1>2. None \notin Flows /\ f # None
    BY AuthAssumption
  <1>3. c.pc = "cookie" /\ ~c.newAccount
    BY DEF Idle
  <1> HIDE DEF c
  <1>4. call'[h] = c /\ \A k \in Handlers \ {h} : call'[k] = call[k]
    BY <1>1
  <1>5. \A v, p \in People : account'[v][p] = IF v = u /\ p = t THEN f ELSE account[v][p]
    BY <1>1
  <1>6. AccountsOf(u)' = AccountsOf(u) \cup {t}
    BY <1>2, <1>5 DEF AccountsOf
  <1>7. \A v \in People \ {u} : AccountsOf(v)' = AccountsOf(v)
    BY <1>5 DEF AccountsOf
  <1>8. Room(u)' = Room(u) \ {h}
    BY <1>3, <1>4 DEF Room
  <1>9. \A v \in People \ {u} : Room(v)' = Room(v)
    BY <1>3, <1>4 DEF Room
  <1>10. /\ IsFiniteSet(AccountsOf(u)) /\ IsFiniteSet(AccountsOf(u)')
         /\ Cardinality(AccountsOf(u)') = IF t \in AccountsOf(u) THEN Cardinality(AccountsOf(u))
                                          ELSE Cardinality(AccountsOf(u)) + 1
    <2>1. IsFiniteSet(AccountsOf(u))
      BY DEF Limited, Countable
    <2>2. \A S : IsFiniteSet(S) =>
            /\ IsFiniteSet(S \cup {t})
            /\ Cardinality(S \cup {t}) = IF t \in S THEN Cardinality(S) ELSE Cardinality(S) + 1
      BY FS_AddElement
    <2> QED
      BY <1>6, <2>1, <2>2
  <1>11. \A v \in People : IsFiniteSet(AccountsOf(v)')
    <2> SUFFICES ASSUME NEW v \in People PROVE IsFiniteSet(AccountsOf(v)')
      OBVIOUS
    <2>1. CASE v = u
      BY <1>10, <2>1
    <2>2. CASE v # u
      BY <1>7, <2>2 DEF Limited, Countable
    <2> QED
      BY <2>1, <2>2
  <1>12. \A k \in Handlers : call'[k].newAccount => call'[k].pc = "commit"
    BY <1>3, <1>4 DEF Limited, Countable
  <1>13. ASSUME NEW k \in Handlers, call'[k].pc = "commit", ~call'[k].newAccount
         PROVE  Row(k)' # None
    <2>1. k # h /\ call'[k] = call[k]
      BY <1>3, <1>4, <1>13
    <2>2. Row(k) # None /\ call[k].user \in People /\ flow[call[k].flow].phone \in People
      BY <1>13, <2>1 DEF Limited, Countable, TypeInv, TypeOK, Places, Linking
    <2> QED
      BY <1>1, <1>2, <1>5, <2>1, <2>2 DEF Row
  <1>14. Cardinality(AccountsOf(u)') + Cardinality(Room(u)')
           < MaxAccounts + Cardinality(Handlers)
    <2>1. /\ Cardinality(AccountsOf(u)) \in Nat /\ Cardinality(Room(u)) \in Nat
          /\ IsFiniteSet(Room(u)) /\ Cardinality(Handlers) \in Nat /\ MaxAccounts \in Nat
          /\ Cardinality(AccountsOf(u)) + Cardinality(Room(u)) < MaxAccounts + Cardinality(Handlers)
      BY <1>10, FS_CardinalityType, RoomIsFinite, AuthAssumption DEF Limited, AccountsNearlyLimited
    <2>2. CASE call[h].newAccount
      <3>1. h \in Room(u)
        BY <1>0, <2>2 DEF Room
      <3>2. Cardinality(Room(u)') = Cardinality(Room(u)) - 1
        BY <1>8, <2>1, <3>1, FS_RemoveElement
      <3> QED
        BY <1>10, <2>1, <3>2
    <2>3. CASE ~call[h].newAccount
      <3>1. t \in AccountsOf(u)
        BY <1>0, <2>3 DEF Limited, Countable, Row, AccountsOf
      <3>2. h \notin Room(u)
        BY <1>0, <2>3 DEF Room
      <3>3. Room(u)' = Room(u)
        BY <1>8, <3>2
      <3> QED
        BY <1>10, <2>1, <3>1, <3>3
    <2> QED
      BY <2>2, <2>3
  <1>15. ASSUME NEW v \in People
         PROVE  Cardinality(AccountsOf(v)') + Cardinality(Room(v)')
                  < MaxAccounts + Cardinality(Handlers)
    <2>1. CASE v = u
      BY <1>14, <2>1
    <2>2. CASE v # u
      <3>1. AccountsOf(v)' = AccountsOf(v) /\ Room(v)' = Room(v)
        BY <1>7, <1>9, <2>2
      <3> QED
        BY <3>1 DEF Limited, AccountsNearlyLimited
    <2> QED
      BY <2>1, <2>2
  <1> QED
    BY <1>11, <1>12, <1>13, <1>15 DEF Limited, Countable, AccountsNearlyLimited

LEMMA LimitedStep ==
  ASSUME TypeInv, Limited, [Next]_vars
  PROVE  Limited'
  <1>1. CASE UNCHANGED <<flow, account, call>>
    BY <1>1, KeptIsLimited DEF RoomKept
  <1>2. ASSUME NEW f \in Flows, NEW login \in Logins, Start(f, login[1], login[2])
        PROVE  Limited'
    <2>1. flow[f].status = "unused" /\ \A g \in Flows \ {f} : flow'[g] = flow[g]
      BY <1>2 DEF Start, TypeInv, TypeOK
    <2> QED
      BY <1>2, <2>1, KeptIsLimited DEF RoomKept, Start, tables
  <1>3. ASSUME NEW h \in Handlers, NEW f \in Flows, NEW step \in Steps, NEW kept, NEW open,
               Enter(h, f, step, kept, open), UNCHANGED <<granted, tables>>
        PROVE  Limited'
    <2> DEFINE n == flow[f].attempts + 1
               c == [Idle EXCEPT !.pc = "sign_in", !.flow = f, !.step = step]
    <2>1. n \in Nat
      BY DEF TypeInv, TypeOK, Flow
    <2>2. UNCHANGED flow \/ flow' = [flow EXCEPT ![f].attempts = n]
      BY <1>3 DEF Enter
    <2>3. \A g \in Flows : flow'[g].phone = flow[g].phone
      BY <2>1, <2>2, Attempted DEF TypeInv
    <2>4. c.pc = "sign_in" /\ ~c.newAccount /\ Idle.pc = "idle" /\ ~Idle.newAccount
      BY DEF Idle
    <2>5. call' = [call EXCEPT ![h] = Idle] \/ call' = [call EXCEPT ![h] = c]
      BY <1>3 DEF Enter, Answer
    <2> HIDE DEF c
    <2>6. \A k \in Handlers :
            call'[k] = call[k] \/ (call'[k].pc \notin {"new_account", "commit"} /\ ~call'[k].newAccount)
      BY <2>4, <2>5 DEF TypeInv, TypeOK
    <2> QED
      BY <1>3, <2>3, <2>6, KeptIsLimited DEF RoomKept, tables
  <1>4. ASSUME NEW h \in Handlers, NEW f \in Flows, NEW step \in Steps, Submit(h, f, step)
        PROVE  Limited'
    <2>1. CASE Enter(h, f, step, Live, Open)
      BY <1>3, <1>4, <2>1 DEF Submit
    <2>2. CASE /\ call' = [call EXCEPT ![h] = [Idle EXCEPT !.pc = "lock", !.flow = f, !.step = step]]
               /\ UNCHANGED flow
      <3> DEFINE c == [Idle EXCEPT !.pc = "lock", !.flow = f, !.step = step]
      <3>1. c.pc = "lock" /\ ~c.newAccount
        BY DEF Idle
      <3> HIDE DEF c
      <3>2. \A k \in Handlers :
              call'[k] = call[k] \/ (call'[k].pc \notin {"new_account", "commit"} /\ ~call'[k].newAccount)
        BY <2>2, <3>1 DEF TypeInv, TypeOK, c
      <3> QED
        BY <1>4, <2>2, <3>2, KeptIsLimited DEF RoomKept, Submit, tables
    <2> QED
      BY <1>1, <1>4, <2>1, <2>2 DEF Submit, tables
  <1>5. ASSUME NEW h \in Handlers, GetLock(h)
        PROVE  Limited'
    <2>1. call[h].flow \in Flows /\ call[h].step \in Steps
      BY <1>5 DEF GetLock, TypeInv, TypeOK, Places, Call, Steps
    <2> QED
      BY <1>3, <1>5, <2>1 DEF GetLock
  <1>6. ASSUME NEW h \in Handlers, Telegram(h)
        PROVE  Limited'
    <2>1. TelegramStep(h)
      BY <1>6, TelegramMoves
    <2>2. call'[h].pc \in {"get_me", "idle", "user"}
      BY <2>1 DEF TelegramStep
    <2>3. ~call'[h].newAccount
      <3>1. ~call[h].newAccount
        BY <2>1 DEF TelegramStep, AtTelegram, Limited, Countable
      <3>2. call'[h].newAccount \in {FALSE, call[h].newAccount}
        <4> DEFINE c == [call[h] EXCEPT !.pc = "get_me"]
                   d == [Idle EXCEPT !.pc = "user", !.flow = call[h].flow]
        <4>1. call \in [Handlers -> Call] /\ call[h] \in Call
          BY DEF TypeInv, TypeOK
        <4>2. c.newAccount = call[h].newAccount /\ d.newAccount = FALSE /\ Idle.newAccount = FALSE
          BY <4>1 DEF Idle, Call
        <4>3. \/ call' = [call EXCEPT ![h] = c] \/ call' = [call EXCEPT ![h] = d]
              \/ call' = [call EXCEPT ![h] = Idle]
          BY <1>6, <4>1 DEF Telegram, Accepted, Refused, CodeIsDead, SignInLost, GetMeLost, Complete, Answer
        <4> HIDE DEF c, d
        <4>4. call'[h] \in {c, d, Idle}
          BY <4>1, <4>3
        <4> QED
          BY <4>2, <4>4
      <3> QED
        BY <3>1, <3>2
    <2> QED
      BY <2>1, <2>2, <2>3, KeptIsLimited DEF RoomKept, TelegramStep, tables
  <1>7. ASSUME NEW h \in Handlers, Link(h)
        PROVE  Limited'
    BY <1>7, CommitLimits, LinkLimits
  <1>8. CASE Restart
    <2>1. \A k \in Handlers : call'[k].pc = "idle" /\ ~call'[k].newAccount
      BY <1>8 DEF Restart, Idle
    <2> QED
      BY <1>8, <2>1, KeptIsLimited DEF Restart, RoomKept, tables
  <1> QED
    BY <1>1, <1>2, <1>4, <1>5, <1>6, <1>7, <1>8
    DEF Next, Cancel, GrowOld, Meet, memory, vars, tables, Steps

LEMMA LimitedStart ==
  ASSUME Init, Handlers # {}
  PROVE  Limited
  <1>1. Idle.pc = "idle" /\ ~Idle.newAccount
    BY DEF Idle
  <1>2. \A u \in People : AccountsOf(u) = {} /\ Room(u) = {}
    BY <1>1 DEF Init, AccountsOf, Room
  <1>3. Countable
    BY <1>1, <1>2, FS_EmptySet DEF Init, Countable
  <1>4. Cardinality(Handlers) \in Nat \ {0} /\ MaxAccounts \in Nat
    BY FS_EmptySet, FS_CardinalityType, AuthAssumption
  <1> QED
    BY <1>2, <1>3, <1>4, FS_EmptySet DEF Limited, AccountsNearlyLimited


(* MAX_ACCOUNTS is exceeded only by what requests that counted at the same  *)
(* time have in common: with n requests, by less than n, however often     *)
(* users log in after that.                                                *)
THEOREM AccountsStayNearLimit == Handlers # {} => (Spec => []AccountsNearlyLimited)
  <1> SUFFICES ASSUME Handlers # {}
               PROVE  Spec => []AccountsNearlyLimited
    OBVIOUS
  <1>1. Init => Limited
    BY LimitedStart
  <1>2. Inv /\ Limited /\ [Next]_vars => Limited'
    BY LimitedStep DEF Inv
  <1>3. Limited => AccountsNearlyLimited
    BY DEF Limited
  <1> QED
    BY <1>1, <1>2, <1>3, AlwaysInv, PTL DEF Spec
=============================================================================
