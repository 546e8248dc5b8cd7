----------------------------- MODULE ChatTurnProofs -----------------------------
(***************************************************************************)
(* What holds of ChatTurn for any number of requests and conversations,    *)
(* and for every budget, number of rounds and number of calls.             *)
(***************************************************************************)
EXTENDS ChatTurn, FiniteSetTheorems, SequenceTheorems, TLAPS

(* The rows that a turn may leave. *)
Quest(c, t, n) ==
  [conv |-> c, turn |-> t, role |-> "user", n |-> n, mode |-> None, tokens |-> 0,
   rating |-> 0, auto |-> FALSE]

Replies == [conv : Convs, turn : Nat \ {0}, role : {"assistant"}, n : {0}, mode : {"agent", "direct"},
            tokens : Nat, rating : Ratings \cup {0}, auto : BOOLEAN]

(* Rows m of a table r, of which the turns in p have made proposals: every   *)
(* one is an answer or a question of an answer, every answer has its first  *)
(* question, and only a direct answer may have two.                         *)
IsReply(m) == m.role = "assistant"

First(a) == Quest(a.conv, a.turn, 1)
Second(a) == Quest(a.conv, a.turn, 2)

Whole(r, p) ==
  /\ \A m \in r : \/ m \in Replies
                  \/ \E a \in r : /\ a \in Replies
                                  /\ \/ m = First(a)
                                     \/ m = Second(a) /\ a.mode = "direct"
  /\ \A a \in r : IsReply(a) => First(a) \in r
  /\ \A a, b \in r : IsReply(a) /\ IsReply(b) /\ a.turn = b.turn => a = b
  /\ \A a \in r : IsReply(a) /\ a.turn \in p => a.mode = "agent" \/ Second(a) \in r

-----------------------------------------------------------------------------
(* What one request knows.                                                 *)
Talks == {"model", "tools", "final", "done"}
Places == {"idle", "agent", "context", "question", "answer", "direct"} \cup Talks

Items == [kind : {"call", "result"}, id : Nat \X Nat]
Calls == [kind : {"call"}, id : Nat \X Nat]

Asking == {Quest(c, t, n) : c \in Convs, t \in Nat, n \in {1, 2}}

Request == [pc : Places, conv : Convs \cup {None}, turn : Nat,
            mine : SUBSET Asking,
            iter : Nat, prompt : Seq(Items), todo : Seq(Calls), used : Nat, calls : Nat,
            tokens : Nat, wrote : BOOLEAN, broken : BOOLEAN]

(* The questions that it has added, and when a second one.                  *)
Questions(r) ==
  LET first == Quest(r.conv, r.turn, 1)
      second == Quest(r.conv, r.turn, 2) IN
  /\ r.pc = "agent" => r.mine = {} /\ ~r.wrote
  /\ r.pc \in Talks => r.mine = {first}
  /\ r.pc \in {"context", "question"} => r.mine = {first} \/ (r.mine = {} /\ ~r.wrote)
  /\ r.pc \in {"answer", "direct"} => r.mine = {first, second} \/ (r.mine = {first} /\ ~r.wrote)

(* Calls and results of a prompt: the calls still to do are the difference. *)
Ids(prompt, kind) == {prompt[i].id : i \in {j \in DOMAIN prompt : prompt[j].kind = kind}}

Balanced(r) ==
  /\ IsFiniteSet(Ids(r.prompt, "call"))
  /\ \A i \in DOMAIN r.prompt : r.prompt[i].id[1] <= r.iter
  /\ Ids(r.prompt, "call") = Ids(r.prompt, "result") \cup Ids(r.todo, "call")
  /\ Len(r.prompt) + Len(r.todo) = 2 * Cardinality(Ids(r.prompt, "call"))
  /\ r.pc # "tools" => r.todo = <<>>

(* Rounds and tokens. *)
Rounds(r) ==
  /\ r.iter <= MaxIter
  /\ r.pc = "agent" => r.iter = 0
  /\ r.pc \in {"model", "tools"} => r.iter < MaxIter
  /\ r.calls = 0 => r.used = 0
  /\ r.calls > 0 => r.used <= Budget + MinCut * (r.calls - 1)

Sound(r) ==
  /\ r \in Request
  /\ r.pc # "idle" => r.conv \in Convs
  /\ Questions(r) /\ Balanced(r) /\ Rounds(r)

-----------------------------------------------------------------------------
(* What all of them share: a turn is of one request until it ends, and has  *)
(* left nothing before; the judge has read one row.                         *)
Going(q) == req[q].pc # "idle"

Apart ==
  /\ \A q \in Requests : Going(q) =>
       /\ req[q].turn \in 1..asked /\ req[q].turn \notin proposals
       /\ \A m \in rows : m.turn # req[q].turn
       /\ given[req[q].turn] = 0
  /\ \A q, p \in Requests : Going(q) /\ Going(p) /\ req[q].turn = req[p].turn => q = p
  /\ \A m \in rows : m.turn <= asked
  /\ \A t \in 1..MaxTurns : t > asked => given[t] = 0

Types ==
  /\ convs \in [Convs -> {"new", "live", "deleted"}]
  /\ req \in [Requests -> Request]
  /\ given \in [1..MaxTurns -> Ratings \cup {0}]
  /\ DOMAIN evals = 1..MaxTurns
  /\ \A t \in 1..MaxTurns : evals[t].pc = "judged" => \E x : evals[t].read = {x}
  /\ proposals \subseteq 1..asked
  /\ asked \in 0..MaxTurns

Inv ==
  /\ Types /\ Apart /\ Whole(rows, proposals) /\ RatingsStand
  /\ \A q \in Requests : Sound(req[q])

-----------------------------------------------------------------------------
(* The operators.                                                          *)
LEMMA LesserAndGreater ==
  ASSUME NEW a \in Int, NEW b \in Int
  PROVE  /\ Min({a, b}) \in {a, b} /\ Min({a, b}) <= a /\ Min({a, b}) <= b
         /\ Max({a, b}) \in {a, b} /\ Max({a, b}) >= a /\ Max({a, b}) >= b
  <1>1. \E x \in {a, b} : \A y \in {a, b} : x =< y
    <2>1. a <= b \/ b <= a
      OBVIOUS
    <2> QED
      BY <2>1
  <1>2. \E x \in {a, b} : \A y \in {a, b} : x >= y
    <2>1. a <= b \/ b <= a
      OBVIOUS
    <2> QED
      BY <2>1
  <1>3. Min({a, b}) \in {a, b} /\ \A y \in {a, b} : Min({a, b}) =< y
    BY <1>1 DEF Min
  <1>4. Max({a, b}) \in {a, b} /\ \A y \in {a, b} : Max({a, b}) >= y
    BY <1>2 DEF Max
  <1> QED
    BY <1>3, <1>4

(* What one more result adds: it fits, or it is the least that is kept.      *)
LEMMA CutFits ==
  ASSUME NEW r, r.used \in Nat, NEW length \in Nat
  PROVE  /\ Cut(r, length) \in Nat
         /\ r.used + Cut(r, length) <= Budget \/ Cut(r, length) <= MinCut
  <1>0. MinCut \in Nat /\ Budget \in Nat
    BY ChatTurnAssumption
  <1> DEFINE most == Max({MinCut, Budget - r.used})
             cut == Min({length, most})
  <1>m. \A a, b \in Int : /\ Min({a, b}) \in {a, b} /\ Min({a, b}) <= b
                          /\ Max({a, b}) \in {a, b} /\ Max({a, b}) >= a
    BY LesserAndGreater
  <1>n. MinCut \in Int /\ length \in Int /\ Budget - r.used \in Int
    BY <1>0
  <1>1. most \in {MinCut, Budget - r.used} /\ most >= MinCut
    BY <1>m, <1>n, Zenon
  <1>2. most \in Nat /\ most \in Int
    <2> HIDE DEF most
    <2> QED
      BY <1>0, <1>1
  <1>3. cut \in {length, most} /\ cut <= most
    <2> HIDE DEF most
    <2> QED
      BY <1>m, <1>n, <1>2, Zenon
  <1>4. CASE r.used + length > Budget
    <2>1. Cut(r, length) = cut
      BY <1>4, Zenon DEF Cut
    <2> HIDE DEF cut, most
    <2> QED
      BY <1>0, <1>1, <1>2, <1>3, <2>1
  <1>5. CASE ~(r.used + length > Budget)
    <2>1. Cut(r, length) = length
      BY <1>5, Zenon DEF Cut
    <2> QED
      BY <1>0, <1>5, <2>1
  <1> QED
    BY <1>4, <1>5

LEMMA IdsOfAppend ==
  ASSUME NEW p \in Seq(Items), NEW x \in Items, NEW kind
  PROVE  Ids(Append(p, x), kind) = Ids(p, kind) \cup (IF x.kind = kind THEN {x.id} ELSE {})
  <1> DEFINE s == Append(p, x)
  <1>1. /\ Len(p) \in Nat /\ DOMAIN p = 1..Len(p) /\ DOMAIN s = 1..(Len(p) + 1)
        /\ \A i \in 1..Len(p) : s[i] = p[i]
        /\ s[Len(p) + 1] = x
    BY AppendProperties, LenProperties
  <1> HIDE DEF s
  <1>2. DOMAIN s = DOMAIN p \cup {Len(p) + 1}
    BY <1>1
  <1> QED
    BY <1>1, <1>2 DEF Ids, s

LEMMA IdsOfConcat ==
  ASSUME NEW p \in Seq(Items), NEW s \in Seq(Items), NEW kind
  PROVE  Ids(p \o s, kind) = Ids(p, kind) \cup Ids(s, kind)
  <1> DEFINE w == p \o s
  <1>1. /\ Len(p) \in Nat /\ DOMAIN p = 1..Len(p) /\ Len(s) \in Nat /\ DOMAIN s = 1..Len(s)
        /\ DOMAIN w = 1..(Len(p) + Len(s))
        /\ \A i \in 1..(Len(p) + Len(s)) : w[i] = IF i <= Len(p) THEN p[i] ELSE s[i - Len(p)]
    BY ConcatProperties, LenProperties
  <1> HIDE DEF w
  <1>2. \A i \in DOMAIN p : i \in DOMAIN w /\ w[i] = p[i]
    BY <1>1
  <1>3. \A i \in DOMAIN s : i + Len(p) \in DOMAIN w /\ w[i + Len(p)] = s[i]
    BY <1>1
  <1>4. \A i \in DOMAIN w : \/ i \in DOMAIN p /\ w[i] = p[i]
                            \/ i - Len(p) \in DOMAIN s /\ w[i] = s[i - Len(p)]
    BY <1>1
  <1>5. Ids(p, kind) \subseteq Ids(w, kind)
    BY <1>2 DEF Ids
  <1>6. Ids(s, kind) \subseteq Ids(w, kind)
    BY <1>3 DEF Ids
  <1>7. Ids(w, kind) \subseteq Ids(p, kind) \cup Ids(s, kind)
    BY <1>4 DEF Ids
  <1> QED
    BY <1>5, <1>6, <1>7 DEF w

LEMMA IdsOfTail ==
  ASSUME NEW s \in Seq(Calls), s # <<>>
  PROVE  /\ Head(s) \in Calls /\ Tail(s) \in Seq(Calls) /\ Len(Tail(s)) = Len(s) - 1
         /\ Ids(s, "call") = {Head(s).id} \cup Ids(Tail(s), "call")
  <1> DEFINE w == Tail(s)
             h == Head(s)
  <1>1. h \in Calls /\ w \in Seq(Calls) /\ Len(w) = Len(s) - 1 /\ h = s[1]
        /\ \A i \in 1..Len(w) : w[i] = s[i + 1]
    BY HeadTailProperties
  <1>2. /\ Len(s) \in Nat \ {0} /\ DOMAIN s = 1..Len(s) /\ DOMAIN w = 1..Len(w)
        /\ h.kind = "call"
    BY <1>1, LenProperties, EmptySeq DEF Calls
  <1> HIDE DEF w, h
  <1>3. \A i \in DOMAIN s : i = 1 \/ (i - 1 \in DOMAIN w /\ s[i] = w[i - 1])
    BY <1>1, <1>2
  <1>4. \A i \in DOMAIN w : i + 1 \in DOMAIN s /\ s[i + 1] = w[i]
    BY <1>1, <1>2
  <1>5. 1 \in DOMAIN s
    BY <1>2
  <1>6. Ids(w, "call") \subseteq Ids(s, "call")
    BY <1>4 DEF Ids
  <1>7. h.id \in Ids(s, "call")
    BY <1>1, <1>2, <1>5 DEF Ids
  <1>8. Ids(s, "call") \subseteq {h.id} \cup Ids(w, "call")
    BY <1>1, <1>3 DEF Ids
  <1> QED
    BY <1>1, <1>6, <1>7, <1>8 DEF w, h

LEMMA SkippedAnswers ==
  ASSUME NEW todo \in Seq(Calls)
  PROVE  /\ Skipped(todo) \in Seq(Items) /\ Len(Skipped(todo)) = Len(todo)
         /\ Ids(Skipped(todo), "call") = {}
         /\ Ids(Skipped(todo), "result") = Ids(todo, "call")
         /\ \A i \in DOMAIN Skipped(todo) : Skipped(todo)[i].id = todo[i].id /\ i \in DOMAIN todo
  <1> DEFINE s == Skipped(todo)
  <1>1. Len(todo) \in Nat /\ DOMAIN todo = 1..Len(todo) /\ \A i \in DOMAIN todo : todo[i] \in Calls
    BY LenProperties
  <1>2. \A i \in DOMAIN todo : Result(todo[i]) \in Items
    BY <1>1 DEF Result, Items, Calls
  <1>3. s = [i \in 1..Len(todo) |-> Result(todo[i])]
    BY <1>1 DEF Skipped
  <1>4. s \in Seq(Items) /\ Len(s) = Len(todo) /\ DOMAIN s = DOMAIN todo
    BY <1>1, <1>2, <1>3
  <1>5. \A i \in DOMAIN todo : s[i].kind = "result" /\ s[i].id = todo[i].id /\ todo[i].kind = "call"
    BY <1>1, <1>3 DEF Result, Calls
  <1> HIDE DEF s
  <1>6. Ids(s, "call") = {}
    BY <1>4, <1>5 DEF Ids
  <1>7. Ids(s, "result") = Ids(todo, "call")
    BY <1>4, <1>5 DEF Ids
  <1> QED
    BY <1>4, <1>5, <1>6, <1>7 DEF s

(* The calls of one reply have new numbers, as many as there are calls.      *)
LEMMA NewCalls ==
  ASSUME NEW r, r.iter \in Nat, NEW n \in Nat
  PROVE  LET c == [k \in 1..n |-> Call(r, k)] IN
         /\ c \in Seq(Calls) /\ Len(c) = n
         /\ Ids(c, "call") = {r.iter + 1} \X (1..n) /\ Ids(c, "result") = {}
         /\ IsFiniteSet({r.iter + 1} \X (1..n)) /\ Cardinality({r.iter + 1} \X (1..n)) = n
  <1> DEFINE c == [k \in 1..n |-> Call(r, k)]
             i == r.iter + 1
  <1>1. i \in Nat
    OBVIOUS
  <1>2. \A k \in 1..n : Call(r, k) \in Calls /\ Call(r, k).id = <<i, k>> /\ Call(r, k).kind = "call"
    BY <1>1 DEF Call, Calls
  <1>3. c \in Seq(Calls) /\ Len(c) = n /\ DOMAIN c = 1..n
    BY <1>2
  <1>4. \A k \in 1..n : c[k].id = <<i, k>> /\ c[k].kind = "call"
    BY <1>2
  <1> HIDE DEF c, i
  <1>5. Ids(c, "call") = {i} \X (1..n) /\ Ids(c, "result") = {}
    <2>1. Ids(c, "result") = {}
      BY <1>3, <1>4 DEF Ids
    <2>2. Ids(c, "call") = {<<i, k>> : k \in 1..n}
      BY <1>3, <1>4 DEF Ids
    <2>3. {<<i, k>> : k \in 1..n} = {i} \X (1..n)
      OBVIOUS
    <2> QED
      BY <2>1, <2>2, <2>3
  <1>6. /\ IsFiniteSet(1..n) /\ Cardinality(1..n) = n
        /\ IsFiniteSet({i}) /\ Cardinality({i}) = 1
    <2>1. 1 \in Int /\ n \in Int
      OBVIOUS
    <2>2. IsFiniteSet(1..n) /\ Cardinality(1..n) = IF 1 > n THEN 0 ELSE n - 1 + 1
      BY <2>1, FS_Interval, Zenon
    <2>3. IsFiniteSet({i}) /\ Cardinality({i}) = 1
      BY FS_Singleton
    <2> QED
      BY <2>2, <2>3
  <1>7. /\ IsFiniteSet({i} \X (1..n))
        /\ Cardinality({i} \X (1..n)) = Cardinality({i}) * Cardinality(1..n)
    BY <1>6, FS_Product, Zenon
  <1>8. IsFiniteSet({i} \X (1..n)) /\ Cardinality({i} \X (1..n)) = n
    BY <1>6, <1>7
  <1> QED
    BY <1>3, <1>5, <1>8 DEF c, i

LEMMA IdleIsSound == Sound(Idle)
  <1>1. Idle \in Request
    BY DEF Idle, Request, Places
  <1>2. Ids(<<>>, "call") = {} /\ Ids(<<>>, "result") = {}
    BY DEF Ids
  <1>3. Questions(Idle) /\ Rounds(Idle)
    BY ChatTurnAssumption DEF Questions, Rounds, Idle, Talks
  <1>4. Cardinality({}) = 0 /\ IsFiniteSet({})
    BY FS_EmptySet
  <1>5. Balanced(Idle)
    <2>1. Idle.prompt = <<>> /\ Idle.todo = <<>>
      BY DEF Idle
    <2>2. Len(<<>>) + Len(<<>>) = 2 * 0
      OBVIOUS
    <2>3. \A i \in DOMAIN Idle.prompt : Idle.prompt[i].id[1] <= Idle.iter
      BY <2>1
    <2>4. /\ IsFiniteSet(Ids(Idle.prompt, "call"))
          /\ Ids(Idle.prompt, "call") = Ids(Idle.prompt, "result") \cup Ids(Idle.todo, "call")
      BY <1>2, <1>4, <2>1
    <2>5. Len(Idle.prompt) + Len(Idle.todo) = 2 * Cardinality(Ids(Idle.prompt, "call"))
      BY <1>2, <1>4, <2>1, <2>2, Zenon
    <2> QED
      BY <2>1, <2>3, <2>4, <2>5 DEF Balanced
  <1> QED
    BY <1>1, <1>3, <1>5 DEF Sound, Idle

(* A request whose prompt, rounds and tokens stay as they are.               *)
LEMMA MovesOn ==
  ASSUME NEW r, Sound(r), NEW e \in Request, e.conv \in Convs,
         e.prompt = r.prompt, e.todo = r.todo, e.iter = r.iter, e.used = r.used, e.calls = r.calls,
         r.pc # "tools", r.pc \in {"model", "tools"} \/ e.pc \notin {"model", "tools"}
                           \/ (r.pc = "agent" /\ e.pc = "model"),
         e.pc # "agent", Questions(e)
  PROVE  Sound(e)
  <1>1. Balanced(e)
    BY DEF Sound, Balanced
  <1>2. MaxIter \in Nat \ {0}
    BY ChatTurnAssumption
  <1>3. Rounds(e)
    BY <1>2 DEF Sound, Rounds
  <1> QED
    BY <1>1, <1>3 DEF Sound

LEMMA AddedIsSound ==
  ASSUME NEW r, Sound(r), r.pc \in {"agent", "question"},
         NEW p, p = IF r.pc = "agent" THEN "model" ELSE "answer"
  PROVE  LET e == [[r EXCEPT !.pc = p] EXCEPT
                     !.mine = @ \cup {UserRow([r EXCEPT !.pc = p], Cardinality(@) + 1)}]
         IN  Sound(e) /\ e.turn = r.turn
  <1> DEFINE s == [r EXCEPT !.pc = p]
             row == UserRow(s, Cardinality(s.mine) + 1)
             e == [s EXCEPT !.mine = @ \cup {row}]
             first == Quest(r.conv, r.turn, 1)
             second == Quest(r.conv, r.turn, 2)
  <1>1. r \in Request /\ r.conv \in Convs /\ r.turn \in Nat
    BY DEF Sound, Request
  <1>2. p \in Places
    BY DEF Places, Talks
  <1>3. s \in Request /\ s.pc = p /\ s.conv = r.conv /\ s.turn = r.turn /\ s.mine = r.mine
        /\ s.prompt = r.prompt /\ s.todo = r.todo /\ s.iter = r.iter /\ s.used = r.used
        /\ s.calls = r.calls /\ s.wrote = r.wrote
    BY <1>1, <1>2 DEF Request
  <1> HIDE DEF s
  <1>4. \A n : UserRow(s, n) = Quest(r.conv, r.turn, n)
    BY <1>3 DEF UserRow, Quest
  <1>5. Cardinality({}) = 0 /\ Cardinality({first}) = 1
    BY FS_EmptySet, FS_Singleton
  <1>6. \/ r.mine = {} /\ row = first /\ ~r.wrote
        \/ r.pc = "question" /\ r.mine = {first} /\ row = second
    BY <1>3, <1>4, <1>5 DEF Sound, Questions
  <1>7. first # second
    BY DEF Quest
  <1>8. {first, second} \subseteq Asking
    BY <1>1 DEF Asking
  <1> HIDE DEF row, first, second
  <1>9. s.mine \cup {row} \subseteq Asking
    BY <1>3, <1>6, <1>8 DEF Request
  <1>10. e \in Request /\ e.pc = p /\ e.conv = r.conv /\ e.turn = r.turn /\ e.mine = r.mine \cup {row}
         /\ e.prompt = r.prompt /\ e.todo = r.todo /\ e.iter = r.iter /\ e.used = r.used
         /\ e.calls = r.calls /\ e.wrote = r.wrote
    BY <1>3, <1>9 DEF Request
  <1> HIDE DEF e
  <1>11. Questions(e)
    BY <1>6, <1>10 DEF Questions, first, second, Talks
  <1>12. Sound(e)
    BY <1>1, <1>10, <1>11, MovesOn
  <1>13. e = [[r EXCEPT !.pc = p] EXCEPT
                !.mine = @ \cup {UserRow([r EXCEPT !.pc = p], Cardinality(@) + 1)}]
    BY DEF e, row, s
  <1> QED
    BY <1>10, <1>12, <1>13

LEMMA PromptItems ==
  ASSUME NEW p \in Seq(Items)
  PROVE  /\ Len(p) \in Nat /\ DOMAIN p = 1..Len(p)
         /\ \A j \in DOMAIN p : p[j].kind \in {"call", "result"} /\ p[j].id[1] \in Nat
  <1>1. \A x \in Items : x.kind \in {"call", "result"} /\ x.id[1] \in Nat
    BY DEF Items
  <1>2. Len(p) \in Nat /\ DOMAIN p = 1..Len(p) /\ \A j \in DOMAIN p : p[j] \in Items
    BY LenProperties, ElementOfSeq
  <1> QED
    BY <1>1, <1>2

LEMMA BalancedParts ==
  ASSUME NEW r, Sound(r)
  PROVE  /\ r.prompt \in Seq(Items) /\ r.todo \in Seq(Calls) /\ r.iter \in Nat
         /\ IsFiniteSet(Ids(r.prompt, "call"))
         /\ \A j \in DOMAIN r.prompt : r.prompt[j].id[1] <= r.iter
         /\ Ids(r.prompt, "call") = Ids(r.prompt, "result") \cup Ids(r.todo, "call")
         /\ Len(r.prompt) + Len(r.todo) = 2 * Cardinality(Ids(r.prompt, "call"))
         /\ r.pc # "tools" => r.todo = <<>>
  <1>1. r \in Request
    BY DEF Sound
  <1>2. r.prompt \in Seq(Items) /\ r.todo \in Seq(Calls) /\ r.iter \in Nat
    BY <1>1 DEF Request
  <1> QED
    BY <1>2 DEF Sound, Balanced

(* A reply with calls, a result, the end of a round.                         *)
LEMMA CallsAreSound ==
  ASSUME NEW r, Sound(r), r.pc = "model", ~LastRound(r), NEW n \in 1..MaxBatch, NEW e,
         e = [[r EXCEPT !.iter = @ + 1, !.tokens = @ + 1]
                EXCEPT !.pc = "tools", !.todo = [k \in 1..n |-> Call(r, k)],
                       !.prompt = @ \o [k \in 1..n |-> Call(r, k)]]
  PROVE  Sound(e) /\ e.turn = r.turn
  <1> DEFINE c == [k \in 1..n |-> Call(r, k)]
             i == r.iter + 1
             new == {i} \X (1..n)
             p == r.prompt
             old == Ids(p, "call")
  <1>0. n \in Nat /\ r.iter \in Nat /\ r \in Request /\ MaxIter \in Nat
        /\ r.tokens \in Nat /\ i \in Nat
    BY ChatTurnAssumption DEF Sound, Request
  <1>b. /\ p \in Seq(Items) /\ IsFiniteSet(old)
        /\ \A j \in DOMAIN p : p[j].id[1] <= r.iter
        /\ old = Ids(p, "result") \cup Ids(r.todo, "call")
        /\ Len(p) + Len(r.todo) = 2 * Cardinality(old)
        /\ r.todo = <<>>
    BY BalancedParts
  <1>p. /\ Len(p) \in Nat /\ DOMAIN p = 1..Len(p)
        /\ \A j \in DOMAIN p : p[j].id[1] \in Nat
    BY <1>b, PromptItems
  <1>1. /\ c \in Seq(Calls) /\ Len(c) = n /\ Ids(c, "call") = new /\ Ids(c, "result") = {}
        /\ IsFiniteSet(new) /\ Cardinality(new) = n
    BY <1>0, NewCalls
  <1> HIDE DEF c
  <1>2. c \in Seq(Items)
    <2>1. Calls \subseteq Items
      BY DEF Calls, Items
    <2>2. Len(c) \in Nat /\ c \in [1..Len(c) -> Calls]
      BY <1>1, LenProperties
    <2> QED
      BY <2>1, <2>2
  <1> HIDE DEF p
  <1> DEFINE w == p \o c
  <1>3. w \in Seq(Items) /\ Len(w) = Len(p) + n
    BY <1>b, <1>1, <1>2, ConcatProperties
  <1>4. /\ Ids(w, "call") = old \cup new
        /\ Ids(w, "result") = Ids(p, "result")
    <2>1. \A kind : Ids(w, kind) = Ids(p, kind) \cup Ids(c, kind)
      BY <1>b, <1>2, IdsOfConcat
    <2> HIDE DEF w
    <2>2. Ids(w, "call") = Ids(p, "call") \cup Ids(c, "call")
      BY <2>1
    <2>3. Ids(w, "result") = Ids(p, "result") \cup Ids(c, "result")
      BY <2>1
    <2> QED
      BY <1>1, <2>2, <2>3
  <1>5. \A j \in DOMAIN w : w[j].id[1] <= i
    <2>1. /\ Len(p) \in Nat /\ DOMAIN p = 1..Len(p)
          /\ Len(c) \in Nat /\ DOMAIN c = 1..Len(c) /\ DOMAIN w = 1..(Len(p) + Len(c))
          /\ \A j \in 1..(Len(p) + Len(c)) :
               w[j] = IF j <= Len(p) THEN p[j] ELSE c[j - Len(p)]
      BY <1>b, <1>1, <1>2, <1>3, ConcatProperties, LenProperties
    <2>2. \A j \in DOMAIN p : p[j].id[1] <= i
      BY <1>0, <1>b, <1>p
    <2>3. \A j \in DOMAIN c : c[j].id[1] = i
      BY <1>1, <2>1 DEF c, Call
    <2> HIDE DEF w
    <2>4. ASSUME NEW j \in DOMAIN w
          PROVE  w[j].id[1] <= i
      <3>1. CASE j <= Len(p)
        BY <2>1, <2>2, <3>1
      <3>2. CASE ~(j <= Len(p))
        <4>1. j - Len(p) \in DOMAIN c /\ w[j] = c[j - Len(p)]
          BY <2>1, <3>2
        <4>2. w[j].id[1] = i
          BY <2>3, <4>1
        <4> QED
          BY <1>0, <4>2
      <3> QED
        BY <3>1, <3>2
    <2> QED
      BY <2>4
  <1> HIDE DEF w
  <1>6. old \cap new = {}
    <2>1. \A x \in old : x[1] <= r.iter /\ x[1] \in Nat
      BY <1>b, <1>p DEF Ids
    <2>2. \A x \in new : x[1] = i
      OBVIOUS
    <2> QED
      BY <1>0, <2>1, <2>2
  <1>7. /\ IsFiniteSet(old \cup new)
        /\ Cardinality(old \cup new) = Cardinality(old) + n
        /\ Cardinality(old) \in Nat
    <2>1. IsFiniteSet(old) /\ IsFiniteSet(new)
      BY <1>1, <1>b
    <2>4. Cardinality(new) = n
      BY <1>1
    <2> HIDE DEF old, new
    <2>2. Cardinality(old \cup new) = Cardinality(old) + Cardinality(new) - Cardinality(old \cap new)
      BY <2>1, FS_Union
    <2>3. IsFiniteSet(old \cup new) /\ Cardinality(old) \in Nat /\ Cardinality({}) = 0
      BY <2>1, FS_Union, FS_CardinalityType, FS_EmptySet
    <2>5. Cardinality(old \cup new) = Cardinality(old) + n - 0
      BY <1>6, <2>2, <2>3, <2>4, Zenon
    <2> QED
      BY <1>0, <2>3, <2>5
  <1>8. /\ e \in Request /\ e.pc = "tools" /\ e.conv = r.conv /\ e.turn = r.turn /\ e.mine = r.mine
        /\ e.prompt = w /\ e.todo = c /\ e.iter = i /\ e.used = r.used
        /\ e.calls = r.calls /\ e.wrote = r.wrote
    <2> DEFINE o == [r EXCEPT !.iter = @ + 1, !.tokens = @ + 1]
    <2>1. "tools" \in Places
      BY DEF Places, Talks
    <2>2. /\ o \in Request /\ o.conv = r.conv /\ o.turn = r.turn /\ o.mine = r.mine
          /\ o.prompt = p /\ o.iter = i /\ o.used = r.used /\ o.calls = r.calls /\ o.wrote = r.wrote
      <3> DEFINE t == r.tokens + 1
      <3>1. t \in Nat /\ i \in Nat
        BY <1>0
      <3> HIDE DEF t, i
      <3>2. o = [r EXCEPT !.iter = i, !.tokens = t]
        BY DEF t, i
      <3> HIDE DEF o
      <3> QED
        BY <1>0, <3>1, <3>2 DEF Request, p
    <2>3. e = [o EXCEPT !.pc = "tools", !.todo = c, !.prompt = @ \o c]
      BY DEF c
    <2> HIDE DEF o
    <2>4. e = [o EXCEPT !.pc = "tools", !.todo = c, !.prompt = w]
      BY <2>2, <2>3 DEF w
    <2> QED
      BY <1>1, <1>3, <2>1, <2>2, <2>4 DEF Request
  <1>9. Questions(e)
    BY <1>8 DEF Questions, Sound, Talks
  <1>10. Balanced(e)
    <2>1. Ids(e.prompt, "call") = Ids(e.prompt, "result") \cup Ids(e.todo, "call")
      <3>1. Ids(r.todo, "call") = {}
        BY <1>b DEF Ids
      <3> QED
        BY <1>1, <1>4, <1>8, <1>b, <3>1
    <2>2. Len(p) = 2 * Cardinality(old) /\ Len(p) \in Nat
      <3>1. Len(p) + Len(<<>>) = 2 * Cardinality(old) /\ Len(p) \in Nat
        BY <1>b, <1>p
      <3> QED
        BY <3>1
    <2>3. Len(e.prompt) + Len(e.todo) = 2 * Cardinality(Ids(e.prompt, "call"))
      <3>1. Len(e.prompt) = Len(p) + n /\ Len(e.todo) = n
        BY <1>1, <1>3, <1>8
      <3>2. Cardinality(Ids(e.prompt, "call")) = Cardinality(old) + n /\ Cardinality(old) \in Nat
        BY <1>4, <1>7, <1>8
      <3> HIDE DEF old
      <3> QED
        BY <1>0, <2>2, <3>1, <3>2
    <2>4. \A j \in DOMAIN e.prompt : e.prompt[j].id[1] <= e.iter
      BY <1>5, <1>8
    <2>5. IsFiniteSet(Ids(e.prompt, "call")) /\ e.pc = "tools"
      BY <1>4, <1>7, <1>8
    <2> QED
      BY <2>1, <2>3, <2>4, <2>5 DEF Balanced
  <1>11. Rounds(e)
    BY <1>0, <1>8 DEF Rounds, Sound, LastRound
  <1> QED
    BY <1>8, <1>9, <1>10, <1>11 DEF Sound

AfterResult(r, length, wrote, broken) ==
  [r EXCEPT !.todo = Tail(@), !.prompt = Append(@, Result(Head(r.todo))),
            !.used = @ + Cut(r, length), !.calls = @ + 1,
            !.wrote = @ \/ wrote, !.broken = @ \/ broken]

LEMMA ResultIsSound ==
  ASSUME NEW r, Sound(r), r.pc = "tools", r.todo # <<>>, NEW length \in Nat,
         NEW wrote \in BOOLEAN, NEW broken \in BOOLEAN
  PROVE  /\ Sound(AfterResult(r, length, wrote, broken))
         /\ AfterResult(r, length, wrote, broken).turn = r.turn
  <1> DEFINE e == AfterResult(r, length, wrote, broken)
             x == Result(Head(r.todo))
             p == r.prompt
             w == Append(p, x)
             old == Ids(p, "call")
             cost == Cut(r, length)
  <1>0. /\ r \in Request /\ r.todo \in Seq(Calls) /\ r.iter \in Nat
        /\ r.used \in Nat /\ r.calls \in Nat /\ r.wrote \in BOOLEAN /\ r.broken \in BOOLEAN
        /\ MinCut \in Nat /\ Budget \in Nat /\ MinCut <= Budget
    BY ChatTurnAssumption DEF Sound, Request
  <1>b. /\ p \in Seq(Items) /\ IsFiniteSet(old)
        /\ \A j \in DOMAIN p : p[j].id[1] <= r.iter
        /\ old = Ids(p, "result") \cup Ids(r.todo, "call")
        /\ Len(p) + Len(r.todo) = 2 * Cardinality(old)
    BY BalancedParts
  <1>p. /\ Len(p) \in Nat /\ DOMAIN p = 1..Len(p) /\ Len(r.todo) \in Nat
    BY <1>0, <1>b, PromptItems, LenProperties
  <1>1. /\ Head(r.todo) \in Calls /\ Tail(r.todo) \in Seq(Calls)
        /\ Len(Tail(r.todo)) = Len(r.todo) - 1
        /\ Ids(r.todo, "call") = {Head(r.todo).id} \cup Ids(Tail(r.todo), "call")
    BY <1>0, IdsOfTail
  <1>2. x \in Items /\ x.kind = "result" /\ x.id = Head(r.todo).id
    BY <1>1 DEF Result, Items, Calls
  <1>3. cost \in Nat /\ (r.used + cost <= Budget \/ cost <= MinCut)
    BY <1>0, CutFits
  <1> HIDE DEF x, cost, p
  <1>4. /\ w \in Seq(Items) /\ Len(w) = Len(p) + 1
        /\ Ids(w, "call") = old
        /\ Ids(w, "result") = Ids(p, "result") \cup {x.id}
    <2>1. \A kind : Ids(w, kind) = Ids(p, kind) \cup (IF x.kind = kind THEN {x.id} ELSE {})
      BY <1>b, <1>2, IdsOfAppend
    <2>2. w \in Seq(Items) /\ Len(w) = Len(p) + 1
      BY <1>b, <1>2, AppendProperties
    <2> HIDE DEF w
    <2>3. Ids(w, "call") = Ids(p, "call") \cup (IF x.kind = "call" THEN {x.id} ELSE {})
      BY <2>1
    <2>4. Ids(w, "result") = Ids(p, "result") \cup (IF x.kind = "result" THEN {x.id} ELSE {})
      BY <2>1
    <2> QED
      BY <1>2, <2>2, <2>3, <2>4
  <1> DEFINE a == r.wrote \/ wrote
             b == r.broken \/ broken
  <1>5. a \in BOOLEAN /\ b \in BOOLEAN
    BY Zenon
  <1> HIDE DEF w, a, b
  <1>6. e = [r EXCEPT !.todo = Tail(r.todo), !.prompt = w, !.used = r.used + cost,
                      !.calls = r.calls + 1, !.wrote = a, !.broken = b]
    BY DEF x, w, cost, a, b, p, AfterResult
  <1> HIDE DEF e
  <1>7. /\ e \in Request /\ e.pc = r.pc /\ e.conv = r.conv /\ e.turn = r.turn /\ e.mine = r.mine
        /\ e.prompt = w /\ e.todo = Tail(r.todo) /\ e.iter = r.iter /\ e.used = r.used + cost
        /\ e.calls = r.calls + 1
    <2>1. r.used + cost \in Nat /\ r.calls + 1 \in Nat
      BY <1>0, <1>3
    <2> QED
      BY <1>0, <1>1, <1>4, <1>5, <1>6, <2>1 DEF Request
  <1>8. Questions(e)
    BY <1>7 DEF Questions, Sound, Talks
  <1>9. Balanced(e)
    <2>1. Ids(e.prompt, "call") = Ids(e.prompt, "result") \cup Ids(e.todo, "call")
      BY <1>1, <1>2, <1>4, <1>7, <1>b
    <2>3. Len(e.prompt) + Len(e.todo) = 2 * Cardinality(Ids(e.prompt, "call"))
      <3>1. Len(e.prompt) + Len(e.todo) = Len(p) + Len(r.todo)
        <4>1. Len(e.prompt) = Len(p) + 1 /\ Len(e.todo) = Len(r.todo) - 1
          BY <1>1, <1>4, <1>7
        <4>2. \A k, l \in Nat : (k + 1) + (l - 1) = k + l
          OBVIOUS
        <4> QED
          BY <1>p, <4>1, <4>2, Zenon
      <3> QED
        BY <1>4, <1>7, <1>b, <3>1
    <2>4. \A j \in DOMAIN e.prompt : e.prompt[j].id[1] <= e.iter
      <3>1. /\ DOMAIN p = 1..Len(p) /\ DOMAIN w = 1..(Len(p) + 1)
            /\ \A j \in 1..Len(p) : w[j] = p[j]
            /\ w[Len(p) + 1] = x
        BY <1>b, <1>p, <1>2, AppendProperties, LenProperties DEF w
      <3>2. \A j \in DOMAIN p : p[j].id[1] <= r.iter
        BY <1>b
      <3>3. x.id \in Ids(r.todo, "call")
        BY <1>1, <1>2
      <3>4. x.id \in Ids(p, "call")
        BY <1>b, <3>3
      <3>5. x.id[1] <= r.iter
        BY <3>2, <3>4 DEF Ids
      <3> QED
        BY <1>7, <1>p, <3>1, <3>2, <3>5
    <2>5. IsFiniteSet(Ids(e.prompt, "call")) /\ e.pc = "tools"
      BY <1>4, <1>7, <1>b
    <2> QED
      BY <2>1, <2>3, <2>4, <2>5 DEF Balanced
  <1>10. Rounds(e)
    <2>1. e.calls > 0 /\ e.used <= Budget + MinCut * (e.calls - 1)
      <3>1. CASE r.calls = 0
        <4>1. r.used = 0
          BY <3>1 DEF Sound, Rounds
        <4>2. e.calls = 1 /\ e.used = cost /\ cost <= Budget
          BY <1>0, <1>3, <1>7, <3>1, <4>1
        <4>3. MinCut * 0 = 0
          BY <1>0
        <4> QED
          BY <1>0, <1>3, <4>2, <4>3
      <3>2. CASE r.calls # 0
        <4>1. r.used <= Budget + MinCut * (r.calls - 1)
          BY <1>0, <3>2 DEF Sound, Rounds
        <4>2. /\ MinCut * (r.calls - 1) \in Nat /\ MinCut * r.calls \in Nat
              /\ MinCut * r.calls = MinCut * (r.calls - 1) + MinCut
          <5>1. ASSUME NEW c \in Nat, NEW least \in Nat
                PROVE  least * c \in Nat /\ least * (c + 1) \in Nat /\ least * (c + 1) = least * c + least
            OBVIOUS
          <5>2. r.calls - 1 \in Nat /\ (r.calls - 1) + 1 = r.calls /\ MinCut \in Nat
            BY <1>0, <3>2
          <5> QED
            BY <5>1, <5>2
        <4>3. e.calls - 1 = r.calls /\ e.calls > 0 /\ e.used = r.used + cost
          BY <1>0, <1>7
        <4>4. r.used + cost <= Budget + MinCut * r.calls
          <5> DEFINE k == MinCut * (r.calls - 1)
                     m == MinCut * r.calls
          <5>1. k \in Nat /\ m \in Nat /\ m = k + MinCut /\ r.used <= Budget + k
            BY <4>1, <4>2
          <5> HIDE DEF k, m
          <5>2. r.used + cost <= Budget + m
            BY <1>0, <1>3, <5>1
          <5> QED
            BY <5>2 DEF m
        <4> QED
          BY <4>3, <4>4
      <3> QED
        BY <3>1, <3>2
    <2> QED
      <3>1. r.iter <= MaxIter /\ r.iter < MaxIter
        BY DEF Rounds, Sound
      <3>2. e.pc = "tools" /\ e.iter = r.iter /\ e.calls # 0
        BY <1>7, <2>1
      <3> QED
        BY <2>1, <3>1, <3>2 DEF Rounds
  <1> QED
    BY <1>7, <1>8, <1>9, <1>10 DEF Sound, e

LEMMA RoundIsSound ==
  ASSUME NEW r, Sound(r), r.pc = "tools", NEW e,
         e = [r EXCEPT !.pc = "model", !.todo = <<>>, !.prompt = @ \o Skipped(r.todo)]
  PROVE  Sound(e) /\ e.turn = r.turn
  <1> DEFINE p == r.prompt
             d == r.todo
             s == Skipped(d)
             w == p \o s
             old == Ids(p, "call")
  <1>0. r \in Request
    BY DEF Sound
  <1>b. /\ p \in Seq(Items) /\ d \in Seq(Calls) /\ IsFiniteSet(old)
        /\ \A j \in DOMAIN p : p[j].id[1] <= r.iter
        /\ old = Ids(p, "result") \cup Ids(d, "call")
        /\ Len(p) + Len(d) = 2 * Cardinality(old)
    BY BalancedParts
  <1> HIDE DEF p, d
  <1>1. /\ s \in Seq(Items) /\ Len(s) = Len(d) /\ Ids(s, "call") = {}
        /\ Ids(s, "result") = Ids(d, "call")
    BY <1>b, SkippedAnswers
  <1> HIDE DEF s
  <1>2. /\ w \in Seq(Items) /\ Len(w) = Len(p) + Len(d)
        /\ Ids(w, "call") = old
        /\ Ids(w, "result") = Ids(p, "result") \cup Ids(d, "call")
    <2>1. \A kind : Ids(w, kind) = Ids(p, kind) \cup Ids(s, kind)
      BY <1>b, <1>1, IdsOfConcat
    <2>2. w \in Seq(Items) /\ Len(w) = Len(p) + Len(s)
      BY <1>b, <1>1, ConcatProperties
    <2> HIDE DEF w
    <2>3. Ids(w, "call") = Ids(p, "call") \cup Ids(s, "call")
      BY <2>1
    <2>4. Ids(w, "result") = Ids(p, "result") \cup Ids(s, "result")
      BY <2>1
    <2> QED
      BY <1>1, <2>2, <2>3, <2>4
  <1>3. \A j \in DOMAIN w : w[j].id \in Ids(w, "call") \cup Ids(w, "result")
    <2> HIDE DEF w
    <2>1. \A j \in DOMAIN w : w[j].kind \in {"call", "result"}
      BY <1>2, PromptItems
    <2> QED
      BY <2>1 DEF Ids
  <1> HIDE DEF w
  <1>4. /\ e \in Request /\ e.pc = "model" /\ e.conv = r.conv /\ e.turn = r.turn /\ e.mine = r.mine
        /\ e.prompt = w /\ e.todo = <<>> /\ e.iter = r.iter /\ e.used = r.used
        /\ e.calls = r.calls
    <2>1. "model" \in Places /\ <<>> \in Seq(Calls)
      BY DEF Places, Talks
    <2> QED
      BY <1>0, <1>2, <2>1 DEF Request, w, s, p, d
  <1>5. Questions(e)
    BY <1>4 DEF Questions, Sound, Talks
  <1>6. Balanced(e)
    <2>1. Ids(e.prompt, "call") = Ids(e.prompt, "result") \cup Ids(e.todo, "call")
      <3>1. Ids(<<>>, "call") = {}
        BY DEF Ids
      <3> QED
        BY <1>2, <1>4, <1>b, <3>1
    <2>2. Len(e.prompt) + Len(e.todo) = 2 * Cardinality(Ids(e.prompt, "call"))
      <3>1. Len(w) \in Nat /\ Len(<<>>) = 0 /\ Len(w) = 2 * Cardinality(Ids(w, "call"))
        BY <1>2, <1>b, LenProperties
      <3>2. \A k \in Nat : k + 0 = k
        OBVIOUS
      <3> QED
        BY <1>4, <3>1, <3>2, Zenon
    <2>3. \A j \in DOMAIN e.prompt : e.prompt[j].id[1] <= e.iter
      <3>1. \A x \in Ids(p, "call") : x[1] <= r.iter
        BY <1>b DEF Ids
      <3>2. Ids(w, "call") \cup Ids(w, "result") \subseteq Ids(p, "call")
        BY <1>2, <1>b
      <3> QED
        BY <1>3, <1>4, <3>1, <3>2
    <2> QED
      BY <1>2, <1>4, <1>b, <2>1, <2>2, <2>3 DEF Balanced
  <1>7. Rounds(e)
    BY <1>4 DEF Rounds, Sound
  <1> QED
    BY <1>4, <1>5, <1>6, <1>7 DEF Sound

(* Every step of a request but the last changes only the request.           *)
Local(q) ==
  /\ Going(q)
  /\ UNCHANGED <<convs, rows, proposals, evals, given, asked>>
  /\ \E r : Sound(r) /\ req' = [req EXCEPT ![q] = r] /\ (r.pc = "idle" \/ r.turn = req[q].turn)

LEMMA GoesOn ==
  ASSUME NEW q, Going(q), UNCHANGED <<convs, rows, proposals, evals, given, asked>>,
         NEW r, Set(q, r), Sound(r), r.pc = "idle" \/ r.turn = req[q].turn
  PROVE  Local(q)
  BY DEF Local, Set

LEMMA GivesUp ==
  ASSUME NEW q, Going(q), UNCHANGED <<convs, rows, proposals, evals, given, asked>>, Failed(q)
  PROVE  Local(q)
  <1>1. Idle.pc = "idle"
    BY DEF Idle
  <1> QED
    BY <1>1, IdleIsSound, GoesOn DEF Failed

LEMMA StepsAreLocal ==
  ASSUME NEW q \in Requests, Sound(req[q]),
         Context(q) \/ Question(q) \/ Answer(q) \/ StartAgent(q) \/ Model(q) \/ Tool(q)
           \/ EndTools(q) \/ Final(q) \/ FallBack(q)
  PROVE  Local(q)
  <1> DEFINE r == req[q]
             same == UNCHANGED <<convs, rows, proposals, evals, given, asked>>
  <1>0. /\ r \in Request /\ r.tokens \in Nat /\ r.iter \in Nat /\ MaxIter \in Nat \ {0}
        /\ (r.pc # "idle" => r.conv \in Convs)
    BY ChatTurnAssumption DEF Sound, Request
  <1>p. {"question", "direct", "done", "final", "context"} \subseteq Places
    BY DEF Places, Talks
  <1>1. CASE Context(q)
    <2>1. r.pc = "context" /\ same
      BY <1>1 DEF Context, At
    <2>2. ASSUME NEW n \in 0..MapCost, Set(q, [req[q] EXCEPT !.pc = "question", !.tokens = n])
          PROVE  Local(q)
      <3> DEFINE e == [req[q] EXCEPT !.pc = "question", !.tokens = n]
      <3>1. n \in Nat
        OBVIOUS
      <3>2. /\ e \in Request /\ e.pc = "question" /\ e.conv = r.conv /\ e.turn = r.turn
            /\ e.mine = r.mine /\ e.wrote = r.wrote /\ e.prompt = r.prompt /\ e.todo = r.todo
            /\ e.iter = r.iter /\ e.used = r.used /\ e.calls = r.calls
        BY <1>0, <1>p, <3>1 DEF Request
      <3> HIDE DEF e
      <3>3. Questions(e)
        BY <2>1, <3>2 DEF Sound, Questions, Talks
      <3>4. Sound(e)
        BY <1>0, <2>1, <3>2, <3>3, MovesOn
      <3>5. Set(q, e)
        BY <2>2 DEF e
      <3> QED
        BY <2>1, <3>2, <3>4, <3>5, GoesOn DEF Going
    <2> QED
      BY <1>1, <2>1, <2>2, GivesUp DEF Context, Going
  <1>2. CASE Question(q) \/ StartAgent(q)
    <2> DEFINE p == IF r.pc = "agent" THEN "model" ELSE "answer"
               s == [req[q] EXCEPT !.pc = p]
    <2>1. r.pc \in {"agent", "question"} /\ same /\ Add(q, s)
      BY <1>2 DEF Question, StartAgent, At
    <2> DEFINE e == [s EXCEPT !.mine = @ \cup {UserRow(s, Cardinality(s.mine) + 1)}]
    <2>2. Set(q, e) \/ Failed(q)
      BY <2>1 DEF Add
    <2>3. Sound(e) /\ e.turn = r.turn
      BY <2>1, AddedIsSound
    <2> HIDE DEF e
    <2> QED
      BY <2>1, <2>2, <2>3, GoesOn, GivesUp DEF Going
  <1>3. CASE Answer(q)
    <2> DEFINE e == [req[q] EXCEPT !.tokens = @ + 1, !.pc = "direct"]
    <2>1. r.pc = "answer" /\ same /\ (Set(q, e) \/ Failed(q))
      BY <1>3 DEF Answer, At
    <2>2. /\ e \in Request /\ e.pc = "direct" /\ e.conv = r.conv /\ e.turn = r.turn
          /\ e.mine = r.mine /\ e.wrote = r.wrote /\ e.prompt = r.prompt /\ e.todo = r.todo
          /\ e.iter = r.iter /\ e.used = r.used /\ e.calls = r.calls
      <3> DEFINE t == r.tokens + 1
      <3>1. t \in Nat
        BY <1>0
      <3> HIDE DEF t
      <3>2. e = [r EXCEPT !.tokens = t, !.pc = "direct"]
        BY DEF t
      <3> HIDE DEF e
      <3> QED
        BY <1>0, <1>p, <3>1, <3>2 DEF Request
    <2> HIDE DEF e
    <2>3. Questions(e)
      BY <2>1, <2>2 DEF Sound, Questions, Talks
    <2>4. Sound(e)
      BY <1>0, <2>1, <2>2, <2>3, MovesOn
    <2> QED
      BY <2>1, <2>2, <2>4, GoesOn, GivesUp DEF Going
  <1>4. CASE Model(q)
    <2> DEFINE s == [req[q] EXCEPT !.iter = @ + 1, !.tokens = @ + 1]
    <2>1. r.pc = "model" /\ same /\ r.iter < MaxIter
      BY <1>4 DEF Model, At, Sound, Rounds
    <2>2. ASSUME NEW p \in {"done", "final"}, Set(q, [s EXCEPT !.pc = p])
          PROVE  Local(q)
      <3> DEFINE e == [s EXCEPT !.pc = p]
                 i == r.iter + 1
                 t == r.tokens + 1
      <3>1. i \in Nat /\ t \in Nat /\ p \in Places /\ i <= MaxIter /\ r.iter <= i
        BY <1>0, <1>p, <2>1
      <3> HIDE DEF i, t
      <3>2. e = [[req[q] EXCEPT !.iter = i, !.tokens = t] EXCEPT !.pc = p]
        BY DEF i, t
      <3> HIDE DEF e
      <3>3. /\ e \in Request /\ e.pc = p /\ e.conv = r.conv /\ e.turn = r.turn
            /\ e.mine = r.mine /\ e.wrote = r.wrote /\ e.prompt = r.prompt /\ e.todo = r.todo
            /\ e.iter = i /\ e.used = r.used /\ e.calls = r.calls
        BY <1>0, <3>1, <3>2 DEF Request
      <3>4. Questions(e)
        BY <2>1, <3>3 DEF Sound, Questions, Talks
      <3>5. Balanced(e)
        <4>1. \A j \in DOMAIN r.prompt : r.prompt[j].id[1] <= i
          <5>1. /\ \A j \in DOMAIN r.prompt : r.prompt[j].id[1] <= r.iter
                /\ \A j \in DOMAIN r.prompt : r.prompt[j].id[1] \in Nat
            BY BalancedParts, PromptItems
          <5> QED
            BY <1>0, <3>1, <5>1
        <4>2. r.todo = <<>>
          BY <2>1 DEF Sound, Balanced
        <4> QED
          BY <3>3, <4>1, <4>2 DEF Sound, Balanced
      <3>6. Rounds(e)
        BY <3>1, <3>3 DEF Sound, Rounds
      <3>7. Sound(e)
        BY <1>0, <2>1, <3>3, <3>4, <3>5, <3>6 DEF Sound
      <3>8. Set(q, e)
        BY <2>2, <3>2 DEF i, t
      <3> QED
        BY <2>1, <3>3, <3>7, <3>8, GoesOn DEF Going
    <2>3. ASSUME NEW n \in 1..MaxBatch, ~LastRound(r),
                 Set(q, [s EXCEPT !.pc = "tools", !.todo = [k \in 1..n |-> Call(req[q], k)],
                                  !.prompt = @ \o [k \in 1..n |-> Call(req[q], k)]])
          PROVE  Local(q)
      <3> DEFINE e == [s EXCEPT !.pc = "tools", !.todo = [k \in 1..n |-> Call(req[q], k)],
                                !.prompt = @ \o [k \in 1..n |-> Call(req[q], k)]]
      <3>1. Sound(e) /\ e.turn = r.turn
        BY <2>1, <2>3, CallsAreSound
      <3>2. Set(q, e)
        BY <2>3
      <3> HIDE DEF e
      <3> QED
        BY <2>1, <3>1, <3>2, GoesOn DEF Going
    <2> QED
      BY <1>4, <2>2, <2>3 DEF Model
  <1>5. CASE Tool(q)
    <2>1. r.pc = "tools" /\ same /\ r.todo # <<>>
      BY <1>5 DEF Tool, At
    <2>2. PICK length \in Lengths, wrote \in BOOLEAN, broken \in BOOLEAN :
            Set(q, AfterResult(r, length, wrote, broken))
      BY <1>5 DEF Tool, AfterResult
    <2> DEFINE e == AfterResult(r, length, wrote, broken)
    <2>3. length \in Nat
      BY ChatTurnAssumption
    <2>4. Sound(e) /\ e.turn = r.turn
      BY <2>1, <2>3, ResultIsSound
    <2> HIDE DEF e
    <2> QED
      BY <2>1, <2>2, <2>4, GoesOn DEF Going, e
  <1>6. CASE EndTools(q)
    <2> DEFINE e == [r EXCEPT !.pc = "model", !.todo = <<>>, !.prompt = @ \o Skipped(r.todo)]
    <2>1. r.pc = "tools" /\ same /\ Set(q, e)
      BY <1>6 DEF EndTools, At
    <2>2. Sound(e) /\ e.turn = r.turn
      BY <2>1, RoundIsSound
    <2> HIDE DEF e
    <2> QED
      BY <2>1, <2>2, GoesOn DEF Going
  <1>7. CASE Final(q)
    <2> DEFINE e == [req[q] EXCEPT !.pc = "done", !.tokens = @ + 1]
    <2>1. r.pc = "final" /\ same /\ Set(q, e)
      BY <1>7 DEF Final, At
    <2>2. /\ e \in Request /\ e.pc = "done" /\ e.conv = r.conv /\ e.turn = r.turn
          /\ e.mine = r.mine /\ e.wrote = r.wrote /\ e.prompt = r.prompt /\ e.todo = r.todo
          /\ e.iter = r.iter /\ e.used = r.used /\ e.calls = r.calls
      <3> DEFINE t == r.tokens + 1
      <3>1. t \in Nat
        BY <1>0
      <3> HIDE DEF t
      <3>2. e = [r EXCEPT !.pc = "done", !.tokens = t]
        BY DEF t
      <3> HIDE DEF e
      <3> QED
        BY <1>0, <1>p, <3>1, <3>2 DEF Request
    <2> HIDE DEF e
    <2>3. Questions(e)
      BY <2>1, <2>2 DEF Sound, Questions, Talks
    <2>4. Sound(e)
      BY <1>0, <2>1, <2>2, <2>3, MovesOn
    <2> QED
      BY <2>1, <2>2, <2>4, GoesOn DEF Going
  <1>8. CASE FallBack(q)
    <2> DEFINE e == Resumed(r)
    <2>1. r.pc \in {"model", "final"} /\ same /\ Set(q, e)
      BY <1>8 DEF FallBack
    <2>2. /\ e \in Request /\ e.pc = "context" /\ e.conv = r.conv /\ e.turn = r.turn
          /\ e.mine = r.mine /\ e.wrote = r.wrote /\ e.prompt = Idle.prompt /\ e.todo = Idle.todo
          /\ e.iter = Idle.iter /\ e.used = Idle.used /\ e.calls = Idle.calls
      <3>1. Idle \in Request
        BY IdleIsSound DEF Sound
      <3>2. r.conv \in Convs \cup {None} /\ r.turn \in Nat /\ r.mine \in SUBSET Asking
            /\ r.wrote \in BOOLEAN /\ r.broken \in BOOLEAN
        BY <1>0 DEF Request
      <3> QED
        BY <1>p, <3>1, <3>2 DEF Request, Resumed
    <2> HIDE DEF e
    <2>3. Questions(e)
      BY <2>1, <2>2 DEF Sound, Questions, Talks
    <2>4. Idle.pc = "idle"
      BY DEF Idle
    <2>5. Sound(e)
      BY <1>0, <2>1, <2>2, <2>3, <2>4, IdleIsSound, MovesOn
    <2> QED
      BY <2>1, <2>2, <2>5, GoesOn DEF Going
  <1> QED
    BY <1>1, <1>2, <1>3, <1>4, <1>5, <1>6, <1>7, <1>8

-----------------------------------------------------------------------------
(* The rows of the database.                                               *)
LEMMA QuestFields ==
  ASSUME NEW a
  PROVE  /\ First(a).conv = a.conv /\ First(a).turn = a.turn /\ First(a).role = "user"
         /\ Second(a).conv = a.conv /\ Second(a).turn = a.turn /\ Second(a).role = "user"
         /\ ~IsReply(First(a)) /\ ~IsReply(Second(a)) /\ First(a) # Second(a)
         /\ First(a).rating = 0 /\ Second(a).rating = 0
         /\ First(a).auto = FALSE /\ Second(a).auto = FALSE
  BY DEF Quest, IsReply, First, Second

LEMMA ReplyFields ==
  ASSUME NEW a \in Replies
  PROVE  /\ IsReply(a) /\ a.conv \in Convs /\ a.turn \in Nat \ {0} /\ a.mode \in {"agent", "direct"}
         /\ a.rating \in Ratings \cup {0} /\ a.auto \in BOOLEAN
  BY DEF Replies, IsReply

(* A row of a whole table is a reply, or a question of one that is there.    *)
LEMMA RowOf ==
  ASSUME NEW r, NEW p, Whole(r, p), NEW m \in r
  PROVE  \/ m \in Replies /\ IsReply(m)
         \/ /\ ~IsReply(m)
            /\ \E a \in r : /\ a \in Replies /\ IsReply(a)
                            /\ \/ m = First(a)
                               \/ m = Second(a) /\ a.mode = "direct"
  <1>1. CASE m \in Replies
    BY <1>1, ReplyFields
  <1>2. CASE m \notin Replies
    <2>1. PICK a \in r : /\ a \in Replies
                         /\ \/ m = First(a)
                            \/ m = Second(a) /\ a.mode = "direct"
      BY <1>2 DEF Whole
    <2>2. IsReply(a)
      BY <2>1, ReplyFields
    <2>3. ~IsReply(First(a)) /\ ~IsReply(Second(a))
      BY QuestFields
    <2> QED
      BY <2>1, <2>2, <2>3
  <1> QED
    BY <1>1, <1>2

LEMMA RowTypes ==
  ASSUME NEW r, NEW p, Whole(r, p), NEW m \in r
  PROVE  /\ m.conv \in Convs /\ m.turn \in Nat \ {0} /\ m.role \in {"user", "assistant"}
         /\ m.rating \in Ratings \cup {0} /\ m.auto \in BOOLEAN
         /\ \E a \in r : IsReply(a) /\ a.turn = m.turn
  <1>1. CASE m \in Replies
    BY <1>1, ReplyFields DEF IsReply
  <1>2. CASE m \notin Replies
    <2>1. PICK a \in r : a \in Replies /\ (m = First(a) \/ m = Second(a))
      BY <1>2 DEF Whole
    <2>2. /\ a.conv \in Convs /\ a.turn \in Nat \ {0} /\ IsReply(a)
      BY <2>1, ReplyFields
    <2>3. /\ m.conv = a.conv /\ m.turn = a.turn /\ m.role = "user" /\ m.rating = 0 /\ m.auto = FALSE
      BY <2>1, QuestFields
    <2> QED
      BY <2>1, <2>2, <2>3
  <1> QED
    BY <1>1, <1>2

LEMMA NewTurnIsWhole ==
  ASSUME NEW r, NEW p, NEW p2, Whole(r, p), NEW a \in Replies, NEW qs,
         \A m \in r : m.turn # a.turn,
         \/ qs = {First(a)}
         \/ qs = {First(a), Second(a)} /\ a.mode = "direct",
         \A t \in p2 : t \in p \/ t = a.turn,
         a.turn \in p2 => a.mode = "agent" \/ Second(a) \in qs
  PROVE  Whole(r \cup qs \cup {a}, p2)
  <1> DEFINE w == r \cup qs \cup {a}
  <1>1. /\ First(a) \in qs
        /\ \A m \in qs : /\ ~IsReply(m)
                         /\ \/ m = First(a)
                            \/ m = Second(a) /\ a.mode = "direct"
    BY QuestFields
  <1>2. IsReply(a)
    BY ReplyFields
  <1>3. \A m \in w : m \in r \/ m \in qs \/ m = a
    OBVIOUS
  <1>4. r \subseteq w /\ qs \subseteq w /\ a \in w
    OBVIOUS
  <1> HIDE DEF w
  <1>5. \A m \in w : \/ m \in Replies
                     \/ \E b \in w : /\ b \in Replies
                                     /\ \/ m = First(b)
                                        \/ m = Second(b) /\ b.mode = "direct"
    <2> SUFFICES ASSUME NEW m \in w, m \notin Replies
                 PROVE  \E b \in w : /\ b \in Replies
                                     /\ \/ m = First(b)
                                        \/ m = Second(b) /\ b.mode = "direct"
      OBVIOUS
    <2>1. CASE m \in r
      <3>1. PICK b \in r : /\ b \in Replies
                           /\ \/ m = First(b)
                              \/ m = Second(b) /\ b.mode = "direct"
        BY <2>1 DEF Whole
      <3> QED
        BY <1>4, <3>1
    <2>2. CASE m \in qs
      BY <1>1, <1>4, <2>2
    <2> QED
      BY <1>3, <2>1, <2>2
  <1>6. \A b \in w : IsReply(b) => First(b) \in w
    BY <1>1, <1>3, <1>4 DEF Whole
  <1>7. \A b, d \in w : IsReply(b) /\ IsReply(d) /\ b.turn = d.turn => b = d
    BY <1>1, <1>3 DEF Whole
  <1>8. \A b \in w : IsReply(b) /\ b.turn \in p2 => b.mode = "agent" \/ Second(b) \in w
    BY <1>1, <1>3, <1>4 DEF Whole
  <1>9. Whole(w, p2)
    BY <1>5, <1>6, <1>7, <1>8 DEF Whole
  <1> QED
    BY <1>9 DEF w

LEMMA EditedIsWhole ==
  ASSUME NEW r, NEW p, Whole(r, p), NEW a \in r, IsReply(a), NEW b \in Replies,
         b.conv = a.conv, b.turn = a.turn, b.mode = a.mode
  PROVE  Whole((r \ {a}) \cup {b}, p)
  <1> DEFINE w == (r \ {a}) \cup {b}
  <1>1. \A m \in w : m \in r \ {a} \/ m = b
    OBVIOUS
  <1>2. r \ {a} \subseteq w /\ b \in w
    OBVIOUS
  <1>3. IsReply(b)
    BY ReplyFields
  <1> HIDE DEF w
  <1>4. \A m \in r : ~IsReply(m) => m \in w
    BY <1>2
  <1>s. First(b) = First(a) /\ Second(b) = Second(a)
    BY DEF First, Second
  <1>5. \A m \in w : \/ m \in Replies
                     \/ \E d \in w : /\ d \in Replies
                                     /\ \/ m = First(d)
                                        \/ m = Second(d) /\ d.mode = "direct"
    <2> SUFFICES ASSUME NEW m \in w, m \notin Replies
                 PROVE  \E d \in w : /\ d \in Replies
                                     /\ \/ m = First(d)
                                        \/ m = Second(d) /\ d.mode = "direct"
      OBVIOUS
    <2>1. m \in r
      BY <1>1
    <2>2. PICK d \in r : /\ d \in Replies
                         /\ \/ m = First(d)
                            \/ m = Second(d) /\ d.mode = "direct"
      BY <2>1 DEF Whole
    <2>3. CASE d = a
      BY <1>2, <1>s, <2>2, <2>3
    <2>4. CASE d # a
      BY <1>2, <2>2, <2>4
    <2> QED
      BY <2>3, <2>4
  <1>6. \A d \in w : IsReply(d) => First(d) \in w
    <2>1. \A d \in r : IsReply(d) => First(d) \in w
      BY <1>4, QuestFields DEF Whole
    <2> QED
      BY <1>1, <1>s, <2>1
  <1>7. \A d, e \in w : IsReply(d) /\ IsReply(e) /\ d.turn = e.turn => d = e
    BY <1>1 DEF Whole
  <1>8. \A d \in w : IsReply(d) /\ d.turn \in p => d.mode = "agent" \/ Second(d) \in w
    <2>1. \A d \in r : IsReply(d) /\ d.turn \in p => d.mode = "agent" \/ Second(d) \in w
      BY <1>4, QuestFields DEF Whole
    <2> QED
      BY <1>1, <1>s, <2>1
  <1>9. Whole(w, p)
    BY <1>5, <1>6, <1>7, <1>8 DEF Whole
  <1> QED
    BY <1>9 DEF w

LEMMA RestIsWhole ==
  ASSUME NEW r, NEW p, Whole(r, p), NEW c
  PROVE  Whole({m \in r : m.conv # c}, p)
  <1> DEFINE w == {m \in r : m.conv # c}
  <1>1. \A m : m \in w <=> m \in r /\ m.conv # c
    OBVIOUS
  <1> HIDE DEF w
  <1>2. \A m \in w : \/ m \in Replies
                     \/ \E d \in w : /\ d \in Replies
                                     /\ \/ m = First(d)
                                        \/ m = Second(d) /\ d.mode = "direct"
    <2> SUFFICES ASSUME NEW m \in w, m \notin Replies
                 PROVE  \E d \in w : /\ d \in Replies
                                     /\ \/ m = First(d)
                                        \/ m = Second(d) /\ d.mode = "direct"
      OBVIOUS
    <2>1. PICK d \in r : /\ d \in Replies
                         /\ \/ m = First(d)
                            \/ m = Second(d) /\ d.mode = "direct"
      BY <1>1 DEF Whole
    <2>2. d.conv = m.conv
      BY <2>1, QuestFields
    <2> QED
      BY <1>1, <2>1, <2>2
  <1>q. \A d : First(d).conv = d.conv /\ Second(d).conv = d.conv
    BY QuestFields
  <1>3. \A d \in w : IsReply(d) => First(d) \in w
    <2>1. \A d \in r : IsReply(d) => First(d) \in r
      BY DEF Whole
    <2> QED
      BY <1>1, <1>q, <2>1
  <1>4. \A d, e \in w : IsReply(d) /\ IsReply(e) /\ d.turn = e.turn => d = e
    BY <1>1 DEF Whole
  <1>5. \A d \in w : IsReply(d) /\ d.turn \in p => d.mode = "agent" \/ Second(d) \in w
    <2>1. \A d \in r : IsReply(d) /\ d.turn \in p => d.mode = "agent" \/ Second(d) \in r
      BY DEF Whole
    <2> QED
      BY <1>1, <1>q, <2>1
  <1>6. Whole(w, p)
    BY <1>2, <1>3, <1>4, <1>5 DEF Whole
  <1> QED
    BY <1>6 DEF w

(* What a whole table means for one turn: its answer and its questions.      *)
LEMMA TurnOf ==
  ASSUME NEW r, NEW p, Whole(r, p), NEW a \in r, IsReply(a)
  PROVE  LET turn == {m \in r : m.turn = a.turn}
             users == {m \in turn : m.role = "user"}
             first == First(a)
             second == Second(a)
         IN  /\ turn \ users = {a} /\ first # second
             /\ \/ users = {first} /\ second \notin r
                \/ users = {first, second} /\ a.mode = "direct"
  <1> DEFINE turn == {m \in r : m.turn = a.turn}
             users == {m \in turn : m.role = "user"}
             first == First(a)
             second == Second(a)
  <1>1. a \in Replies
    BY RowOf
  <1>2. /\ first.turn = a.turn /\ second.turn = a.turn /\ first.role = "user" /\ second.role = "user"
        /\ first # second /\ ~IsReply(first) /\ ~IsReply(second)
    BY QuestFields
  <1>3. first \in r
    BY DEF Whole
  <1>4. ASSUME NEW m \in r, m.turn = a.turn
        PROVE  m = a \/ m = first \/ (m = second /\ a.mode = "direct")
    <2>1. CASE IsReply(m)
      BY <1>4, <2>1 DEF Whole
    <2>2. CASE ~IsReply(m)
      <3>1. PICK b \in r : /\ b \in Replies /\ IsReply(b)
                           /\ \/ m = First(b)
                              \/ m = Second(b) /\ b.mode = "direct"
        BY <2>2, RowOf
      <3>2. b.turn = a.turn
        BY <1>4, <3>1, QuestFields
      <3>3. b = a
        BY <3>1, <3>2 DEF Whole
      <3> QED
        BY <3>1, <3>3
    <2> QED
      BY <2>1, <2>2
  <1>5. a.role # "user"
    BY DEF IsReply
  <1> HIDE DEF first, second
  <1>6. turn \ users = {a}
    BY <1>2, <1>4, <1>5
  <1>7. CASE second \in r
    <2>1. a.mode = "direct"
      BY <1>2, <1>4, <1>7
    <2>2. users = {first, second}
      BY <1>2, <1>3, <1>4, <1>5, <1>7
    <2> QED
      BY <1>2, <1>6, <2>1, <2>2 DEF first, second
  <1>8. CASE second \notin r
    <2>1. users = {first}
      BY <1>2, <1>3, <1>4, <1>5, <1>8
    <2> QED
      BY <1>2, <1>6, <1>8, <2>1 DEF first, second
  <1> QED
    BY <1>7, <1>8

-----------------------------------------------------------------------------
(* The steps.                                                              *)
LEMMA LocalKeepsInv ==
  ASSUME Inv, NEW q \in Requests, Local(q)
  PROVE  Inv'
  <1>1. PICK r : Sound(r) /\ req' = [req EXCEPT ![q] = r] /\ (r.pc = "idle" \/ r.turn = req[q].turn)
    BY DEF Local
  <1>2. UNCHANGED <<convs, rows, proposals, evals, given, asked>> /\ Going(q)
    BY DEF Local
  <1>3. req \in [Requests -> Request] /\ r \in Request
    BY <1>1 DEF Inv, Types, Sound
  <1>4. req'[q] = r /\ \A p \in Requests \ {q} : req'[p] = req[p]
    BY <1>1, <1>3
  <1>5. \A p \in Requests : Going(p)' => Going(p) /\ req'[p].turn = req[p].turn
    BY <1>1, <1>2, <1>4 DEF Going
  <1>6. Apart'
    BY <1>2, <1>5 DEF Inv, Apart
  <1>7. Types'
    BY <1>1, <1>2, <1>3 DEF Inv, Types
  <1>8. \A p \in Requests : Sound(req'[p])
    BY <1>1, <1>4 DEF Inv
  <1>9. RatingsStand' /\ Whole(rows, proposals)'
    BY <1>2 DEF Inv, RatingsStand, Answers, Whole
  <1> QED
    BY <1>6, <1>7, <1>8, <1>9 DEF Inv

Opening(c, t, p) == [Idle EXCEPT !.pc = p, !.conv = c, !.turn = t]

LEMMA FreshIsSound ==
  ASSUME NEW c \in Convs, NEW t \in Nat, NEW p \in {"agent", "context"}
  PROVE  /\ Sound(Opening(c, t, p)) /\ Opening(c, t, p).pc = p /\ Opening(c, t, p).turn = t
  <1> DEFINE e == Opening(c, t, p)
  <1>1. p \in Places /\ Idle \in Request /\ Sound(Idle)
    BY IdleIsSound DEF Places, Sound
  <1>2. /\ e \in Request /\ e.pc = p /\ e.conv = c /\ e.turn = t
        /\ e.mine = Idle.mine /\ e.wrote = Idle.wrote /\ e.prompt = Idle.prompt /\ e.todo = Idle.todo
        /\ e.iter = Idle.iter /\ e.used = Idle.used /\ e.calls = Idle.calls
    BY <1>1 DEF Request, Opening
  <1> HIDE DEF e
  <1>3. Idle.mine = {} /\ Idle.wrote = FALSE /\ Idle.iter = 0 /\ Idle.pc = "idle"
    BY DEF Idle
  <1>4. Questions(e)
    BY <1>2, <1>3 DEF Questions, Talks
  <1>5. Balanced(e)
    BY <1>1, <1>2, <1>3 DEF Sound, Balanced
  <1>6. Rounds(e)
    BY <1>1, <1>2, <1>3 DEF Sound, Rounds
  <1>7. Sound(e)
    BY <1>2, <1>4, <1>5, <1>6 DEF Sound
  <1> QED
    BY <1>2, <1>7 DEF e

LEMMA BeginKeepsInv ==
  ASSUME Inv, NEW q \in Requests, NEW c \in Convs, Begin(q, c)
  PROVE  Inv'
  <1>0. asked \in Nat /\ MaxTurns \in Nat /\ asked < MaxTurns /\ asked' = asked + 1
        /\ UNCHANGED <<convs, rows, proposals, evals, given>> /\ ~Going(q)
    BY ChatTurnAssumption DEF Inv, Types, Begin, At, Going
  <1>1. PICK p \in {"agent", "context"} :
          Set(q, [Idle EXCEPT !.pc = p, !.conv = c, !.turn = asked + 1])
    BY DEF Begin
  <1> DEFINE t == asked + 1
             e == Opening(c, t, p)
  <1>2. t \in Nat /\ t \in 1..MaxTurns /\ asked' = t
    BY <1>0
  <1>3. Sound(e) /\ e.pc = p /\ e.turn = t
    BY <1>2, FreshIsSound
  <1>4. req' = [req EXCEPT ![q] = e]
    BY <1>1 DEF Set, Opening
  <1> HIDE DEF e
  <1>5. req \in [Requests -> Request] /\ e \in Request
    BY <1>3 DEF Inv, Types, Sound
  <1>6. req'[q] = e /\ \A o \in Requests \ {q} : req'[o] = req[o]
    BY <1>4, <1>5
  <1>7. /\ given[t] = 0 /\ t \notin proposals /\ \A m \in rows : m.turn # t
        /\ \A o \in Requests : Going(o) => req[o].turn # t
    <2>1. given[t] = 0
      BY <1>0, <1>2 DEF Inv, Apart
    <2>2. t \notin proposals
      BY <1>0 DEF Inv, Types
    <2>3. \A m \in rows : m.turn # t
      <3>1. \A m \in rows : m.turn <= asked
        BY DEF Inv, Apart
      <3> QED
        BY <1>0, <3>1
    <2>4. \A o \in Requests : Going(o) => req[o].turn # t
      BY <1>0 DEF Inv, Apart
    <2> QED
      BY <2>1, <2>2, <2>3, <2>4
  <1>8. Apart'
    <2>1. \A o \in Requests : Going(o)' =>
            \/ o = q /\ req'[o].turn = t
            \/ o # q /\ Going(o) /\ req'[o] = req[o]
      BY <1>3, <1>6 DEF Going
    <2>2. \A o \in Requests : Going(o)' =>
            /\ req'[o].turn \in 1..asked' /\ req'[o].turn \notin proposals
            /\ \A m \in rows : m.turn # req'[o].turn
            /\ given[req'[o].turn] = 0
      <3>1. 1..asked \subseteq 1..t /\ t \in 1..t
        BY <1>0
      <3> QED
        BY <1>2, <1>7, <2>1, <3>1 DEF Inv, Apart
    <2>3. \A o, u \in Requests : Going(o)' /\ Going(u)' /\ req'[o].turn = req'[u].turn => o = u
      BY <1>7, <2>1 DEF Inv, Apart
    <2>4. \A m \in rows : m.turn <= asked'
      <3>1. \A m \in rows : m.turn \in Nat /\ m.turn <= asked
        BY RowTypes DEF Inv, Apart
      <3> QED
        BY <1>0, <3>1
    <2>5. \A k \in 1..MaxTurns : k > asked' => given[k] = 0
      BY <1>0 DEF Inv, Apart
    <2> QED
      BY <1>0, <2>2, <2>3, <2>4, <2>5 DEF Apart
  <1>9. Types'
    <2>1. proposals \subseteq 1..t /\ t \in 0..MaxTurns
      BY <1>0 DEF Inv, Types
    <2> QED
      BY <1>0, <1>2, <1>4, <1>5, <2>1 DEF Inv, Types
  <1>10. \A o \in Requests : Sound(req'[o])
    BY <1>3, <1>6 DEF Inv
  <1>11. RatingsStand' /\ Whole(rows, proposals)'
    BY <1>0 DEF Inv, RatingsStand, Answers, Whole
  <1> QED
    BY <1>8, <1>9, <1>10, <1>11 DEF Inv

(* The rows of a turn that ends are those of one answer, and nothing of the  *)
(* turn was there before.                                                  *)
LEMMA CommitKeepsInv ==
  ASSUME Inv, NEW q \in Requests, NEW mode \in {"agent", "direct"}, Commit(q, mode),
         req[q].pc = IF mode = "agent" THEN "done" ELSE "direct",
         UNCHANGED <<convs, given, asked>>
  PROVE  Inv'
  <1> DEFINE r == req[q]
             a == AnswerRow(r, mode)
             t == r.turn
  <1>1. CASE r.broken
    <2>1. Local(q)
      BY <1>1, GivesUp DEF Commit, Going
    <2> QED
      BY <2>1, LocalKeepsInv
  <1>2. CASE ~r.broken
    <2>1. /\ rows' = rows \cup r.mine \cup {a}
          /\ proposals' = IF r.wrote THEN proposals \cup {t} ELSE proposals
          /\ evals' = [evals EXCEPT ![t] = [pc |-> "judging", read |-> {}]]
          /\ req' = [req EXCEPT ![q] = Idle]
      BY <1>2 DEF Commit, Set
    <2>2. r \in Request /\ r.conv \in Convs /\ r.tokens \in Nat /\ r.wrote \in BOOLEAN /\ Going(q)
          /\ Questions(r)
      BY DEF Inv, Sound, Request, Going
    <2>3. /\ asked \in 0..MaxTurns /\ t \in 1..asked /\ t \in 1..MaxTurns /\ t \in Nat \ {0}
          /\ MaxTurns \in Nat /\ t \notin proposals /\ given[t] = 0
          /\ \A m \in rows : m.turn # t
      <3>1. t \in 1..asked /\ t \notin proposals /\ given[t] = 0 /\ \A m \in rows : m.turn # t
        BY <2>2 DEF Inv, Apart
      <3>2. asked \in 0..MaxTurns /\ MaxTurns \in Nat
        BY ChatTurnAssumption DEF Inv, Types
      <3> QED
        BY <3>1, <3>2
    <2>4. /\ a \in Replies /\ a.conv = r.conv /\ a.turn = t /\ a.mode = mode /\ a.rating = 0
          /\ IsReply(a)
      BY <2>2, <2>3 DEF AnswerRow, Replies, IsReply
    <2>5. First(a) = Quest(r.conv, r.turn, 1) /\ Second(a) = Quest(r.conv, r.turn, 2)
      BY <2>4 DEF First, Second
    <2> HIDE DEF a
    <2>6. /\ \/ r.mine = {First(a)}
             \/ r.mine = {First(a), Second(a)} /\ a.mode = "direct"
          /\ r.wrote => a.mode = "agent" \/ Second(a) \in r.mine
      <3>1. CASE mode = "agent"
        BY <2>2, <2>4, <2>5, <3>1 DEF Questions, Talks
      <3>2. CASE mode = "direct"
        BY <2>2, <2>4, <2>5, <3>2 DEF Questions
      <3> QED
        BY <3>1, <3>2
    <2>7. Whole(rows', proposals')
      <3>1. \A k \in proposals' : k \in proposals \/ k = a.turn
        BY <2>1, <2>4
      <3>2. a.turn \in proposals' => r.wrote
        BY <2>1, <2>3, <2>4
      <3>3. Whole(rows \cup r.mine \cup {a}, proposals')
        <4> DEFINE qs == r.mine
        <4>1. /\ qs = {First(a)} \/ (qs = {First(a), Second(a)} /\ a.mode = "direct")
              /\ a.turn \in proposals' => a.mode = "agent" \/ Second(a) \in qs
              /\ \A m \in rows : m.turn # a.turn
          BY <2>3, <2>4, <2>6, <3>2
        <4> HIDE DEF qs
        <4>2. Whole(rows \cup qs \cup {a}, proposals')
          BY <2>4, <3>1, <4>1, NewTurnIsWhole DEF Inv
        <4> QED
          BY <4>2 DEF qs
      <3> QED
        BY <2>1, <3>3
    <2>8. \A m \in rows' : m \in rows \/ (m.turn = t /\ (m = a \/ ~IsReply(m)))
      <3>1. \A m \in r.mine : m.turn = t /\ ~IsReply(m)
        <4>1. /\ First(a).turn = t /\ Second(a).turn = t
              /\ ~IsReply(First(a)) /\ ~IsReply(Second(a))
          BY <2>4, QuestFields
        <4>2. \A m \in r.mine : m = First(a) \/ m = Second(a)
          BY <2>6
        <4> QED
          BY <4>1, <4>2
      <3> QED
        BY <2>1, <2>4, <3>1
    <2>9. req \in [Requests -> Request] /\ Sound(Idle) /\ Idle \in Request /\ Idle.pc = "idle"
      BY IdleIsSound DEF Inv, Types, Sound, Idle
    <2>10. req'[q] = Idle /\ \A o \in Requests \ {q} : req'[o] = req[o]
      BY <2>1, <2>9
    <2>11. \A o \in Requests : Going(o)' => Going(o) /\ o # q /\ req'[o] = req[o] /\ req[o].turn # t
      <3>1. \A o \in Requests : Going(o)' => o # q /\ req'[o] = req[o] /\ Going(o)
        BY <2>9, <2>10 DEF Going
      <3> QED
        BY <2>2, <3>1 DEF Inv, Apart
    <2>12. Apart'
      <3>1. \A o \in Requests : Going(o)' =>
              /\ req'[o].turn \in 1..asked /\ req'[o].turn \notin proposals'
              /\ \A m \in rows' : m.turn # req'[o].turn
              /\ given[req'[o].turn] = 0
        BY <2>1, <2>8, <2>11 DEF Inv, Apart
      <3>2. \A o, u \in Requests : Going(o)' /\ Going(u)' /\ req'[o].turn = req'[u].turn => o = u
        BY <2>11 DEF Inv, Apart
      <3>3. \A m \in rows' : m.turn <= asked
        BY <2>3, <2>8 DEF Inv, Apart
      <3> QED
        BY <3>1, <3>2, <3>3 DEF Inv, Apart
    <2>13. Types'
      <3>1. proposals' \subseteq 1..asked
        BY <2>1, <2>3 DEF Inv, Types
      <3>2. req' \in [Requests -> Request]
        BY <2>1, <2>9
      <3>3. DOMAIN evals' = 1..MaxTurns
            /\ \A k \in 1..MaxTurns : evals'[k].pc = "judged" => \E x : evals'[k].read = {x}
        <4>1. DOMAIN evals' = DOMAIN evals
              /\ \A k \in 1..MaxTurns : evals'[k] = evals[k] \/ evals'[k].pc = "judging"
          BY <2>1, <2>3 DEF Inv, Types
        <4> QED
          BY <4>1 DEF Inv, Types
      <3> QED
        BY <3>1, <3>2, <3>3 DEF Inv, Types
    <2>14. RatingsStand'
      BY <2>3, <2>4, <2>8 DEF Inv, RatingsStand, Answers, IsReply
    <2>15. \A o \in Requests : Sound(req'[o])
      BY <2>9, <2>10 DEF Inv
    <2> QED
      BY <2>7, <2>12, <2>13, <2>14, <2>15 DEF Inv
  <1> QED
    BY <1>1, <1>2

(* An edited answer, by the user or by the judge.                            *)
LEMMA EditKeepsInv ==
  ASSUME Inv, NEW a \in rows, IsReply(a), NEW b \in Replies,
         b.conv = a.conv, b.turn = a.turn, b.mode = a.mode,
         rows' = (rows \ {a}) \cup {b}, UNCHANGED <<convs, proposals, req, asked>>,
         given' = [given EXCEPT ![a.turn] = b.rating],
         Types'
  PROVE  Inv'
  <1>1. \A m \in rows' : m \in rows \/ m = b
    OBVIOUS
  <1>2. Whole(rows', proposals')
    BY EditedIsWhole DEF Inv
  <1>3. given \in [1..MaxTurns -> Ratings \cup {0}] /\ asked \in 0..MaxTurns /\ MaxTurns \in Nat
    BY ChatTurnAssumption DEF Inv, Types
  <1>4. a.turn \in Nat \ {0} /\ a.turn <= asked /\ a.turn \in 1..MaxTurns
    <2>1. a.turn \in Nat \ {0}
      BY RowOf, ReplyFields DEF Inv
    <2>2. a.turn <= asked
      BY DEF Inv, Apart
    <2> QED
      BY <1>3, <2>1, <2>2
  <1>5. given'[a.turn] = b.rating /\ \A k \in 1..MaxTurns \ {a.turn} : given'[k] = given[k]
    BY <1>3, <1>4
  <1>6. Apart'
    <2>1. \A q \in Requests : Going(q)' => Going(q) /\ req'[q] = req[q] /\ req[q].turn # a.turn
      BY DEF Going, Inv, Apart
    <2>2. \A q \in Requests : Going(q)' =>
            /\ req'[q].turn \in 1..asked /\ req'[q].turn \notin proposals
            /\ \A m \in rows' : m.turn # req'[q].turn
            /\ given'[req'[q].turn] = 0
      <3> SUFFICES ASSUME NEW q \in Requests, Going(q)'
                   PROVE  /\ req'[q].turn \in 1..asked /\ req'[q].turn \notin proposals
                          /\ \A m \in rows' : m.turn # req'[q].turn
                          /\ given'[req'[q].turn] = 0
        OBVIOUS
      <3>1. /\ req'[q].turn \in 1..asked /\ req'[q].turn \notin proposals
            /\ \A m \in rows : m.turn # req'[q].turn
            /\ given[req'[q].turn] = 0 /\ req'[q].turn # a.turn
        BY <2>1 DEF Inv, Apart
      <3>2. 1..asked \subseteq 1..MaxTurns
        BY <1>3
      <3> QED
        BY <1>1, <1>5, <3>1, <3>2
    <2>3. \A q, o \in Requests : Going(q)' /\ Going(o)' /\ req'[q].turn = req'[o].turn => q = o
      BY <2>1 DEF Inv, Apart
    <2>4. \A m \in rows' : m.turn <= asked
      BY <1>1, <1>4 DEF Inv, Apart
    <2>5. \A k \in 1..MaxTurns : k > asked => given'[k] = 0
      BY <1>3, <1>4, <1>5 DEF Inv, Apart
    <2> QED
      BY <2>2, <2>3, <2>4, <2>5 DEF Apart
  <1>7. RatingsStand'
    <2> SUFFICES ASSUME NEW m \in rows', IsReply(m)
                 PROVE  m.rating = given'[m.turn]
      BY DEF RatingsStand, Answers, IsReply
    <2>1. CASE m = b
      BY <1>5, <2>1
    <2>2. CASE m \in rows \ {a}
      <3>1. m.turn # a.turn
        BY <2>2 DEF Inv, Whole
      <3>2. m.rating = given[m.turn]
        BY <2>2 DEF Inv, RatingsStand, Answers, IsReply
      <3>3. m.turn \in 1..MaxTurns
        <4>1. m.turn \in Nat \ {0}
          BY <2>2, RowOf, ReplyFields DEF Inv
        <4>2. m.turn <= asked
          BY <2>2 DEF Inv, Apart
        <4> QED
          BY <1>3, <4>1, <4>2
      <3> QED
        BY <1>5, <3>1, <3>2, <3>3
    <2> QED
      BY <2>1, <2>2
  <1>8. \A q \in Requests : Sound(req'[q])
    BY DEF Inv
  <1> QED
    BY <1>2, <1>6, <1>7, <1>8 DEF Inv

LEMMA DeleteKeepsInv ==
  ASSUME Inv, NEW c \in Convs, Delete(c)
  PROVE  Inv'
  <1>1. /\ rows' = {m \in rows : m.conv # c} /\ UNCHANGED <<proposals, req, evals, given, asked>>
        /\ convs' = [convs EXCEPT ![c] = "deleted"]
    BY DEF Delete
  <1>2. Whole(rows', proposals')
    BY <1>1, RestIsWhole DEF Inv
  <1>3. rows' \subseteq rows
    BY <1>1
  <1>4. Types'
    BY <1>1 DEF Inv, Types
  <1>5. Apart'
    BY <1>1, <1>3 DEF Inv, Apart, Going
  <1>6. RatingsStand'
    BY <1>1, <1>3 DEF Inv, RatingsStand, Answers
  <1>7. \A q \in Requests : Sound(req'[q])
    BY <1>1 DEF Inv
  <1> QED
    BY <1>2, <1>4, <1>5, <1>6, <1>7 DEF Inv

LEMMA RateKeepsInv ==
  ASSUME Inv, NEW m \in Answers, NEW v \in Ratings \cup {0}, Rate(m, v)
  PROVE  Inv'
  <1> DEFINE b == [m EXCEPT !.rating = v]
  <1>1. m \in rows /\ IsReply(m) /\ m \in Replies
    <2>1. m \in rows /\ IsReply(m)
      BY DEF Answers, IsReply
    <2> QED
      BY <2>1, RowOf DEF Inv
  <1>2. b \in Replies /\ b.conv = m.conv /\ b.turn = m.turn /\ b.mode = m.mode /\ b.rating = v
    BY <1>1 DEF Replies
  <1>3. /\ rows' = (rows \ {m}) \cup {b} /\ given' = [given EXCEPT ![m.turn] = b.rating]
        /\ UNCHANGED <<convs, proposals, req, evals, asked>>
    BY <1>2 DEF Rate, Rated
  <1> HIDE DEF b
  <1>4. Types'
    <2>1. b.rating \in Ratings \cup {0}
      BY <1>2
    <2>2. given' \in [1..MaxTurns -> Ratings \cup {0}]
      BY <1>3, <2>1 DEF Inv, Types
    <2> QED
      BY <1>3, <2>2 DEF Inv, Types
  <1> QED
    BY <1>1, <1>2, <1>3, <1>4, EditKeepsInv

(* What a rating and a judgement do to the table: one answer is replaced by  *)
(* another of the same turn, which has cost the same.                       *)
Edited(a, b) ==
  /\ a \in rows /\ IsReply(a) /\ b \in Replies
  /\ b.conv = a.conv /\ b.turn = a.turn /\ b.mode = a.mode /\ b.tokens = a.tokens
  /\ rows' = (rows \ {a}) \cup {b}

LEMMA JudgementEdits ==
  ASSUME Inv, NEW t \in 1..MaxTurns, WriteJudgement(t)
  PROVE  \/ rows' = rows
         \/ \E a, b : Edited(a, b) /\ b.rating = a.rating
  <1>1. /\ evals[t].pc = "judged"
        /\ rows' = {IF m.turn = t /\ m.role = "assistant"
                    THEN CHOOSE w \in {Judged(m, x) : x \in evals[t].read} : TRUE
                    ELSE m : m \in rows}
    BY DEF WriteJudgement
  <1>2. PICK x : evals[t].read = {x}
    BY <1>1 DEF Inv, Types
  <1> DEFINE edit(m) == [m EXCEPT !.auto = TRUE]
  <1>3. \A m : (CHOOSE w \in {Judged(m, y) : y \in evals[t].read} : TRUE) = edit(m)
    <2> SUFFICES ASSUME NEW m
                 PROVE  (CHOOSE w \in {Judged(m, y) : y \in evals[t].read} : TRUE) = edit(m)
      OBVIOUS
    <2>1. {Judged(m, y) : y \in evals[t].read} = {edit(m)}
      BY <1>2 DEF Judged
    <2> QED
      BY <2>1
  <1>4. rows' = {IF m.turn = t /\ IsReply(m) THEN edit(m) ELSE m : m \in rows}
    BY <1>1, <1>3 DEF IsReply
  <1>5. CASE \E m \in rows : m.turn = t /\ IsReply(m)
    <2>1. PICK a \in rows : a.turn = t /\ IsReply(a)
      BY <1>5
    <2>2. a \in Replies
      BY <2>1, RowOf DEF Inv
    <2> DEFINE b == edit(a)
    <2>3. /\ b \in Replies /\ b.conv = a.conv /\ b.turn = a.turn /\ b.mode = a.mode
          /\ b.rating = a.rating /\ b.tokens = a.tokens
      BY <2>2 DEF Replies
    <2>4. \A m \in rows : m.turn = t /\ IsReply(m) <=> m = a
      BY <2>1 DEF Inv, Whole
    <2>5. rows' = {IF m = a THEN b ELSE m : m \in rows}
      BY <1>4, <2>4
    <2> HIDE DEF b
    <2>6. rows' = (rows \ {a}) \cup {b}
      BY <2>1, <2>5
    <2> QED
      BY <2>1, <2>3, <2>6 DEF Edited
  <1>6. CASE ~(\E m \in rows : m.turn = t /\ IsReply(m))
    BY <1>4, <1>6
  <1> QED
    BY <1>5, <1>6

LEMMA JudgementKeepsInv ==
  ASSUME Inv, NEW t \in 1..MaxTurns, WriteJudgement(t)
  PROVE  Inv'
  <1>1. evals' = [evals EXCEPT ![t] = Over] /\ UNCHANGED <<convs, proposals, req, given, asked>>
    BY DEF WriteJudgement
  <1>2. Types'
    <2>1. /\ DOMAIN evals' = DOMAIN evals
          /\ \A k \in 1..MaxTurns : evals'[k] = evals[k] \/ evals'[k].pc # "judged"
      BY <1>1 DEF Inv, Types, Over
    <2> QED
      BY <1>1, <2>1 DEF Inv, Types
  <1>3. ASSUME NEW a, NEW b, Edited(a, b), b.rating = a.rating
        PROVE  Inv'
    <2>1. a.rating = given[a.turn]
      BY <1>3 DEF Inv, RatingsStand, Answers, Edited, IsReply
    <2>2. given' = [given EXCEPT ![a.turn] = b.rating]
      BY <1>1, <1>3, <2>1 DEF Inv, Types
    <2> QED
      BY <1>1, <1>2, <1>3, <2>2, EditKeepsInv DEF Edited
  <1>4. CASE rows' = rows
    BY <1>1, <1>2, <1>4 DEF Inv, Apart, Going, Whole, RatingsStand, Answers
  <1> QED
    BY <1>3, <1>4, JudgementEdits

LEMMA InvStep ==
  ASSUME Inv, [Next]_vars
  PROVE  Inv'
  <1>1. ASSUME NEW q \in Requests, Step(q)
        PROVE  Inv'
    <2>1. Sound(req[q])
      BY DEF Inv
    <2>2. CASE EndDirect(q)
      BY <2>2, CommitKeepsInv DEF EndDirect, At
    <2>3. CASE EndAgent(q)
      BY <2>3, CommitKeepsInv DEF EndAgent, At
    <2> QED
      BY <1>1, <2>1, <2>2, <2>3, StepsAreLocal, LocalKeepsInv DEF Step
  <1>2. ASSUME NEW c \in Convs, Create(c)
        PROVE  Inv'
    <2>1. UNCHANGED <<rows, proposals, req, evals, given, asked>> /\ convs' = [convs EXCEPT ![c] = "live"]
      BY <1>2 DEF Create
    <2>2. Types'
      BY <2>1 DEF Inv, Types
    <2> QED
      BY <2>1, <2>2 DEF Inv, Apart, Going, Whole, RatingsStand, Answers
  <1>3. ASSUME NEW t \in 1..MaxTurns, Judge(t)
        PROVE  Inv'
    <2>1. UNCHANGED <<convs, rows, proposals, req, given, asked>>
      BY <1>3 DEF Judge
    <2>2. /\ DOMAIN evals' = DOMAIN evals
          /\ \A k \in 1..MaxTurns : evals'[k].pc = "judged" => \E x : evals'[k].read = {x}
      <3>1. DOMAIN evals = 1..MaxTurns /\ \A k \in 1..MaxTurns : evals[k].pc = "judged" => \E x : evals[k].read = {x}
        BY DEF Inv, Types
      <3>2. CASE evals' = [evals EXCEPT ![t] = Over]
        BY <3>1, <3>2 DEF Over
      <3>3. ASSUME NEW m, evals' = [evals EXCEPT ![t] = [pc |-> "judged", read |-> {m}]]
            PROVE  /\ DOMAIN evals' = DOMAIN evals
                   /\ \A k \in 1..MaxTurns : evals'[k].pc = "judged" => \E x : evals'[k].read = {x}
        <4>1. DOMAIN evals' = DOMAIN evals
          BY <3>3
        <4>2. ASSUME NEW k \in 1..MaxTurns, evals'[k].pc = "judged"
              PROVE  \E x : evals'[k].read = {x}
          <5>1. CASE k = t
            <6>1. evals'[k].read = {m}
              BY <3>1, <3>3, <5>1
            <6> QED
              BY <6>1, Zenon
          <5>2. CASE k # t
            <6>1. evals'[k] = evals[k]
              BY <3>1, <3>3, <5>2
            <6> QED
              BY <3>1, <4>2, <6>1
          <5> QED
            BY <5>1, <5>2
        <4> QED
          BY <4>1, <4>2
      <3> QED
        BY <1>3, <3>2, <3>3 DEF Judge
    <2>3. Types'
      BY <2>1, <2>2 DEF Inv, Types
    <2> QED
      BY <2>1, <2>3 DEF Inv, Apart, Going, Whole, RatingsStand, Answers
  <1>4. CASE Crash
    <2>1. /\ UNCHANGED <<convs, rows, proposals, given, asked>> /\ req' = [q \in Requests |-> Idle]
          /\ evals' = [t \in DOMAIN evals |-> IF evals[t] = NotYet THEN NotYet ELSE Over]
      BY <1>4 DEF Crash
    <2>2. Sound(Idle) /\ Idle \in Request /\ Idle.pc = "idle"
      BY IdleIsSound DEF Sound, Idle
    <2>3. DOMAIN evals' = DOMAIN evals /\ \A t \in DOMAIN evals : evals'[t].pc # "judged"
      BY <2>1 DEF NotYet, Over
    <2>4. Types'
      BY <2>1, <2>2, <2>3 DEF Inv, Types
    <2>5. \A q \in Requests : Sound(req'[q]) /\ ~Going(q)'
      BY <2>1, <2>2 DEF Going
    <2> QED
      BY <2>1, <2>4, <2>5 DEF Inv, Apart, Whole, RatingsStand, Answers
  <1>5. CASE UNCHANGED vars
    BY <1>5 DEF vars, Inv, Types, Apart, Going, Whole, RatingsStand, Answers
  <1> QED
    BY <1>1, <1>2, <1>3, <1>4, <1>5, BeginKeepsInv, DeleteKeepsInv, RateKeepsInv, JudgementKeepsInv
    DEF Next

LEMMA InvStart ==
  ASSUME Init
  PROVE  Inv
  <1>1. Sound(Idle) /\ Idle \in Request /\ Idle.pc = "idle"
    BY IdleIsSound DEF Sound, Idle
  <1>2. /\ \A q \in Requests : req[q] = Idle /\ rows = {} /\ proposals = {} /\ asked = 0
        /\ \A t \in 1..MaxTurns : given[t] = 0
    BY DEF Init
  <1>3. Types
    BY <1>1, ChatTurnAssumption DEF Init, Types, NotYet
  <1>4. Apart /\ RatingsStand /\ Whole(rows, proposals)
    BY <1>1 DEF Init, Apart, Going, RatingsStand, Answers, Whole
  <1> QED
    BY <1>1, <1>2, <1>3, <1>4 DEF Inv

LEMMA Invariance == Spec => []Inv
  BY InvStart, InvStep, PTL DEF Spec

-----------------------------------------------------------------------------
(* The theorems.                                                           *)

(* Whatever requests, judges, deletions and crashes interleave: what the     *)
(* database has of a turn is whole, every call of a prompt has its result   *)
(* when the model is called again, and every proposal is under its answer.  *)
THEOREM TurnsAreSound == Spec => []TurnInv
  <1>1. Inv => TypeOK
    <2> SUFFICES ASSUME Inv
                 PROVE  TypeOK
      OBVIOUS
    <2>1. ASSUME NEW m \in rows
          PROVE  /\ m.conv \in Convs /\ m.turn \in 1..asked /\ m.role \in {"user", "assistant"}
                 /\ m.rating \in Ratings \cup {0} /\ m.auto \in BOOLEAN
      <3>1. /\ m.conv \in Convs /\ m.turn \in Nat \ {0} /\ m.role \in {"user", "assistant"}
            /\ m.rating \in Ratings \cup {0} /\ m.auto \in BOOLEAN
        BY RowTypes DEF Inv
      <3>2. m.turn <= asked /\ asked \in Nat
        BY ChatTurnAssumption DEF Inv, Apart, Types
      <3> QED
        BY <3>1, <3>2
    <2>2. ASSUME NEW q \in Requests, req[q].pc # "idle"
          PROVE  req[q].conv \in Convs /\ req[q].turn \in 1..asked /\ req[q].iter \in 0..MaxIter
      <3>1. req[q].conv \in Convs /\ req[q].turn \in 1..asked
        BY <2>2 DEF Inv, Sound, Apart, Going
      <3>2. req[q].iter \in Nat /\ req[q].iter <= MaxIter /\ MaxIter \in Nat
        BY BalancedParts, ChatTurnAssumption DEF Inv, Sound, Rounds
      <3> QED
        BY <3>1, <3>2
    <2>3. /\ convs \in [Convs -> {"new", "live", "deleted"}] /\ proposals \subseteq 1..asked
          /\ asked \in 0..MaxTurns
      BY DEF Inv, Types
    <2> QED
      BY <2>1, <2>2, <2>3 DEF TypeOK
  <1>2. Inv => WholeTurns
    <2> SUFFICES ASSUME Inv, NEW t \in {m.turn : m \in rows}
                 PROVE  LET turn == {m \in rows : m.turn = t}
                            users == {m \in turn : m.role = "user"}
                        IN  \E a \in turn :
                              /\ turn \ users = {a}
                              /\ Cardinality(users) \in 1..(IF a.mode = "agent" THEN 1 ELSE 2)
      BY DEF WholeTurns
    <2> DEFINE turn == {m \in rows : m.turn = t}
               users == {m \in turn : m.role = "user"}
    <2>1. PICK a \in rows : IsReply(a) /\ a.turn = t
      <3>1. PICK m \in rows : m.turn = t
        OBVIOUS
      <3> QED
        BY <3>1, RowTypes DEF Inv
    <2>2. /\ turn \ users = {a} /\ First(a) # Second(a)
          /\ \/ users = {First(a)}
             \/ users = {First(a), Second(a)} /\ a.mode = "direct"
      BY <2>1, TurnOf DEF Inv
    <2>3. a \in turn
      BY <2>1
    <2> HIDE DEF users, turn
    <2>4. Cardinality({First(a)}) = 1 /\ IsFiniteSet({First(a)})
      BY FS_Singleton
    <2>5. Cardinality({First(a), Second(a)}) = 2
      <3>1. Cardinality({First(a)} \cup {Second(a)})
              = IF Second(a) \in {First(a)} THEN Cardinality({First(a)}) ELSE Cardinality({First(a)}) + 1
        BY <2>4, FS_AddElement
      <3>2. {First(a), Second(a)} = {First(a)} \cup {Second(a)} /\ Second(a) \notin {First(a)}
        BY <2>2
      <3> QED
        BY <2>4, <3>1, <3>2
    <2>6. Cardinality(users) \in 1..(IF a.mode = "agent" THEN 1 ELSE 2)
      BY <2>2, <2>4, <2>5
    <2> QED
      BY <2>2, <2>3, <2>6 DEF turn, users
  <1>3. Inv => CallsAreAnswered
    <2> SUFFICES ASSUME Inv, NEW q \in Requests, req[q].pc \in {"model", "final"}
                 PROVE  /\ Ids(req[q].prompt, "call") = Ids(req[q].prompt, "result")
                        /\ Len(req[q].prompt) = 2 * Cardinality(Ids(req[q].prompt, "call"))
      BY DEF CallsAreAnswered, Ids
    <2> DEFINE p == req[q].prompt
    <2>1. /\ p \in Seq(Items)
          /\ Ids(p, "call") = Ids(p, "result") \cup Ids(<<>>, "call")
          /\ Len(p) + Len(<<>>) = 2 * Cardinality(Ids(p, "call"))
      BY BalancedParts DEF Inv
    <2> HIDE DEF p
    <2>2. Ids(<<>>, "call") = {} /\ Len(<<>>) = 0
      BY DEF Ids
    <2>3. Len(p) + 0 = Len(p)
      BY <2>1, LenProperties
    <2>4. /\ Ids(p, "call") = Ids(p, "result")
          /\ Len(p) = 2 * Cardinality(Ids(p, "call"))
      BY <2>1, <2>2, <2>3
    <2> QED
      BY <2>4 DEF p
  <1>4. Inv => ProposalsAreShown
    <2> SUFFICES ASSUME Inv, NEW t \in proposals
                 PROVE  LET turn == {m \in rows : m.turn = t} IN
                        \/ turn = {}
                        \/ \E m \in turn : m.mode = "agent"
                        \/ Cardinality({m \in turn : m.role = "user"}) = 2
      BY DEF ProposalsAreShown
    <2> DEFINE turn == {m \in rows : m.turn = t}
               users == {m \in turn : m.role = "user"}
    <2>1. CASE turn = {}
      BY <2>1
    <2>2. CASE turn # {}
      <3>1. PICK a \in rows : IsReply(a) /\ a.turn = t
        <4>1. PICK m \in rows : m.turn = t
          BY <2>2
        <4> QED
          BY <4>1, RowTypes DEF Inv
      <3>2. a.mode = "agent" \/ Second(a) \in rows
        BY <3>1 DEF Inv, Whole
      <3>3. CASE a.mode = "agent"
        BY <3>1, <3>3
      <3>4. CASE Second(a) \in rows
        <4>1. users = {First(a), Second(a)} /\ First(a) # Second(a)
          BY <3>1, <3>4, TurnOf DEF Inv
        <4> HIDE DEF users
        <4>2. Cardinality(users) = 2
          <5>1. Cardinality({First(a)}) = 1 /\ IsFiniteSet({First(a)})
            BY FS_Singleton
          <5>2. Cardinality({First(a)} \cup {Second(a)})
                  = IF Second(a) \in {First(a)} THEN Cardinality({First(a)})
                    ELSE Cardinality({First(a)}) + 1
            BY <5>1, FS_AddElement
          <5>3. users = {First(a)} \cup {Second(a)} /\ Second(a) \notin {First(a)}
            BY <4>1
          <5> QED
            BY <5>1, <5>2, <5>3
        <4> QED
          BY <4>2 DEF users
      <3> QED
        BY <3>2, <3>3, <3>4
    <2> QED
      BY <2>1, <2>2
  <1> QED
    BY <1>1, <1>2, <1>3, <1>4, Invariance, PTL DEF TurnInv

(* A rating is the one that the user gave last, however the judge's answer   *)
(* and the user's click interleave.                                        *)
THEOREM UserRatingsStand == Spec => []RatingsStand
  <1>1. Inv => RatingsStand
    BY DEF Inv
  <1> QED
    BY <1>1, Invariance, PTL

(* However many calls a model makes and however long their results are, what *)
(* a turn keeps of them is within the budget and the least for each.        *)
THEOREM ResultsAreBounded == Spec => []ResultsWithinBudget
  <1>1. Inv => ResultsWithinBudget
    BY DEF Inv, Sound, Rounds, ResultsWithinBudget
  <1> QED
    BY <1>1, Invariance, PTL

-----------------------------------------------------------------------------
(* The sum over a set, as FoldSet computes it by taking away one element     *)
(* after the other: as many as there are pairs of an element and a number    *)
(* up to its share.  The function that counts them is one that the fold may  *)
(* be, and by induction over the subsets there is no other.                 *)
One(s) == CHOOSE x \in s : TRUE
Total(S) == FoldSet(LAMBDA m, n : n + m.tokens, 0, S)
Adds(g, S) == g = [s \in SUBSET S |-> IF s = {} THEN 0 ELSE g[s \ {One(s)}] + One(s).tokens]
Weight(S, top) == {p \in S \X (1..top) : p[2] <= p[1].tokens}

(* One element more adds its share. *)
LEMMA WeightOfMore ==
  ASSUME NEW S, IsFiniteSet(S), NEW top \in Nat, NEW x, x \notin S, x.tokens \in 0..top
  PROVE  /\ Cardinality(Weight(S, top)) \in Nat
         /\ Cardinality(Weight(S \cup {x}, top)) = Cardinality(Weight(S, top)) + x.tokens
  <1> DEFINE old == Weight(S, top)
             new == {x} \X (1..x.tokens)
  <1>0. x.tokens \in Nat /\ x.tokens \in Int /\ top \in Int /\ 1 \in Int
    OBVIOUS
  <1>1. IsFiniteSet(1..top) /\ IsFiniteSet(1..x.tokens) /\ Cardinality(1..x.tokens) = x.tokens
    <2>1. Cardinality(1..x.tokens) = IF 1 > x.tokens THEN 0 ELSE x.tokens - 1 + 1
      BY <1>0, FS_Interval
    <2> QED
      BY <1>0, <2>1, FS_Interval
  <1>2. IsFiniteSet({x}) /\ Cardinality({x}) = 1
    BY FS_Singleton
  <1>3. IsFiniteSet(new) /\ Cardinality(new) = x.tokens
    <2>1. IsFiniteSet(new) /\ Cardinality(new) = Cardinality({x}) * Cardinality(1..x.tokens)
      BY <1>1, <1>2, FS_Product
    <2>2. \A k \in Nat : 1 * k = k
      OBVIOUS
    <2> QED
      BY <1>0, <1>1, <1>2, <2>1, <2>2
  <1>4. IsFiniteSet(old)
    <2>1. IsFiniteSet(S \X (1..top)) /\ old \in SUBSET (S \X (1..top))
      BY <1>1, FS_Product DEF Weight
    <2> QED
      BY <2>1, FS_Subset
  <1>5. Weight(S \cup {x}, top) = old \cup new /\ old \cap new = {}
    BY DEF Weight
  <1>6. Cardinality(old \cup new) = Cardinality(old) + Cardinality(new) - 0
    BY <1>3, <1>4, <1>5, FS_Union, FS_EmptySet
  <1>7. Cardinality(old) \in Nat
    BY <1>4, FS_CardinalityType
  <1>8. \A k, l \in Nat : k + l - 0 = k + l
    OBVIOUS
  <1> HIDE DEF old, new
  <1>9. Cardinality(old \cup new) = Cardinality(old) + x.tokens
    BY <1>0, <1>3, <1>6, <1>7, <1>8
  <1> QED
    BY <1>5, <1>7, <1>9 DEF old

LEMMA TotalIsWeight ==
  ASSUME NEW S, IsFiniteSet(S), NEW top \in Nat, \A m \in S : m.tokens \in 0..top
  PROVE  Total(S) = Cardinality(Weight(S, top))
  <1> DEFINE g == CHOOSE g : Adds(g, S)
             w == [s \in SUBSET S |-> Cardinality(Weight(s, top))]
  <1>1. Total(S) = g[S]
    BY DEF Total, FoldSet, MapThenFoldSet, Adds, One
  <1>2. \A s \in SUBSET S : s # {} =>
          /\ One(s) \in s /\ s \ {One(s)} \in SUBSET S
          /\ w[s] = w[s \ {One(s)}] + One(s).tokens
    <2> SUFFICES ASSUME NEW s \in SUBSET S, s # {}
                 PROVE  /\ One(s) \in s /\ s \ {One(s)} \in SUBSET S
                        /\ w[s] = w[s \ {One(s)}] + One(s).tokens
      OBVIOUS
    <2>1. One(s) \in s
      BY DEF One
    <2> DEFINE x == One(s)
               t == s \ {x}
    <2>2. t \in SUBSET S /\ s = t \cup {x} /\ x \notin t /\ x.tokens \in 0..top
      BY <2>1
    <2>3. IsFiniteSet(t)
      BY <2>2, FS_Subset
    <2> HIDE DEF x, t
    <2>4. Cardinality(Weight(t \cup {x}, top)) = Cardinality(Weight(t, top)) + x.tokens
      BY <2>2, <2>3, WeightOfMore
    <2>5. w[s] = w[t] + x.tokens
      BY <2>2, <2>4
    <2> QED
      BY <2>1, <2>2, <2>5 DEF x, t
  <1>3. w[{}] = 0
    <2>1. Weight({}, top) = {}
      BY DEF Weight
    <2> QED
      BY <2>1, FS_EmptySet
  <1>4. Adds(w, S)
    <2>1. \A s \in SUBSET S : w[s] = IF s = {} THEN 0 ELSE w[s \ {One(s)}] + One(s).tokens
      BY <1>2, <1>3
    <2>2. w = [s \in SUBSET S |-> w[s]]
      OBVIOUS
    <2> HIDE DEF w
    <2> QED
      BY <2>1, <2>2 DEF Adds
  <1>5. Adds(g, S)
    BY <1>4
  <1> DEFINE Bad == {s \in SUBSET S : g[s] # w[s]}
  <1>6. CASE Bad # {}
    <2>1. Bad \subseteq FiniteSubsetsOf(S)
      BY FS_Subset DEF FiniteSubsetsOf
    <2>2. PICK s \in Bad : \A t \in Bad : <<t, s>> \notin StrictSubsetOrdering(S)
      BY <1>6, <2>1, FS_StrictSubsetOrderingWellFounded, WFMin
    <2>3. g[s] = IF s = {} THEN 0 ELSE g[s \ {One(s)}] + One(s).tokens
      BY <1>5 DEF Adds
    <2>4. s # {}
      BY <1>3, <2>3
    <2>5. /\ One(s) \in s /\ s \ {One(s)} \in SUBSET S /\ s \in SUBSET S
          /\ w[s] = w[s \ {One(s)}] + One(s).tokens
      BY <1>2, <2>4
    <2>6. <<s \ {One(s)}, s>> \in StrictSubsetOrdering(S)
      BY <2>5 DEF StrictSubsetOrdering
    <2>7. g[s \ {One(s)}] = w[s \ {One(s)}]
      BY <2>2, <2>5, <2>6
    <2> QED
      BY <2>3, <2>4, <2>5, <2>7
  <1>7. CASE Bad = {}
    <2>1. S \in SUBSET S
      OBVIOUS
    <2>2. g[S] = w[S]
      BY <1>7, <2>1
    <2> QED
      BY <1>1, <2>1, <2>2
  <1> QED
    BY <1>6, <1>7

LEMMA TotalOfMore ==
  ASSUME NEW S, IsFiniteSet(S), NEW top \in Nat, \A m \in S : m.tokens \in 0..top,
         NEW x, x \notin S, x.tokens \in 0..top
  PROVE  Total(S) \in Nat /\ Total(S \cup {x}) = Total(S) + x.tokens
  <1>1. IsFiniteSet(S \cup {x}) /\ \A m \in S \cup {x} : m.tokens \in 0..top
    BY FS_AddElement
  <1>2. Total(S) = Cardinality(Weight(S, top)) /\ Total(S \cup {x}) = Cardinality(Weight(S \cup {x}, top))
    BY <1>1, TotalIsWeight
  <1> QED
    BY <1>2, WeightOfMore

LEMMA TotalOfFewer ==
  ASSUME NEW S, IsFiniteSet(S), NEW top \in Nat, \A m \in S : m.tokens \in 0..top,
         NEW T \in SUBSET S
  PROVE  Total(T) \in Nat /\ Total(T) <= Total(S)
  <1>1. IsFiniteSet(T) /\ \A m \in T : m.tokens \in 0..top
    BY FS_Subset
  <1>2. Total(S) = Cardinality(Weight(S, top)) /\ Total(T) = Cardinality(Weight(T, top))
    BY <1>1, TotalIsWeight
  <1>3. IsFiniteSet(Weight(S, top))
    <2>1. IsFiniteSet(1..top)
      BY FS_Interval
    <2>2. IsFiniteSet(S \X (1..top)) /\ Weight(S, top) \in SUBSET (S \X (1..top))
      BY <2>1, FS_Product DEF Weight
    <2> QED
      BY <2>2, FS_Subset
  <1>4. Weight(T, top) \in SUBSET Weight(S, top)
    BY DEF Weight
  <1> QED
    BY <1>2, <1>3, <1>4, FS_Subset, FS_CardinalityType

-----------------------------------------------------------------------------
(* The budget of the day.  What a request may still cost when it ends is     *)
(* set aside as long as it is at work.                                      *)
AtWork == {q \in Requests : Going(q)}

Cheap(r) ==
  /\ r.pc \in {"agent", "context"} => r.tokens = 0
  /\ r.pc \in {"question", "answer"} => r.tokens <= MapCost
  /\ r.pc = "direct" => r.tokens <= MapCost + 1
  /\ r.pc \in {"model", "tools", "final"} => r.tokens <= r.iter
  /\ r.pc = "done" => r.tokens <= MaxIter + 1

Priced ==
  /\ IsFiniteSet(rows)
  /\ \A m \in Answers : m.tokens \in 0..TurnCost
  /\ \A q \in Requests : Cheap(req[q])

SetAside ==
  DayLimit # 0 =>
    Usage + TurnCost * Cardinality(AtWork) < DayLimit + TurnCost * Cardinality(Requests)

LEMMA CostOfATurn ==
  TurnCost \in Nat /\ TurnCost >= MapCost + 1 /\ TurnCost >= MaxIter + 1
  <1>1. MaxIter \in Nat /\ MapCost \in Nat
    BY ChatTurnAssumption
  <1> DEFINE i == MaxIter + 1
             j == MapCost + 1
  <1>2. i \in Int /\ i \in Nat /\ j \in Int /\ j \in Nat
    BY <1>1
  <1> HIDE DEF i, j
  <1>3. Max({i, j}) \in {i, j} /\ Max({i, j}) >= i /\ Max({i, j}) >= j
    BY <1>2, LesserAndGreater
  <1> QED
    BY <1>2, <1>3 DEF TurnCost, i, j

LEMMA EndIsCheap ==
  ASSUME NEW r \in Request, Cheap(r), r.pc \in {"direct", "done"}
  PROVE  r.tokens \in 0..TurnCost
  <1>1. r.tokens \in Nat /\ MaxIter \in Nat /\ MapCost \in Nat
    BY ChatTurnAssumption DEF Request
  <1> QED
    BY <1>1, CostOfATurn DEF Cheap

(* A step of a request may cost a model call, and then its place allows for it. *)
LEMMA StepsAreCheap ==
  ASSUME NEW q \in Requests, req \in [Requests -> Request], Sound(req[q]), Cheap(req[q]),
         Context(q) \/ Question(q) \/ Answer(q) \/ StartAgent(q) \/ Model(q) \/ Tool(q)
           \/ EndTools(q) \/ Final(q) \/ FallBack(q)
  PROVE  Cheap(req'[q]) /\ \A o \in Requests \ {q} : req'[o] = req[o]
  <1> DEFINE r == req[q]
  <1>0. /\ r.tokens \in Nat /\ r.iter \in Nat /\ MaxIter \in Nat /\ MapCost \in Nat /\ r \in Request
        /\ r.pc \in {"model", "tools"} => r.iter < MaxIter
        /\ r.iter <= MaxIter /\ (r.pc = "agent" => r.iter = 0)
    BY ChatTurnAssumption DEF Request, Sound, Rounds
  <1>1. ASSUME NEW e, Set(q, e), Cheap(e)
        PROVE  Cheap(req'[q]) /\ \A o \in Requests \ {q} : req'[o] = req[o]
    BY <1>1 DEF Set
  <1>2. Cheap(Idle)
    BY DEF Idle, Cheap
  <1>3. CASE Failed(q)
    BY <1>1, <1>2, <1>3 DEF Failed
  <1>4. CASE Context(q)
    <2>1. ASSUME NEW n \in 0..MapCost, Set(q, [r EXCEPT !.pc = "question", !.tokens = n])
          PROVE  Cheap([r EXCEPT !.pc = "question", !.tokens = n])
      BY <1>0 DEF Cheap, Request
    <2> QED
      BY <1>1, <1>3, <1>4, <2>1 DEF Context
  <1>5. CASE Question(q)
    <2> DEFINE s == [r EXCEPT !.pc = "answer"]
               e == [s EXCEPT !.mine = @ \cup {UserRow(s, Cardinality(s.mine) + 1)}]
    <2>1. r.pc = "question" /\ (Set(q, e) \/ Failed(q))
      BY <1>5 DEF Question, Add, At
    <2>2. e.pc = "answer" /\ e.tokens = r.tokens
      BY <1>0 DEF Request
    <2> HIDE DEF e
    <2>3. Cheap(e)
      BY <2>1, <2>2 DEF Cheap
    <2> QED
      BY <1>1, <1>3, <2>1, <2>3
  <1>6. CASE StartAgent(q)
    <2> DEFINE s == [r EXCEPT !.pc = "model"]
               e == [s EXCEPT !.mine = @ \cup {UserRow(s, Cardinality(s.mine) + 1)}]
    <2>1. r.pc = "agent" /\ (Set(q, e) \/ Failed(q))
      BY <1>6 DEF StartAgent, Add, At
    <2>2. e.pc = "model" /\ e.tokens = r.tokens /\ e.iter = r.iter
      BY <1>0 DEF Request
    <2> HIDE DEF e
    <2>3. Cheap(e)
      BY <1>0, <2>1, <2>2 DEF Cheap
    <2> QED
      BY <1>1, <1>3, <2>1, <2>3
  <1>7. CASE Answer(q)
    <2> DEFINE e == [r EXCEPT !.tokens = @ + 1, !.pc = "direct"]
    <2>1. r.pc = "answer" /\ (Set(q, e) \/ Failed(q))
      BY <1>7 DEF Answer, At
    <2>2. e.pc = "direct" /\ e.tokens = r.tokens + 1
      BY <1>0 DEF Request
    <2> HIDE DEF e
    <2>3. Cheap(e)
      BY <1>0, <2>1, <2>2 DEF Cheap
    <2> QED
      BY <1>1, <1>3, <2>1, <2>3
  <1>8. CASE Model(q)
    <2> DEFINE s == [r EXCEPT !.iter = @ + 1, !.tokens = @ + 1]
    <2>1. r.pc = "model" /\ r.tokens <= r.iter
      BY <1>8 DEF Model, At, Cheap
    <2>2. s.iter = r.iter + 1 /\ s.tokens = r.tokens + 1 /\ DOMAIN s = DOMAIN r /\ "pc" \in DOMAIN s
      BY <1>0 DEF Request
    <2>3. ASSUME NEW p \in {"done", "final"}, Set(q, [s EXCEPT !.pc = p])
          PROVE  Cheap([s EXCEPT !.pc = p])
      <3> DEFINE e == [s EXCEPT !.pc = p]
      <3>1. e.pc = p /\ e.tokens = s.tokens /\ e.iter = s.iter
        BY <1>0 DEF Request
      <3> HIDE DEF e, s
      <3>2. Cheap(e)
        BY <1>0, <2>1, <2>2, <3>1 DEF Cheap
      <3> QED
        BY <3>2 DEF e
    <2>4. ASSUME NEW calls, Set(q, [s EXCEPT !.pc = "tools", !.todo = calls, !.prompt = @ \o calls])
          PROVE  Cheap([s EXCEPT !.pc = "tools", !.todo = calls, !.prompt = @ \o calls])
      <3> DEFINE e == [s EXCEPT !.pc = "tools", !.todo = calls, !.prompt = @ \o calls]
      <3>1. e.pc = "tools" /\ e.tokens = s.tokens /\ e.iter = s.iter
        BY <1>0 DEF Request
      <3> HIDE DEF e, s
      <3>2. Cheap(e)
        BY <1>0, <2>1, <2>2, <3>1 DEF Cheap
      <3> QED
        BY <3>2 DEF e
    <2> HIDE DEF s
    <2>5. \/ \E p \in {"done", "final"} : Set(q, [s EXCEPT !.pc = p])
          \/ \E calls : Set(q, [s EXCEPT !.pc = "tools", !.todo = calls, !.prompt = @ \o calls])
      BY <1>8 DEF Model, s
    <2> QED
      BY <1>1, <2>3, <2>4, <2>5
  <1>9. CASE Tool(q)
    <2>1. PICK length \in Lengths, wrote \in BOOLEAN, broken \in BOOLEAN :
            Set(q, AfterResult(r, length, wrote, broken))
      BY <1>9 DEF Tool, AfterResult
    <2> DEFINE e == AfterResult(r, length, wrote, broken)
    <2>2. e.pc = r.pc /\ e.tokens = r.tokens /\ e.iter = r.iter
      BY <1>0 DEF Request, AfterResult
    <2>3. Cheap(e)
      BY <2>2 DEF Cheap
    <2> QED
      BY <1>1, <2>1, <2>3
  <1>10. CASE EndTools(q)
    <2> DEFINE e == [r EXCEPT !.pc = "model", !.todo = <<>>, !.prompt = @ \o Skipped(r.todo)]
    <2>1. r.pc = "tools" /\ Set(q, e)
      BY <1>10 DEF EndTools, At
    <2>2. e.pc = "model" /\ e.tokens = r.tokens /\ e.iter = r.iter
      BY <1>0 DEF Request
    <2> HIDE DEF e
    <2>3. Cheap(e)
      BY <2>1, <2>2 DEF Cheap
    <2> QED
      BY <1>1, <2>1, <2>3
  <1>11. CASE Final(q)
    <2> DEFINE e == [r EXCEPT !.pc = "done", !.tokens = @ + 1]
    <2>1. r.pc = "final" /\ Set(q, e)
      BY <1>11 DEF Final, At
    <2>2. e.pc = "done" /\ e.tokens = r.tokens + 1
      BY <1>0 DEF Request
    <2> HIDE DEF e
    <2>3. Cheap(e)
      BY <1>0, <2>1, <2>2 DEF Cheap
    <2> QED
      BY <1>1, <2>1, <2>3
  <1>12. CASE FallBack(q)
    <2>1. Resumed(r).pc = "context" /\ Resumed(r).tokens = 0
      BY DEF Resumed, Idle
    <2>2. Cheap(Resumed(r))
      BY <2>1 DEF Cheap
    <2> QED
      BY <1>1, <1>12, <2>2 DEF FallBack
  <1> QED
    BY <1>4, <1>5, <1>6, <1>7, <1>8, <1>9, <1>10, <1>11, <1>12

(* What happens to the answers, as far as their sum goes: some are lost, or  *)
(* one is replaced by another that has cost the same, or a turn adds its own. *)
Fewer == Answers' \subseteq Answers

Replaced ==
  \E a, b : /\ a \in Answers /\ b \notin Answers /\ b.tokens = a.tokens
            /\ Answers' = (Answers \ {a}) \cup {b}

Added(q) ==
  /\ req[q].tokens \in 0..TurnCost
  /\ \E a : a \notin Answers /\ a.tokens = req[q].tokens /\ Answers' = Answers \cup {a}
  /\ AtWork' = AtWork \ {q} /\ q \in AtWork

LEMMA EditReplaces ==
  ASSUME Inv, NEW a, NEW b, Edited(a, b)
  PROVE  Fewer \/ Replaced
  <1>1. a \in Answers /\ IsReply(b) /\ Answers' = (Answers \ {a}) \cup {b}
    <2>1. IsReply(b)
      BY ReplyFields DEF Edited
    <2> QED
      BY <2>1 DEF Edited, Answers, IsReply
  <1>2. CASE b \in Answers
    <2>1. b = a
      BY <1>1, <1>2 DEF Edited, Inv, Whole, Answers, IsReply
    <2> QED
      BY <1>1, <2>1 DEF Fewer
  <1>3. CASE b \notin Answers
    BY <1>1, <1>3 DEF Edited, Replaced
  <1> QED
    BY <1>2, <1>3

LEMMA CommitAdds ==
  ASSUME Inv, Priced, NEW q \in Requests, NEW mode \in {"agent", "direct"}, Commit(q, mode),
         req[q].pc = IF mode = "agent" THEN "done" ELSE "direct"
  PROVE  /\ Cheap(req'[q]) /\ \A o \in Requests \ {q} : req'[o] = req[o]
         /\ IsFiniteSet(rows')
         /\ (Fewer /\ AtWork' \subseteq AtWork) \/ Added(q)
  <1> DEFINE r == req[q]
             a == AnswerRow(r, mode)
  <1>1. r \in Request /\ Sound(r) /\ Cheap(r) /\ req \in [Requests -> Request]
    BY DEF Inv, Types, Sound, Priced
  <1>2. Set(q, Idle)
    BY DEF Commit, Failed
  <1>3. req'[q] = Idle /\ \A o \in Requests \ {q} : req'[o] = req[o]
    BY <1>1, <1>2 DEF Set
  <1>4. Idle.pc = "idle" /\ Cheap(Idle)
    BY DEF Idle, Cheap
  <1>5. AtWork' = AtWork \ {q} /\ q \in AtWork
    BY <1>3, <1>4 DEF AtWork, Going
  <1>6. CASE r.broken
    <2>1. rows' = rows
      BY <1>6 DEF Commit
    <2> QED
      BY <1>3, <1>4, <1>5, <2>1 DEF Fewer, Answers, Priced
  <1>7. CASE ~r.broken
    <2>1. rows' = rows \cup r.mine \cup {a}
      BY <1>7 DEF Commit
    <2>2. a.role = "assistant" /\ a.tokens = r.tokens /\ a.turn = r.turn
      BY DEF AnswerRow
    <2>3. \A m \in r.mine : m.role = "user"
      BY <1>1 DEF Request, Asking, Quest
    <2>4. IsFiniteSet(r.mine)
      <3>1. \E x, y : r.mine = {x} \/ r.mine = {x, y}
        BY <1>1 DEF Sound, Questions, Talks
      <3>2. PICK x, y : r.mine = {x} \/ r.mine = {x, y}
        BY <3>1
      <3>3. IsFiniteSet({x})
        BY FS_Singleton
      <3>4. IsFiniteSet({x} \cup {y}) /\ {x} \cup {y} = {x, y}
        BY <3>3, FS_AddElement
      <3>5. IsFiniteSet({x, y})
        BY <3>4
      <3> QED
        BY <3>2, <3>3, <3>5
    <2>5. a \notin rows
      BY <1>5, <2>2 DEF AtWork, Inv, Apart
    <2> HIDE DEF a
    <2>6. IsFiniteSet(rows')
      <3>1. IsFiniteSet(rows \cup r.mine)
        BY <2>4, FS_Union DEF Priced
      <3> QED
        BY <2>1, <3>1, FS_AddElement
    <2>7. Answers' = Answers \cup {a} /\ a \notin Answers
      BY <2>1, <2>2, <2>3, <2>5 DEF Answers
    <2>8. r.tokens \in 0..TurnCost
      BY <1>1, EndIsCheap
    <2> QED
      BY <1>3, <1>4, <1>5, <2>2, <2>6, <2>7, <2>8 DEF Added
  <1> QED
    BY <1>6, <1>7

(* Every step, as the budget of the day sees it. *)
LEMMA StepPays ==
  ASSUME Inv, Priced, [Next]_vars
  PROVE  /\ IsFiniteSet(rows') /\ \A q \in Requests : Cheap(req'[q])
         /\ \/ (Fewer \/ Replaced) /\ AtWork' \subseteq AtWork
            \/ ~Exceeded /\ Fewer
            \/ \E q \in Requests : Added(q)
  <1>0. req \in [Requests -> Request] /\ \A q \in Requests : Cheap(req[q]) /\ Sound(req[q])
    BY DEF Inv, Types, Priced
  <1>1. Idle.pc = "idle" /\ Cheap(Idle)
    BY DEF Idle, Cheap
  <1>2. CASE UNCHANGED vars
    BY <1>2 DEF vars, Priced, Fewer, Answers, AtWork, Going
  <1>3. ASSUME NEW q \in Requests,
               Context(q) \/ Question(q) \/ Answer(q) \/ StartAgent(q) \/ Model(q) \/ Tool(q)
                 \/ EndTools(q) \/ Final(q) \/ FallBack(q)
        PROVE  /\ IsFiniteSet(rows') /\ \A o \in Requests : Cheap(req'[o])
               /\ Fewer /\ AtWork' \subseteq AtWork
    <2>1. Cheap(req'[q]) /\ \A o \in Requests \ {q} : req'[o] = req[o]
      BY <1>0, <1>3, StepsAreCheap
    <2>2. Local(q)
      BY <1>0, <1>3, StepsAreLocal
    <2>3. rows' = rows /\ q \in AtWork
      BY <2>2 DEF Local, AtWork
    <2> QED
      BY <1>0, <2>1, <2>3 DEF Priced, Fewer, Answers, AtWork, Going
  <1>4. ASSUME NEW q \in Requests, EndDirect(q) \/ EndAgent(q)
        PROVE  /\ IsFiniteSet(rows') /\ \A o \in Requests : Cheap(req'[o])
               /\ (Fewer /\ AtWork' \subseteq AtWork) \/ Added(q)
    <2>1. \E mode \in {"agent", "direct"} :
            Commit(q, mode) /\ req[q].pc = IF mode = "agent" THEN "done" ELSE "direct"
      BY <1>4 DEF EndDirect, EndAgent, At
    <2>2. /\ Cheap(req'[q]) /\ \A o \in Requests \ {q} : req'[o] = req[o]
          /\ IsFiniteSet(rows')
          /\ (Fewer /\ AtWork' \subseteq AtWork) \/ Added(q)
      BY <2>1, CommitAdds
    <2> QED
      BY <1>0, <2>2
  <1>5. ASSUME NEW q \in Requests, NEW c \in Convs, Begin(q, c)
        PROVE  /\ IsFiniteSet(rows') /\ \A o \in Requests : Cheap(req'[o])
               /\ ~Exceeded /\ Fewer
    <2>1. rows' = rows /\ ~Exceeded
      BY <1>5 DEF Begin
    <2>2. PICK pc \in {"agent", "context"} :
            Set(q, [Idle EXCEPT !.pc = pc, !.conv = c, !.turn = asked + 1])
      BY <1>5 DEF Begin
    <2> DEFINE e == [Idle EXCEPT !.pc = pc, !.conv = c, !.turn = asked + 1]
    <2>3. e.pc = pc /\ e.tokens = 0
      BY DEF Idle
    <2> HIDE DEF e
    <2>4. Cheap(e)
      BY <2>3 DEF Cheap
    <2>5. req'[q] = e /\ \A o \in Requests \ {q} : req'[o] = req[o]
      BY <1>0, <2>2 DEF Set, e
    <2> QED
      BY <1>0, <2>1, <2>4, <2>5 DEF Priced, Fewer, Answers
  <1>6. CASE \E c \in Convs : Create(c) \/ Delete(c)
    <2>1. rows' \subseteq rows /\ req' = req
      BY <1>6 DEF Create, Delete
    <2> QED
      BY <1>0, <2>1, FS_Subset DEF Priced, Fewer, Answers, AtWork, Going
  <1>7. ASSUME NEW m \in Answers, NEW v \in Ratings \cup {0}, Rate(m, v)
        PROVE  /\ IsFiniteSet(rows') /\ req' = req
               /\ Fewer \/ Replaced
    <2> DEFINE b == [m EXCEPT !.rating = v]
    <2>1. m \in rows /\ IsReply(m) /\ m \in Replies
      <3>1. m \in rows /\ IsReply(m)
        BY DEF Answers, IsReply
      <3> QED
        BY <3>1, RowOf DEF Inv
    <2>2. b \in Replies /\ b.conv = m.conv /\ b.turn = m.turn /\ b.mode = m.mode /\ b.tokens = m.tokens
      BY <2>1 DEF Replies
    <2>3. rows' = (rows \ {m}) \cup {b} /\ req' = req
      BY <1>7 DEF Rate, Rated
    <2> HIDE DEF b
    <2>4. Edited(m, b)
      BY <2>1, <2>2, <2>3 DEF Edited
    <2>5. IsFiniteSet(rows')
      BY <2>3, FS_RemoveElement, FS_AddElement DEF Priced
    <2> QED
      BY <2>3, <2>4, <2>5, EditReplaces
  <1>8. ASSUME NEW t \in 1..MaxTurns, Judge(t) \/ WriteJudgement(t)
        PROVE  /\ IsFiniteSet(rows') /\ req' = req
               /\ Fewer \/ Replaced
    <2>1. req' = req
      BY <1>8 DEF Judge, WriteJudgement
    <2>2. CASE rows' = rows
      BY <2>1, <2>2 DEF Priced, Fewer, Answers
    <2>3. ASSUME NEW a, NEW b, Edited(a, b)
          PROVE  IsFiniteSet(rows') /\ (Fewer \/ Replaced)
      <3>1. IsFiniteSet(rows')
        BY <2>3, FS_RemoveElement, FS_AddElement DEF Priced, Edited
      <3> QED
        BY <2>3, <3>1, EditReplaces
    <2> QED
      BY <1>8, <2>1, <2>2, <2>3, JudgementEdits DEF Judge
  <1>9. CASE Crash
    <2>1. rows' = rows /\ req' = [q \in Requests |-> Idle]
      BY <1>9 DEF Crash
    <2> QED
      BY <1>1, <2>1 DEF Priced, Fewer, Answers, AtWork, Going
  <1>10. req' = req => (\A q \in Requests : Cheap(req'[q])) /\ AtWork' = AtWork
    BY <1>0 DEF AtWork, Going
  <1> QED
    BY <1>2, <1>3, <1>4, <1>5, <1>6, <1>7, <1>8, <1>9, <1>10 DEF Next, Step

(* The sum and the size of what is at work, in numbers. *)
LEMMA Sums ==
  ASSUME Priced
  PROVE  /\ IsFiniteSet(Answers) /\ Usage = Total(Answers) /\ Usage \in Nat
         /\ IsFiniteSet(AtWork) /\ Cardinality(AtWork) \in Nat
         /\ Cardinality(Requests) \in Nat /\ Cardinality(AtWork) <= Cardinality(Requests)
  <1>1. IsFiniteSet(Answers)
    BY FS_Subset DEF Priced, Answers
  <1>2. Usage = Total(Answers)
    BY DEF Usage, Total
  <1>3. Total(Answers) \in Nat
    BY <1>1, CostOfATurn, TotalOfFewer DEF Priced
  <1>4. AtWork \subseteq Requests /\ IsFiniteSet(Requests)
    BY ChatTurnAssumption DEF AtWork
  <1> QED
    BY <1>1, <1>2, <1>3, <1>4, FS_Subset, FS_CardinalityType

(* The answers stay priced, and their sum follows what happens to them. *)
LEMMA FewerIsCheaper ==
  ASSUME Priced, Fewer
  PROVE  (\A m \in Answers' : m.tokens \in 0..TurnCost) /\ Usage' \in Nat /\ Usage' <= Usage
  <1>1. Usage' = Total(Answers')
    BY DEF Usage, Total, FoldSet, MapThenFoldSet
  <1>2. Total(Answers') \in Nat /\ Total(Answers') <= Total(Answers)
    BY Sums, CostOfATurn, TotalOfFewer DEF Priced, Fewer
  <1> QED
    BY <1>1, <1>2, Sums DEF Priced, Fewer

LEMMA ReplacedCostsTheSame ==
  ASSUME Priced, Replaced
  PROVE  (\A m \in Answers' : m.tokens \in 0..TurnCost) /\ Usage' \in Nat /\ Usage' <= Usage
  <1>1. PICK a, b : /\ a \in Answers /\ b \notin Answers /\ b.tokens = a.tokens
                    /\ Answers' = (Answers \ {a}) \cup {b}
    BY DEF Replaced
  <1> DEFINE rest == Answers \ {a}
  <1>2. IsFiniteSet(rest) /\ \A m \in rest : m.tokens \in 0..TurnCost
    BY Sums, FS_RemoveElement DEF Priced
  <1>3. a.tokens \in 0..TurnCost /\ a \notin rest /\ b \notin rest /\ rest \cup {a} = Answers
    BY <1>1 DEF Priced
  <1> HIDE DEF rest
  <1>4. Total(rest) \in Nat /\ Total(rest \cup {a}) = Total(rest) + a.tokens
    BY <1>2, <1>3, CostOfATurn, TotalOfMore
  <1>5. Total(rest \cup {b}) = Total(rest) + b.tokens
    BY <1>1, <1>2, <1>3, CostOfATurn, TotalOfMore
  <1>6. Answers' = rest \cup {b}
    BY <1>1 DEF rest
  <1>7. Usage' = Total(Answers')
    BY DEF Usage, Total, FoldSet, MapThenFoldSet
  <1>8. Usage' = Usage
    BY <1>1, <1>3, <1>4, <1>5, <1>6, <1>7, Sums
  <1> QED
    BY <1>1, <1>8, Sums DEF Priced

LEMMA AddedCosts ==
  ASSUME Priced, NEW q \in Requests, Added(q)
  PROVE  /\ \A m \in Answers' : m.tokens \in 0..TurnCost
         /\ Usage' \in Nat /\ Usage' <= Usage + TurnCost
         /\ Cardinality(AtWork') \in Nat /\ Cardinality(AtWork) = Cardinality(AtWork') + 1
  <1>1. PICK a : a \notin Answers /\ a.tokens = req[q].tokens /\ Answers' = Answers \cup {a}
    BY DEF Added
  <1>2. a.tokens \in 0..TurnCost
    BY <1>1 DEF Added
  <1>3. Total(Answers) \in Nat /\ Total(Answers \cup {a}) = Total(Answers) + a.tokens
    BY <1>1, <1>2, Sums, CostOfATurn, TotalOfMore DEF Priced
  <1>4. Usage' = Total(Answers')
    BY DEF Usage, Total, FoldSet, MapThenFoldSet
  <1>5. Usage' \in Nat /\ Usage' <= Usage + TurnCost
    BY <1>1, <1>2, <1>3, <1>4, Sums, CostOfATurn
  <1>6. AtWork' = AtWork \ {q} /\ q \in AtWork
    BY DEF Added
  <1>7. IsFiniteSet(AtWork') /\ Cardinality(AtWork') = Cardinality(AtWork) - 1
    BY <1>6, Sums, FS_RemoveElement
  <1>8. Cardinality(AtWork') \in Nat
    BY <1>7, FS_CardinalityType
  <1> QED
    BY <1>1, <1>2, <1>5, <1>7, <1>8, Sums DEF Priced

(* A turn begins only below the limit; one that ends spends what was set aside. *)
LEMMA BillIsKept ==
  ASSUME Inv, Priced, SetAside, [Next]_vars
  PROVE  Priced' /\ SetAside'
  <1>1. /\ IsFiniteSet(rows') /\ \A q \in Requests : Cheap(req'[q])
        /\ \/ (Fewer \/ Replaced) /\ AtWork' \subseteq AtWork
           \/ ~Exceeded /\ Fewer
           \/ \E q \in Requests : Added(q)
    BY StepPays
  <1> DEFINE spent == Usage
             after == Usage'
             k == Cardinality(AtWork)
             l == Cardinality(AtWork')
             n == Cardinality(Requests)
             SpentLess == /\ \A m \in Answers' : m.tokens \in 0..TurnCost
                          /\ after \in Nat /\ after <= spent
  <1>2. spent \in Nat /\ k \in Nat /\ n \in Nat /\ DayLimit \in Nat /\ TurnCost \in Nat
    BY Sums, CostOfATurn, ChatTurnAssumption
  <1>3. Fewer \/ Replaced => SpentLess
    BY FewerIsCheaper, ReplacedCostsTheSame
  <1>4. l \in Nat /\ l <= n
    <2>1. AtWork' \subseteq Requests /\ IsFiniteSet(Requests)
      BY ChatTurnAssumption DEF AtWork
    <2> QED
      BY <2>1, FS_Subset, FS_CardinalityType
  <1>5. DayLimit # 0 => spent + TurnCost * k < DayLimit + TurnCost * n
    BY DEF SetAside
  <1>6. \A c, g, h \in Nat : g <= h => c * g \in Nat /\ c * h \in Nat /\ c * g <= c * h
    OBVIOUS
  <1>7. \A c, g \in Nat : c * (g + 1) = c * g + c /\ c * g \in Nat
    OBVIOUS
  <1>8. CASE (Fewer \/ Replaced) /\ AtWork' \subseteq AtWork
    <2>1. SpentLess
      BY <1>3, <1>8
    <2>2. l <= k
      BY <1>8, Sums, FS_Subset
    <2>3. TurnCost * l \in Nat /\ TurnCost * k \in Nat /\ TurnCost * n \in Nat /\ TurnCost * l <= TurnCost * k
      BY <1>2, <1>4, <1>6, <2>2
    <2> HIDE DEF spent, after, k, l, n
    <2>4. DayLimit # 0 => after + TurnCost * l < DayLimit + TurnCost * n
      BY <1>2, <1>5, <2>1, <2>3
    <2> QED
      BY <1>1, <2>1, <2>4 DEF Priced, SetAside, spent, after, k, l, n
  <1>9. CASE ~Exceeded /\ Fewer
    <2>1. SpentLess
      BY <1>3, <1>9
    <2>2. DayLimit # 0 => spent < DayLimit
      BY <1>2, <1>9 DEF Exceeded
    <2>3. TurnCost * l \in Nat /\ TurnCost * n \in Nat /\ TurnCost * l <= TurnCost * n
      BY <1>2, <1>4, <1>6
    <2> HIDE DEF spent, after, k, l, n
    <2>4. DayLimit # 0 => after + TurnCost * l < DayLimit + TurnCost * n
      BY <1>2, <2>1, <2>2, <2>3
    <2> QED
      BY <1>1, <2>1, <2>4 DEF Priced, SetAside, spent, after, k, l, n
  <1>10. ASSUME NEW q \in Requests, Added(q)
         PROVE  Priced' /\ SetAside'
    <2>1. /\ \A m \in Answers' : m.tokens \in 0..TurnCost
          /\ after \in Nat /\ after <= spent + TurnCost
          /\ l \in Nat /\ k = l + 1
      BY <1>10, AddedCosts
    <2>2. TurnCost * k = TurnCost * l + TurnCost /\ TurnCost * l \in Nat /\ TurnCost * n \in Nat
      BY <1>2, <1>7, <2>1
    <2> HIDE DEF spent, after, k, l, n
    <2>3. DayLimit # 0 => after + TurnCost * l < DayLimit + TurnCost * n
      BY <1>2, <1>5, <2>1, <2>2
    <2> QED
      BY <1>1, <2>1, <2>3 DEF Priced, SetAside, spent, after, k, l, n
  <1> QED
    BY <1>1, <1>8, <1>9, <1>10

LEMMA BillOfNothing ==
  ASSUME Init
  PROVE  Priced /\ SetAside
  <1>1. Answers = {} /\ rows = {} /\ AtWork = {}
    BY DEF Init, Answers, AtWork, Going, Idle
  <1>2. Priced
    <2>1. \A q \in Requests : req[q] = Idle
      BY DEF Init
    <2>2. Cheap(Idle)
      BY DEF Cheap, Idle
    <2> QED
      BY <1>1, <2>1, <2>2, FS_EmptySet DEF Priced
  <1>3. Total({}) = 0
    <2>1. IsFiniteSet({}) /\ Weight({}, 0) = {} /\ \A m \in {} : m.tokens \in 0..0
      BY FS_EmptySet DEF Weight
    <2>2. Total({}) = Cardinality(Weight({}, 0))
      BY <2>1, TotalIsWeight
    <2> QED
      BY <2>1, <2>2, FS_EmptySet
  <1>4. Usage = 0 /\ Cardinality(AtWork) = 0
    BY <1>1, <1>3, FS_EmptySet DEF Usage, Total
  <1>5. \A c, n, d \in Nat : d # 0 => 0 + c * 0 < d + c * n
    OBVIOUS
  <1>6. Cardinality(Requests) \in Nat /\ DayLimit \in Nat /\ TurnCost \in Nat
    BY <1>2, Sums, CostOfATurn, ChatTurnAssumption
  <1> QED
    BY <1>2, <1>4, <1>5, <1>6 DEF SetAside

(* The answers of a day cost less than the limit and what the requests that  *)
(* can be at work together may still cost: the check comes before a turn and *)
(* the rows only after it (check_budget, usage_today).  And a turn's results *)
(* keep within the prompt's budget.                                         *)
THEOREM SpendingStaysBounded == Spec => []SpendingIsBounded
  <1>1. Init => Inv /\ Priced /\ SetAside
    BY InvStart, BillOfNothing
  <1>2. Inv /\ Priced /\ SetAside /\ [Next]_vars => Priced' /\ SetAside'
    BY BillIsKept
  <1>3. Inv /\ Priced /\ SetAside => SpendingIsBounded
    <2> SUFFICES ASSUME Inv, Priced, SetAside, DayLimit # 0
                 PROVE  ResultsWithinBudget /\ DayWithinBudget
      BY DEF SpendingIsBounded, DayWithinBudget, Inv, Sound, Rounds, ResultsWithinBudget
    <2>1. ResultsWithinBudget
      BY DEF Inv, Sound, Rounds, ResultsWithinBudget
    <2>2. \A u, c, k, d \in Nat : u + c * k < d => u < d
      <3>1. \A c, k \in Nat : c * k \in Nat
        OBVIOUS
      <3> QED
        BY <3>1
    <2>3. /\ Usage \in Nat /\ TurnCost \in Nat /\ Cardinality(AtWork) \in Nat
          /\ DayLimit + TurnCost * Cardinality(Requests) \in Nat
      <3>1. \A c, k, d \in Nat : d + c * k \in Nat
        OBVIOUS
      <3> QED
        BY <3>1, Sums, CostOfATurn, ChatTurnAssumption
    <2>4. Usage < DayLimit + TurnCost * Cardinality(Requests)
      BY <2>2, <2>3 DEF SetAside
    <2> QED
      BY <2>1, <2>4 DEF DayWithinBudget, Usage
  <1> QED
    BY <1>1, <1>2, <1>3, Invariance, PTL DEF Spec
=============================================================================
