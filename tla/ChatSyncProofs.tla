----------------------------- MODULE ChatSyncProofs -----------------------------
(***************************************************************************)
(* What holds of ChatSync for any number of jobs at the same time, any      *)
(* history, any budget and size of a batch, and whatever is posted, deleted *)
(* or cut short.                                                           *)
(*                                                                         *)
(* As long as there were no two first syncs at once, the invariant says     *)
(* where the message i may be that is in Telegram and not in the table:      *)
(* below the marks and the place that each job has come to, above           *)
(* everything that was seen, or in the gap that a pull of new messages is    *)
(* on its way through.                                                     *)
(***************************************************************************)
EXTENDS ChatSync, FiniteSetTheorems, TLAPS

Busy(r) == r.pc \in {"connect", "pull", "read", "write", "finish"}
Pulling(r) == r.pc \in {"pull", "read", "write"}

(* What the place of a job says of its other variables. *)
Shape(r) ==
  /\ r.newest = None <=> r.oldest = None
  /\ r.fetched <= r.budget
  /\ r.pc = "connect" => /\ ~r.old /\ r.newest = None /\ r.budget = Budget /\ r.fetched = 0
                         /\ ~r.last /\ ~r.done
  /\ r.done => r.old /\ r.last
  /\ r.pc = "pull" => ~r.last /\ ~r.done
  /\ r.from = None => r.above = None /\ (r.pc = "finish" => r.old)
  /\ r.from # None /\ r.above = None => r.from = 1 /\ ~Pulling(r)
  /\ r.pc = "finish" /\ ~r.old /\ r.fetched < r.budget => r.from = 1
  /\ r.old /\ (r.pc = "finish" \/ (r.pc # "pull" /\ r.last)) => (r.done <=> r.fetched < r.budget)
  /\ r.pc = "write" => r.newMax \in {None, r.newest} /\ r.newMin \in {None, r.oldest}

(* Where its cursor is: what it has pulled reaches down to it. *)
Placed(r) ==
  /\ Pulling(r) /\ ~r.old =>
       /\ r.above # None
       /\ r.newest = None => r.cursor = MaxId + 1
       /\ r.newest # None => r.oldest = r.cursor /\ r.cursor <= r.newest /\ r.above < r.cursor
  /\ r.old /\ r.from = None =>
       /\ r.newest = None => r.cursor = MaxId + 1
       /\ r.newest # None => r.oldest = r.cursor /\ r.cursor <= r.newest
  /\ r.old /\ r.from # None =>
       /\ r.above # None /\ r.from > 1 /\ r.cursor <= r.from
       /\ r.oldest # None => r.oldest = r.cursor \/ r.oldest > r.above
       /\ r.newest # None => r.newest > r.above \/ r.newest < r.from

(* No message is newer than the newest one. *)
Topped(r) ==
  r.saw <= top /\ \A v \in {r.newest, r.above} : v # None => v <= top

Tops ==
  /\ \A i \in tg : i <= top
  /\ \A v \in {smax, base} : v # None => v <= top
  /\ \A j \in Jobs : Busy(job[j]) => Topped(job[j])

Marks ==
  /\ smax = None <=> base = None
  /\ base = None => smin \in {None, 1}
  /\ base # None => smin # None /\ smin <= base /\ base <= smax

OneFirst == \A j, k \in Jobs : First(j) /\ First(k) => j = k

(* What a job knows of the marks, and what it is about to make of them. *)
Reads(r) ==
  /\ r.from = None =>
       /\ base = None => smin = None
       /\ base # None => r.newest = base
       /\ base = None /\ r.newest # None =>
            /\ r.pc \in {"read", "write"}
            /\ r.pc = "write" => r.newMax = r.newest /\ r.newMin = r.oldest
  /\ r.from # None /\ r.above = None => base = None /\ smin # None
  /\ r.from # None /\ r.above # None => base # None /\ r.from <= base /\ base <= r.above
  /\ r.pc = "write" /\ base # None =>
       /\ r.newMax # None => base <= r.newMax
       /\ r.newMin # None => r.newMin <= base

(* Where a missing message i is, as the marks and the job r know.           *)
Outside(i) == smin # None /\ base # None => i < smin \/ base < i

Apart(i, r) ==
  /\ r.from # None /\ r.above # None => i < r.from \/ base < i
  /\ r.old /\ r.from # None => i < r.cursor \/ base < i
  /\ r.pc = "write" /\ r.newMin # None /\ base # None => i < r.newMin \/ base < i
  /\ r.done /\ base # None => base < i
  /\ r.newest # None /\ (r.from = None \/ (~r.old /\ Pulling(r))) =>
       i < r.cursor \/ (r.newest < i /\ r.saw < i)
  /\ r.from = None /\ r.done => r.saw < i /\ (r.newest # None => r.newest < i)
  /\ ~r.old /\ r.pc \in {"read", "write"} /\ r.last /\ r.fetched < r.budget =>
       i <= r.above \/ (r.saw < i /\ (r.newest # None => r.newest < i))
  /\ r.above # None /\ (r.old \/ r.pc = "finish") /\ ~torn => i <= r.above \/ r.saw < i

(* Some pull of new messages is on its way to i. *)
InGap(r, i) == Pulling(r) /\ ~r.old /\ r.newest # None /\ r.above < i /\ i < r.cursor
Owed(i) == \E k \in Jobs : InGap(job[k], i)

(* Above base and not owed, i is newer than all that was ever marked. *)
Over(r, i) == (r.above # None => r.above < i) /\ (r.newest # None => r.newest < i)
Newer(i) == smax < i /\ \A k \in Jobs : Busy(job[k]) => Over(job[k], i)

Missed(i) ==
  /\ Outside(i)
  /\ \A j \in Jobs : Busy(job[j]) => Apart(i, job[j])
  /\ ~torn /\ base # None /\ base < i => Owed(i) \/ Newer(i)

Kept ==
  /\ \A j \in Jobs : Busy(job[j]) => Shape(job[j]) /\ Placed(job[j]) /\ Reads(job[j])
  /\ Tops /\ Marks /\ OneFirst
  /\ \A i \in Missing : Missed(i)

Inv == TypeOK /\ (~split => Kept)

-----------------------------------------------------------------------------
(* The least and the greatest element of a bounded set.                    *)
LEMMA LeastOf ==
  ASSUME NEW n \in Nat, NEW K \in SUBSET (1..n), K # {}
  PROVE  MinOf(K) \in K /\ \A y \in K : MinOf(K) <= y
  <1> DEFINE Down(x) == {y \in K : y <= x}
             T == {Down(x) : x \in K}
  <1>0. IsFiniteSet(K)
    <2>1. IsFiniteSet(1..n)
      BY FS_Interval
    <2> QED
      BY <2>1, FS_Subset
  <1>1. T \subseteq FiniteSubsetsOf(K) /\ T # {}
    <2>1. \A x \in K : Down(x) \subseteq K
      OBVIOUS
    <2>2. \A x \in K : IsFiniteSet(Down(x))
      BY <1>0, <2>1, FS_Subset
    <2> QED
      BY <2>1, <2>2 DEF FiniteSubsetsOf
  <1>2. \E D \in T : \A E \in T : <<E, D>> \notin StrictSubsetOrdering(K)
    BY <1>0, <1>1, FS_StrictSubsetOrderingWellFounded, WFMin
  <1>3. PICK x \in K : \A E \in T : <<E, Down(x)>> \notin StrictSubsetOrdering(K)
    BY <1>2
  <1>4. ASSUME NEW y \in K, y < x
        PROVE  FALSE
    <2>0. K \subseteq Int /\ x \in Int /\ y \in Int
      OBVIOUS
    <2>1. Down(y) \in T
      OBVIOUS
    <2>2. Down(y) \subseteq Down(x)
      <3> SUFFICES ASSUME NEW z \in K, z <= y
                   PROVE  z <= x
        OBVIOUS
      <3>1. z \in Int
        BY <2>0
      <3> QED
        BY <1>4, <2>0, <3>1
    <2>3. x \in Down(x) /\ x \notin Down(y)
      BY <1>4, <2>0
    <2> HIDE DEF Down
    <2>4. Down(y) # Down(x)
      BY <2>3
    <2>5. Down(x) \in SUBSET K /\ Down(y) \in SUBSET K
      BY DEF Down
    <2>6. <<Down(y), Down(x)>> \in StrictSubsetOrdering(K)
      BY <2>2, <2>4, <2>5 DEF StrictSubsetOrdering
    <2> QED
      BY <1>3, <2>1, <2>6
  <1>5. \E z \in K : \A y \in K : z <= y
    BY <1>4
  <1> QED
    BY <1>5 DEF MinOf

LEMMA GreatestOf ==
  ASSUME NEW n \in Nat, NEW K \in SUBSET (1..n), K # {}
  PROVE  MaxOf(K) \in K /\ \A y \in K : y <= MaxOf(K)
  <1> DEFINE L == {(n + 1) - x : x \in K}
  <1>0. \A x \in K : x \in Int /\ (n + 1) - x \in 1..n
    OBVIOUS
  <1>1. L \in SUBSET (1..n) /\ L # {}
    BY <1>0
  <1>2. PICK l \in L : \A y \in L : l <= y
    <2> HIDE DEF L
    <2> QED
      BY <1>1, LeastOf
  <1>3. PICK x \in K : l = (n + 1) - x
    BY <1>2
  <1>4. ASSUME NEW y \in K
        PROVE  y <= x
    <2>1. (n + 1) - y \in L
      OBVIOUS
    <2>2. (n + 1) - x <= (n + 1) - y
      BY <1>2, <1>3, <2>1
    <2>3. x \in Int /\ y \in Int
      BY <1>0
    <2> QED
      BY <2>2, <2>3
  <1>5. \E z \in K : \A y \in K : y <= z
    BY <1>4
  <1> QED
    BY <1>5 DEF MaxOf

LEMMA SomeIds ==
  ASSUME NEW K \in SUBSET Ids
  PROVE  /\ IsFiniteSet(K) /\ Cardinality(K) \in Nat
         /\ K # {} => /\ MinOf(K) \in K /\ \A y \in K : MinOf(K) <= y
                      /\ MaxOf(K) \in K /\ \A y \in K : y <= MaxOf(K)
  <1>1. IsFiniteSet(Ids)
    BY SyncAssumption, FS_Interval DEF Ids
  <1>2. IsFiniteSet(K)
    BY <1>1, FS_Subset
  <1>3. Cardinality(K) \in Nat
    BY <1>2, FS_CardinalityType
  <1> QED
    BY <1>2, <1>3, LeastOf, GreatestOf, SyncAssumption DEF Ids

LEMMA MarkInt ==
  ASSUME NEW v \in Mark, v # None
  PROVE  v \in Ids /\ v \in Int /\ 1 <= v /\ v <= MaxId
  BY SyncAssumption DEF Mark, Ids

-----------------------------------------------------------------------------
(* What Pull has done when it has pulled the messages K: the job r has       *)
(* become s.                                                               *)
PullTo(r, s, K) ==
  /\ r.pc = "pull" /\ s.pc = "read"
  /\ s.old = r.old /\ s.from = r.from /\ s.above = r.above
  /\ s.budget = r.budget /\ s.saw = r.saw
  /\ s.fetched = r.fetched + Cardinality(K) /\ s.fetched <= s.budget
  /\ K \subseteq Available(r)
  /\ \A x \in Available(r) \ K : \A y \in K : x < y
  /\ K = {} => s.cursor = r.cursor /\ s.newest = r.newest /\ s.oldest = r.oldest
  /\ K # {} => /\ s.cursor \in K /\ \A x \in K : s.cursor <= x
               /\ s.newest \in Ids /\ (s.newest \in K \/ s.newest = r.newest)
               /\ r.newest # None => r.newest <= s.newest
               /\ \A x \in K : x <= s.newest
               /\ s.oldest \in Ids /\ (s.oldest \in K \/ s.oldest = r.oldest)
               /\ r.oldest # None => s.oldest <= r.oldest
               /\ \A x \in K : s.oldest <= x
  /\ s.last /\ s.fetched < s.budget => Available(r) \subseteq K
  /\ s.done <=> s.last /\ s.old /\ s.fetched < s.budget

(* An iterator that ends with room in the budget has nothing left.         *)
LEMMA Exhausted ==
  ASSUME TypeOK, NEW r \in Job, NEW K \in Chunks(r),
         \A L \in Chunks(r) : L \subseteq K,
         r.fetched + Cardinality(K) < r.budget
  PROVE  Available(r) \subseteq K
  <1> DEFINE Rest == Available(r) \ K
  <1>1. PICK t \in 1..(MaxId + 1) : K = {x \in Available(r) : x >= t}
    BY DEF Chunks
  <1>2. Available(r) \subseteq Ids /\ K \subseteq Ids /\ Rest \subseteq Ids
    BY <1>1 DEF Available, TypeOK
  <1>3. SUFFICES ASSUME Rest # {}
                 PROVE  FALSE
    OBVIOUS
  <1> DEFINE m == MaxOf(Rest)
             L == {x \in Available(r) : x >= m}
  <1>4. m \in Rest /\ \A y \in Rest : y <= m
    BY <1>2, <1>3, SomeIds
  <1>5. \A x \in Ids : x \in Int /\ x \in 1..(MaxId + 1)
    BY SyncAssumption DEF Ids
  <1> HIDE DEF m
  <1>6. L = K \cup {m}
    <2>1. ASSUME NEW x \in Available(r), x >= m, x \notin K
          PROVE  x = m
      BY <1>2, <1>4, <1>5, <2>1
    <2>2. ASSUME NEW x \in K
          PROVE  x >= m
      <3>1. m < t /\ x >= t /\ x \in Int /\ m \in Int /\ t \in Int
        BY <1>1, <1>2, <1>4, <1>5, <2>2
      <3> QED
        BY <3>1
    <2>3. m \in Available(r) /\ m >= m /\ K \subseteq Available(r)
      BY <1>1, <1>2, <1>4, <1>5
    <2> QED
      BY <2>1, <2>2, <2>3
  <1>7. Cardinality(L) = Cardinality(K) + 1 /\ Cardinality(K) \in Nat
    <2>1. IsFiniteSet(K) /\ m \notin K /\ Cardinality(K) \in Nat
      BY <1>2, <1>4, SomeIds
    <2> QED
      BY <1>6, <2>1, FS_AddElement
  <1>8. Cardinality(L) <= r.budget - r.fetched
    <2>1. r.budget \in Int /\ r.fetched \in Int
      BY SyncAssumption DEF Job
    <2> QED
      BY <1>7, <2>1
  <1>9. L \in Chunks(r)
    <2>1. m \in 1..(MaxId + 1)
      BY <1>2, <1>4, <1>5
    <2> QED
      BY <1>8, <2>1 DEF Chunks
  <1>10. m \in L
    BY <1>6
  <1> HIDE DEF L
  <1> QED
    BY <1>4, <1>9, <1>10

LEMMA PullEffect ==
  ASSUME TypeOK, NEW j \in Jobs, Pull(j)
  PROVE  \E K \in SUBSET tg :
           /\ PullTo(job[j], job'[j], K)
           /\ job'[j] \in Job
           /\ stored' = stored \cup Rows(K)
  <1> DEFINE r == job[j]
             s == job'[j]
  <1>1. PICK K \in Chunks(r) :
          /\ r.pc = "pull"
          /\ Full(K) \/ \A L \in Chunks(r) : ~Full(L) /\ L \subseteq K
          /\ stored' = stored \cup Rows(K)
          /\ job' = [job EXCEPT ![j] =
             [r EXCEPT !.pc = "read",
                       !.fetched = @ + Cardinality(K),
                       !.cursor = IF K = {} THEN @ ELSE MinOf(K),
                       !.newest = IF K = {} THEN @ ELSE MaxOf(K \cup ({@} \ {None})),
                       !.oldest = IF K = {} THEN @ ELSE MinOf(K \cup ({@} \ {None})),
                       !.last = ~Full(K),
                       !.done = ~Full(K) /\ Beginning(r, r.fetched + Cardinality(K))]]
    BY DEF Pull
  <1>2. PICK t \in 1..(MaxId + 1) : K = {x \in Available(r) : x >= t}
    BY DEF Chunks
  <1>3. K \subseteq Available(r) /\ Available(r) \subseteq tg /\ tg \subseteq Ids
    BY <1>2 DEF Available, TypeOK
  <1>4. r \in Job
    BY DEF TypeOK
  <1> DEFINE New == K \cup ({r.newest} \ {None})
             Old == K \cup ({r.oldest} \ {None})
  <1>5. New \subseteq Ids /\ Old \subseteq Ids
    BY <1>3, <1>4 DEF Job, Mark
  <1>6. ASSUME K # {}
        PROVE  /\ MinOf(K) \in K /\ \A y \in K : MinOf(K) <= y
               /\ MaxOf(New) \in New /\ \A y \in New : y <= MaxOf(New)
               /\ MinOf(Old) \in Old /\ \A y \in Old : MinOf(Old) <= y
    BY <1>3, <1>5, <1>6, SomeIds
  <1> DEFINE cur == IF K = {} THEN r.cursor ELSE MinOf(K)
             nst == IF K = {} THEN r.newest ELSE MaxOf(New)
             ost == IF K = {} THEN r.oldest ELSE MinOf(Old)
             dn  == ~Full(K) /\ Beginning(r, r.fetched + Cardinality(K))
             ft  == r.fetched + Cardinality(K)
  <1>7. ft \in 0..Budget /\ ft <= r.budget
    <2>1. Cardinality(K) \in Nat /\ Cardinality(K) <= r.budget - r.fetched
      BY <1>3, SomeIds DEF Chunks
    <2>2. r.fetched \in 0..Budget /\ r.budget \in 0..Budget /\ Budget \in Nat
      BY <1>4, SyncAssumption DEF Job
    <2> QED
      BY <2>1, <2>2
  <1>8. cur \in 1..(MaxId + 1) /\ nst \in Mark /\ ost \in Mark
    <2>1. r.cursor \in 1..(MaxId + 1) /\ r.newest \in Mark /\ r.oldest \in Mark
      BY <1>4 DEF Job
    <2>2. Ids \subseteq 1..(MaxId + 1) /\ Ids \subseteq Mark
      BY SyncAssumption DEF Ids, Mark
    <2> QED
      BY <1>3, <1>5, <1>6, <2>1, <2>2
  <1>9. dn \in BOOLEAN /\ (~Full(K)) \in BOOLEAN
    BY DEF Full
  <1> DEFINE lst == ~Full(K)
             c == [r EXCEPT !.pc = "read", !.fetched = ft, !.cursor = cur, !.newest = nst,
                            !.oldest = ost, !.last = lst, !.done = dn]
  <1>10. job' = [job EXCEPT ![j] = c]
    BY <1>1
  <1>11. s = c
    BY <1>10 DEF TypeOK
  <1> HIDE DEF cur, nst, ost, dn, ft, lst
  <1>12. /\ c \in Job
         /\ c.pc = "read" /\ c.fetched = ft /\ c.cursor = cur /\ c.newest = nst
         /\ c.oldest = ost /\ c.last = lst /\ c.done = dn
         /\ c.old = r.old /\ c.from = r.from /\ c.above = r.above
         /\ c.budget = r.budget /\ c.saw = r.saw
    <2>1. ft \in 0..Budget /\ cur \in 1..(MaxId + 1) /\ nst \in Mark /\ ost \in Mark
      BY <1>7, <1>8
    <2>2. dn \in BOOLEAN /\ lst \in BOOLEAN
      BY <1>9 DEF lst
    <2> HIDE DEF r
    <2> QED
      BY <1>4, <2>1, <2>2 DEF Job
  <1>13. \A x \in Available(r) \ K : \A y \in K : x < y
    <2>1. \A x \in Ids : x \in Int
      BY SyncAssumption DEF Ids
    <2> QED
      BY <1>2, <1>3, <2>1
  <1>14. ASSUME K # {}
         PROVE  /\ cur \in K /\ \A x \in K : cur <= x
                /\ nst \in Ids /\ (nst \in K \/ nst = r.newest)
                /\ r.newest # None => r.newest <= nst
                /\ \A x \in K : x <= nst
                /\ ost \in Ids /\ (ost \in K \/ ost = r.oldest)
                /\ r.oldest # None => ost <= r.oldest
                /\ \A x \in K : ost <= x
    BY <1>5, <1>6, <1>14 DEF cur, nst, ost
  <1>15. lst /\ ft < r.budget => Available(r) \subseteq K
    <2>1. SUFFICES ASSUME lst, ft < r.budget
                   PROVE  Available(r) \subseteq K
      OBVIOUS
    <2>2. \A L \in Chunks(r) : L \subseteq K
      BY <1>1, <2>1 DEF lst
    <2>3. r.fetched + Cardinality(K) < r.budget
      BY <2>1 DEF ft
    <2> HIDE DEF r
    <2> QED
      BY <1>4, <2>2, <2>3, Exhausted
  <1>16. dn <=> lst /\ r.old /\ ft < r.budget
    BY DEF dn, lst, ft, Beginning
  <1>17. K = {} => cur = r.cursor /\ nst = r.newest /\ ost = r.oldest
    BY DEF cur, nst, ost
  <1>18. PullTo(r, c, K)
    <2> HIDE DEF r, c
    <2> QED
      BY <1>1, <1>3, <1>7, <1>12, <1>13, <1>14, <1>15, <1>16, <1>17 DEF PullTo, ft
  <1> QED
    BY <1>1, <1>3, <1>11, <1>12, <1>18

-----------------------------------------------------------------------------
(* The numbers a job is made of.                                           *)
Numbers(r) ==
  /\ r.cursor \in Int /\ r.cursor <= MaxId + 1
  /\ r.saw \in Int /\ r.fetched \in Int /\ r.budget \in Int
  /\ r.fetched <= Budget /\ 0 <= r.fetched
  /\ r.from # None => r.from \in Int /\ 1 <= r.from /\ r.from <= MaxId
  /\ r.above # None => r.above \in Int /\ r.above <= MaxId
  /\ r.newest # None => r.newest \in Int /\ r.newest <= MaxId
  /\ r.oldest # None => r.oldest \in Int /\ r.oldest <= MaxId
  /\ r.newMax # None => r.newMax \in Int
  /\ r.newMin # None => r.newMin \in Int
  /\ MaxId \in Int /\ None \notin Int

LEMMA JobNumbers ==
  ASSUME NEW r \in Job
  PROVE  Numbers(r)
  <1>1. \A v \in Mark : v # None => v \in Int /\ 1 <= v /\ v <= MaxId
    BY MarkInt
  <1>2. /\ r.from \in Mark /\ r.above \in Mark /\ r.newest \in Mark /\ r.oldest \in Mark
        /\ r.newMax \in Mark /\ r.newMin \in Mark
        /\ r.cursor \in 1..(MaxId + 1) /\ r.saw \in 0..MaxId
        /\ r.fetched \in 0..Budget /\ r.budget \in 0..Budget
    BY DEF Job
  <1>3. MaxId \in Int /\ Budget \in Int /\ None \notin Int
    BY SyncAssumption
  <1>4. /\ r.from # None => r.from \in Int /\ 1 <= r.from /\ r.from <= MaxId
        /\ r.above # None => r.above \in Int /\ r.above <= MaxId
        /\ r.newest # None => r.newest \in Int /\ r.newest <= MaxId
        /\ r.oldest # None => r.oldest \in Int /\ r.oldest <= MaxId
        /\ r.newMax # None => r.newMax \in Int
        /\ r.newMin # None => r.newMin \in Int
    BY ONLY <1>1, <1>2, Zenon
  <1>5. /\ r.cursor \in Int /\ r.cursor <= MaxId + 1
        /\ r.saw \in Int /\ r.fetched \in Int /\ r.budget \in Int
        /\ r.fetched <= Budget /\ 0 <= r.fetched
    <2> DEFINE c == r.cursor
               w == r.saw
               f == r.fetched
               b == r.budget
    <2>1. c \in 1..(MaxId + 1) /\ w \in 0..MaxId /\ f \in 0..Budget /\ b \in 0..Budget
      BY <1>2
    <2> HIDE DEF c, w, f, b
    <2>2. c \in Int /\ c <= MaxId + 1 /\ w \in Int /\ f \in Int /\ b \in Int
          /\ f <= Budget /\ 0 <= f
      BY <1>3, <2>1
    <2> QED
      BY <2>2 DEF c, w, f, b
  <1> QED
    BY <1>3, <1>4, <1>5 DEF Numbers

(* What is pulled lies below the cursor, and a pull of new messages stays   *)
(* above the mark it has read.                                             *)
LEMMA PullsBelow ==
  ASSUME NEW r \in Job, NEW s \in Job, NEW K \in SUBSET Ids, PullTo(r, s, K)
  PROVE  /\ \A x \in K : x \in Int /\ x < r.cursor /\ (r.old \/ x > r.above)
         /\ s.cursor <= r.cursor
  <1>1. \A x \in K : x \in Int
    BY SyncAssumption DEF Ids
  <1>2. \A x \in K : x < r.cursor /\ (r.old \/ x > r.above)
    BY DEF PullTo, Available
  <1>3. s.cursor <= r.cursor
    <2>1. Numbers(r) /\ Numbers(s)
      BY JobNumbers
    <2> QED
      BY <1>1, <1>2, <2>1 DEF PullTo, Numbers
  <1> QED
    BY <1>1, <1>2, <1>3

LEMMA PullShape ==
  ASSUME NEW r \in Job, NEW s \in Job, NEW K \in SUBSET Ids, PullTo(r, s, K),
         Shape(r), Placed(r)
  PROVE  Shape(s) /\ Placed(s)
  <1>0. Numbers(r) /\ Numbers(s)
    BY JobNumbers
  <1>1. Shape(s)
    <2>1. s.newest = None <=> s.oldest = None
      BY MarkInt, SyncAssumption DEF PullTo, Shape, Ids
    <2> QED
      BY <2>1 DEF PullTo, Shape, Pulling
  <1>2. \A x \in K : x \in Int /\ x < r.cursor /\ (r.old \/ x > r.above)
    BY PullsBelow
  <1>3. None \notin Ids
    BY SyncAssumption DEF Ids
  <1>4. CASE K = {}
    BY <1>1, <1>4, <1>0 DEF Numbers, PullTo, Placed, Pulling
  <1>5. CASE K # {}
    <2> DEFINE rNew == /\ s.newest # None /\ s.oldest # None /\ s.cursor <= s.newest
                       /\ s.cursor < r.cursor
    <2>0. rNew
      BY <1>2, <1>3, <1>5, <1>0 DEF Numbers, PullTo
    <2>1. r.oldest = r.cursor \/ r.oldest = None => s.oldest = s.cursor
      BY <1>2, <1>3, <1>5, <1>0 DEF Numbers, PullTo
    <2>2. r.oldest # None /\ r.above # None /\ r.oldest > r.above
            => s.oldest = s.cursor \/ s.oldest > r.above
      BY <1>2, <1>3, <1>5, <1>0 DEF Numbers, PullTo
    <2>3. r.newest # None /\ r.above # None /\ r.newest > r.above => s.newest > r.above
      BY <1>2, <1>3, <1>5, <1>0 DEF Numbers, PullTo
    <2>4. r.old /\ r.from # None /\ r.cursor <= r.from
            /\ (r.newest = None \/ r.newest < r.from) => s.newest < r.from
      BY <1>2, <1>3, <1>5, <1>0 DEF Numbers, PullTo
    <2>5. ~r.old => s.cursor > r.above
      BY <1>2, <1>5 DEF PullTo
    <2>6. r.newest = None <=> r.oldest = None
      BY DEF Shape
    <2>7. s.old = r.old /\ s.from = r.from /\ s.above = r.above /\ r.pc = "pull"
      BY DEF PullTo
    <2>8. CASE ~r.old
      BY <1>1, <2>0, <2>1, <2>5, <2>6, <2>7, <2>8 DEF Placed, Pulling
    <2>9. CASE r.old /\ r.from = None
      BY <1>1, <2>0, <2>1, <2>6, <2>7, <2>9 DEF Placed, Pulling
    <2>10. CASE r.old /\ r.from # None
      <3>1. r.above # None /\ r.from > 1 /\ r.cursor <= r.from
        BY <2>10 DEF Placed
      <3>2. s.cursor <= s.from
        BY <2>10, <2>0, <2>7, <3>1, <1>0 DEF Numbers
      <3>3. s.oldest = s.cursor \/ s.oldest > s.above
        BY <2>1, <2>2, <2>7, <2>10, <3>1 DEF Placed
      <3>4. s.newest > s.above \/ s.newest < s.from
        BY <2>3, <2>4, <2>7, <2>10, <3>1 DEF Placed
      <3> QED
        BY <1>1, <2>7, <2>10, <3>1, <3>2, <3>3, <3>4 DEF Placed
    <2> QED
      BY <2>8, <2>9, <2>10
  <1> QED
    BY <1>1, <1>4, <1>5

(* A job that has pulled something before pulls only what is older.        *)
LEMMA PullKeepsNewest ==
  ASSUME NEW r \in Job, NEW s \in Job, NEW K \in SUBSET Ids, PullTo(r, s, K),
         Placed(r), r.newest # None, ~r.old \/ r.from = None
  PROVE  s.newest = r.newest
  <1>0. Numbers(r) /\ Numbers(s)
    BY JobNumbers
  <1>1. CASE K = {}
    BY <1>1 DEF PullTo
  <1>2. CASE K # {}
    <2>1. r.cursor <= r.newest
      BY DEF Placed, Pulling, PullTo
    <2>2. \A x \in K : x < r.newest
      BY <2>1, PullsBelow, <1>0 DEF Numbers
    <2>3. None \notin Ids
      BY SyncAssumption DEF Ids
    <2> QED
      BY <1>2, <2>2, <2>3, <1>0 DEF Numbers, PullTo
  <1> QED
    BY <1>1, <1>2

-----------------------------------------------------------------------------
(* A step of one job that leaves the marks alone keeps the invariant, if it  *)
(* keeps what is said of this job and leaves behind no gap it was to fill.   *)
LEMMA OneMoves ==
  ASSUME TypeOK, Kept, NEW j \in Jobs,
         \A k \in Jobs \ {j} : job'[k] = job[k],
         UNCHANGED <<tg, top, smin, smax, base>>,
         Missing' \subseteq Missing,
         torn => torn',
         Busy(job'[j]) => /\ Shape(job'[j]) /\ Placed(job'[j]) /\ Reads(job'[j])
                          /\ Topped(job'[j]),
         First(j)' => First(j) \/ \A k \in Jobs : ~First(k),
         \A i \in Missing' : Busy(job'[j]) => Apart(i, job'[j]),
         \A i \in Missing' : ~torn' /\ base # None /\ base < i =>
           /\ InGap(job[j], i) => InGap(job'[j], i)
           /\ Newer(i) /\ Busy(job'[j]) => Over(job'[j], i) \/ InGap(job'[j], i)
  PROVE  Kept'
  <1>1. \A k \in Jobs : Busy(job'[k]) => Shape(job'[k]) /\ Placed(job'[k]) /\ Reads(job'[k])
    BY DEF Kept
  <1>2. \A k \in Jobs : Reads(job'[k]) <=> Reads(job[k])'
    BY DEF Reads
  <1>3. Tops'
    <2>1. \A k \in Jobs : Busy(job'[k]) => Topped(job'[k])
      BY DEF Kept, Tops
    <2>2. \A k \in Jobs : Topped(job'[k]) <=> Topped(job[k])'
      BY DEF Topped
    <2> QED
      BY <2>1, <2>2 DEF Kept, Tops
  <1>4. Marks'
    BY DEF Kept, Marks
  <1>5. OneFirst'
    <2>1. \A k \in Jobs \ {j} : First(k)' <=> First(k)
      BY DEF First
    <2> QED
      BY <2>1 DEF Kept, OneFirst
  <1>6. ASSUME NEW i \in Missing'
        PROVE  Missed(i)'
    <2>1. i \in Missing /\ Missed(i)
      BY <1>6 DEF Kept
    <2>2. Outside(i)'
      BY <2>1 DEF Missed, Outside
    <2>3. ASSUME NEW k \in Jobs, Busy(job'[k])
          PROVE  Apart(i, job[k])'
      <3>1. Apart(i, job'[k])
        BY <1>6, <2>1, <2>3 DEF Missed
      <3> QED
        BY <3>1 DEF Apart
    <2>4. ASSUME ~torn', base # None, base < i
          PROVE  Owed(i)' \/ Newer(i)'
      <3>1. CASE \E k \in Jobs : InGap(job[k], i)
        <4>1. PICK k \in Jobs : InGap(job[k], i)
          BY <3>1
        <4>2. InGap(job'[k], i)
          BY <1>6, <2>4, <4>1
        <4> QED
          BY <4>2 DEF Owed, InGap
      <3>2. CASE Newer(i)
        <4>1. CASE Busy(job'[j]) /\ InGap(job'[j], i)
          BY <4>1 DEF Owed, InGap
        <4>2. CASE Busy(job'[j]) => Over(job'[j], i)
          <5>1. \A k \in Jobs : Busy(job'[k]) => Over(job'[k], i)
            BY <3>2, <4>2 DEF Newer
          <5> QED
            BY <3>2, <5>1 DEF Newer, Over
        <4> QED
          BY <1>6, <2>4, <3>2, <4>1, <4>2
      <3> QED
        BY <2>1, <2>4, <3>1, <3>2 DEF Missed, Owed
    <2> QED
      BY <2>2, <2>3, <2>4 DEF Missed, Busy
  <1> QED
    BY <1>1, <1>2, <1>3, <1>4, <1>5, <1>6 DEF Kept, Busy, Shape, Placed, Pulling

-----------------------------------------------------------------------------
(* The steps of a job but those that move the marks.                       *)
LEMMA SelectStep ==
  ASSUME TypeOK, Kept, NEW j \in Jobs, Select(j)
  PROVE  Kept'
  <1>1. /\ job'[j].pc = "selected" /\ job[j].pc = "idle"
        /\ \A k \in Jobs \ {j} : job'[k] = job[k]
    BY DEF Select, TypeOK, Job
  <1>2. UNCHANGED <<tg, top, stored, smin, smax, base, torn>>
    BY DEF Select, telegram, marks, history
  <1>3. ~Busy(job'[j]) /\ ~First(j)' /\ \A i : ~InGap(job[j], i)
    BY <1>1 DEF Busy, First, InGap, Pulling
  <1>4. Missing' \subseteq Missing
    BY <1>2 DEF Missing
  <1> QED
    BY <1>1, <1>2, <1>3, <1>4, OneMoves

LEMMA BeginStep ==
  ASSUME TypeOK, Kept, NEW j \in Jobs, Begin(j), ~split'
  PROVE  Kept'
  <1> DEFINE c == [Idle EXCEPT !.pc = "connect", !.from = smin, !.above = smax,
                               !.budget = Budget, !.saw = top]
  <1>1. /\ c.pc = "connect" /\ c.from = smin /\ c.above = smax /\ c.budget = Budget
        /\ c.saw = top /\ ~c.old /\ c.newest = None /\ c.oldest = None /\ c.fetched = 0
        /\ ~c.last /\ ~c.done /\ c.fetched <= c.budget
    BY SyncAssumption DEF Idle
  <1> HIDE DEF c
  <1>2. job'[j] = c /\ \A k \in Jobs \ {j} : job'[k] = job[k]
    BY DEF Begin, TypeOK, c
  <1>3. UNCHANGED <<tg, top, stored, smin, smax, base, torn>>
    BY DEF Begin, telegram, marks
  <1>4. job[j].pc \in {"idle", "selected"}
    BY DEF Begin
  <1>5. smin = None => \A k \in Jobs : ~First(k)
    BY DEF Begin
  <1>6. Missing' \subseteq Missing
    BY <1>3 DEF Missing
  <1>7. /\ smin = None => base = None
        /\ smax = None <=> base = None
        /\ base = None => smin \in {None, 1}
        /\ base # None => smin # None /\ smin <= base /\ base <= smax
    BY DEF Kept, Marks
  <1>8. Shape(c) /\ Placed(c) /\ Reads(c)
    BY <1>1, <1>7 DEF Shape, Placed, Reads, Pulling
  <1>9. Topped(c)
    <2>1. smax # None => smax <= top
      BY DEF Kept, Tops
    <2>2. top <= top
      BY SyncAssumption DEF TypeOK
    <2> QED
      BY <1>1, <2>1, <2>2 DEF Topped
  <1>10. First(j)' => \A k \in Jobs : ~First(k)
    BY <1>1, <1>2, <1>5 DEF First
  <1>11. ASSUME NEW i \in Missing'
         PROVE  Apart(i, c)
    <2>1. Outside(i)
      BY <1>6, <1>11 DEF Kept, Missed
    <2> QED
      BY <1>1, <1>7, <2>1 DEF Apart, Outside, Pulling
  <1>12. \A i : ~InGap(job[j], i)
    BY <1>4 DEF InGap, Pulling
  <1>13. \A i : Newer(i) => Over(c, i)
    BY <1>1 DEF Newer, Over
  <1> QED
    BY <1>2, <1>3, <1>6, <1>8, <1>9, <1>10, <1>11, <1>12, <1>13, OneMoves

LEMMA ConnectStep ==
  ASSUME TypeOK, Kept, NEW j \in Jobs, Connect(j)
  PROVE  Kept'
  <1> DEFINE r == job[j]
             c == IF r.above # None THEN StartNew(r) ELSE StartOldOrFinish(r, r.budget)
  <1>1. r \in Job /\ Numbers(r) /\ r.pc = "connect"
    BY JobNumbers DEF TypeOK, Connect
  <1>2. job'[j] = c /\ \A k \in Jobs \ {j} : job'[k] = job[k]
    BY DEF Connect, TypeOK
  <1>3. UNCHANGED <<tg, top, stored, smin, smax, base, torn>>
    BY DEF Connect, telegram, marks, history
  <1>4. Missing' \subseteq Missing
    BY <1>3 DEF Missing
  <1>5. Shape(r) /\ Placed(r) /\ Reads(r) /\ Topped(r)
    BY <1>1 DEF Kept, Tops, Busy
  <1>6. \A i \in Missing : Missed(i) /\ Apart(i, r)
    BY <1>1 DEF Kept, Missed, Busy
  <1>7. /\ ~r.old /\ r.newest = None /\ r.oldest = None /\ r.budget > 0 /\ r.fetched = 0
        /\ ~r.last /\ ~r.done
    BY <1>1, <1>5, SyncAssumption DEF Shape
  <1> HIDE DEF r
  <1>8. /\ c.from = r.from /\ c.above = r.above /\ c.newest = None /\ c.oldest = None
        /\ ~c.last /\ ~c.done /\ c.saw = r.saw /\ c.fetched = 0 /\ c.budget = r.budget
        /\ c.pc \in {"pull", "finish"}
        /\ r.above # None => c.pc = "pull" /\ ~c.old /\ c.cursor = MaxId + 1
        /\ r.above = None /\ r.from = None => c.pc = "pull" /\ c.old /\ c.cursor = MaxId + 1
        /\ r.above = None /\ r.from # None => c.pc = "finish" /\ ~c.old
    <2>1. CASE r.above # None
      BY <1>1, <1>7, <2>1 DEF StartNew, Job
    <2>2. CASE r.above = None /\ r.from = None
      BY <1>1, <1>7, <2>2 DEF StartOldOrFinish, NeedsBackfill, OldCursor, Job
    <2>3. CASE r.above = None /\ r.from # None
      <3>1. r.from = 1
        BY <1>5, <2>3 DEF Shape
      <3>2. 1 # None /\ ~(1 > 1)
        BY SyncAssumption
      <3>3. ~NeedsBackfill(r.from)
        BY <3>1, <3>2 DEF NeedsBackfill
      <3> QED
        BY <1>1, <1>7, <2>3, <3>3 DEF StartOldOrFinish, Job
    <2> QED
      BY <2>1, <2>2, <2>3
  <1> HIDE DEF c
  <1>9. Shape(c) /\ Placed(c)
    BY <1>5, <1>7, <1>8 DEF Shape, Placed, Pulling
  <1>10. Reads(c) /\ Topped(c)
    BY <1>1, <1>5, <1>7, <1>8 DEF Reads, Topped
  <1>11. First(j)' => First(j)
    BY <1>1, <1>2, <1>8 DEF First, r
  <1>12. ASSUME NEW i \in Missing'
         PROVE  Apart(i, c)
    <2>1. Apart(i, r)
      BY <1>4, <1>6, <1>12
    <2> QED
      BY <1>1, <1>5, <1>8, <2>1 DEF Apart, Pulling, Shape
  <1>13. \A i : ~InGap(r, i)
    BY <1>1 DEF InGap, Pulling
  <1>14. \A i : Newer(i) => Over(c, i)
    BY <1>1, <1>8 DEF Newer, Over, Busy, r
  <1> QED
    BY <1>2, <1>3, <1>4, <1>9, <1>10, <1>11, <1>12, <1>13, <1>14, OneMoves DEF r

(* A job that is cut short; in the middle of new messages it leaves a gap.   *)
LEMMA CutStep ==
  ASSUME TypeOK, Kept, NEW j \in Jobs, Flood(j) \/ Error(j) \/ Abort(j)
  PROVE  Kept'
  <1>1. job' = [job EXCEPT ![j] = Idle] /\ torn' = (torn \/ MidNew(j))
    BY DEF Flood, Error, Abort
  <1>2. job'[j] = Idle /\ \A k \in Jobs \ {j} : job'[k] = job[k]
    BY <1>1 DEF TypeOK
  <1>3. UNCHANGED <<tg, top, stored, smin, smax, base>>
    BY DEF Flood, Error, Abort, telegram, marks
  <1>4. Missing' \subseteq Missing
    BY <1>3 DEF Missing
  <1>5. ~Busy(job'[j]) /\ ~First(j)'
    BY <1>2 DEF Busy, First, Idle
  <1>6. \A i : InGap(job[j], i) => MidNew(j)
    BY DEF InGap, MidNew, Pulling
  <1>7. torn => torn'
    BY <1>1
  <1>8. \A i : ~torn' => ~InGap(job[j], i)
    BY <1>1, <1>6
  <1> QED
    BY <1>2, <1>3, <1>4, <1>5, <1>7, <1>8, OneMoves

LEMMA ProgressReadStep ==
  ASSUME TypeOK, TypeOK', Kept, NEW j \in Jobs, ProgressRead(j)
  PROVE  Kept'
  <1> DEFINE r == job[j]
             nx == IF r.newest # None /\ (smax = None \/ r.newest > smax)
                   THEN r.newest ELSE None
             nn == IF r.oldest # None /\ (smin = None \/ r.oldest < smin)
                   THEN r.oldest ELSE None
             c == [r EXCEPT !.pc = "write", !.newMax = nx, !.newMin = nn]
  <1>1. r \in Job /\ r.pc = "read" /\ job' = [job EXCEPT ![j] = c]
    BY DEF ProgressRead, TypeOK
  <1>2. job'[j] = c /\ \A k \in Jobs \ {j} : job'[k] = job[k]
    BY <1>1 DEF TypeOK
  <1>3. UNCHANGED <<tg, top, stored, smin, smax, base, torn>>
    BY DEF ProgressRead, telegram, marks, history
  <1>4. Missing' \subseteq Missing
    BY <1>3 DEF Missing
  <1>5. Shape(r) /\ Placed(r) /\ Reads(r) /\ Topped(r)
    BY <1>1 DEF Kept, Tops, Busy
  <1>6. \A i \in Missing : Missed(i) /\ Apart(i, r) /\ i \in Int
    BY <1>1, SyncAssumption DEF Kept, Missed, Busy, Missing, TypeOK, Ids
  <1>7. c \in Job /\ Numbers(r)
    BY <1>2, JobNumbers DEF TypeOK
  <1>8. /\ smax # None => smax \in Int
        /\ smin # None => smin \in Int
        /\ base # None => base \in Int
    BY MarkInt DEF TypeOK
  <1> HIDE DEF nx, nn
  <1>9. /\ c.pc = "write" /\ c.newMax = nx /\ c.newMin = nn
        /\ c.old = r.old /\ c.from = r.from /\ c.above = r.above /\ c.budget = r.budget
        /\ c.fetched = r.fetched /\ c.cursor = r.cursor /\ c.newest = r.newest
        /\ c.oldest = r.oldest /\ c.last = r.last /\ c.done = r.done /\ c.saw = r.saw
    <2> HIDE DEF r
    <2> QED
      BY <1>1 DEF Job
  <1> HIDE DEF r, c
  <1>10. /\ nx \in {None, r.newest} /\ nn \in {None, r.oldest}
         /\ smax = None => nx = r.newest
         /\ smin = None => nn = r.oldest
         /\ nx # None /\ smax # None => nx > smax
         /\ nn # None /\ smin # None => nn < smin
    BY DEF nx, nn
  <1>11. Marks
    BY DEF Kept
  <1>12. Shape(c)
    BY <1>1, <1>5, <1>9, <1>10 DEF Shape, Pulling
  <1>13. Placed(c)
    BY <1>1, <1>5, <1>9 DEF Placed, Pulling
  <1>14. Reads(c)
    <2>1. base # None /\ nx # None => base <= nx
      BY <1>7, <1>8, <1>10, <1>11 DEF Marks, Numbers
    <2>2. base # None /\ nn # None => nn <= base
      BY <1>7, <1>8, <1>10, <1>11 DEF Marks, Numbers
    <2>3. base = None => smax = None
      BY <1>11 DEF Marks
    <2> QED
      BY <1>1, <1>5, <1>9, <1>10, <2>1, <2>2, <2>3 DEF Reads
  <1>15. Topped(c)
    BY <1>5, <1>9 DEF Topped
  <1>16. First(j)' => First(j)
    BY <1>1, <1>2, <1>9 DEF First, r
  <1>17. ASSUME NEW i \in Missing'
         PROVE  Apart(i, c)
    <2>1. Apart(i, r) /\ i \in Int
      BY <1>4, <1>6, <1>17
    <2>2. ASSUME nn # None, base # None
          PROVE  i < nn \/ base < i
      <3>1. nn = r.oldest /\ r.oldest # None /\ r.newest # None
        BY <1>5, <1>10, <2>2 DEF Shape
      <3>2. nn < smin /\ smin <= base
        BY <1>10, <1>11, <2>2 DEF Marks
      <3>3. nn \in Int /\ base \in Int /\ smin \in Int /\ smin # None
        BY <1>7, <1>8, <1>11, <2>2, <3>1 DEF Numbers, Marks
      <3>4. CASE ~r.old
        <4>1. r.above # None /\ r.above < r.oldest
          BY <1>1, <1>5, <3>1, <3>4 DEF Placed, Pulling
        <4>2. r.from # None
          BY <1>5, <4>1 DEF Shape
        <4>3. base <= r.above /\ r.above \in Int
          BY <1>5, <1>7, <4>1, <4>2 DEF Reads, Numbers
        <4> QED
          BY <3>1, <3>2, <3>3, <4>1, <4>3
      <3>5. CASE r.old /\ r.from = None
        <4>1. r.oldest = r.cursor /\ r.newest = base
          BY <1>5, <2>2, <3>1, <3>5 DEF Placed, Reads
        <4> QED
          BY <2>1, <3>1, <3>5, <4>1 DEF Apart
      <3>6. CASE r.old /\ r.from # None
        <4>1. r.above # None /\ (r.oldest = r.cursor \/ r.oldest > r.above)
          BY <1>5, <3>1, <3>6 DEF Placed
        <4>2. base <= r.above /\ r.above \in Int
          BY <1>5, <1>7, <3>6, <4>1 DEF Reads, Numbers
        <4>3. r.oldest = r.cursor
          BY <3>1, <3>2, <3>3, <4>1, <4>2
        <4> QED
          BY <2>1, <3>1, <3>6, <4>3 DEF Apart
      <3> QED
        BY <3>4, <3>5, <3>6
    <2> QED
      BY <1>1, <1>9, <2>1, <2>2 DEF Apart, Pulling
  <1>18. \A i : InGap(r, i) => InGap(c, i)
    BY <1>9 DEF InGap, Pulling
  <1>19. \A i : Newer(i) => Over(c, i)
    BY <1>1, <1>9 DEF Newer, Over, Busy, r
  <1> QED
    BY <1>2, <1>3, <1>4, <1>12, <1>13, <1>14, <1>15, <1>16, <1>17, <1>18, <1>19, OneMoves DEF r

-----------------------------------------------------------------------------
(* A batch of messages.                                                    *)
LEMMA PullStep ==
  ASSUME TypeOK, Kept, NEW j \in Jobs, Pull(j)
  PROVE  Kept'
  <1> DEFINE r == job[j]
             s == job'[j]
  <1>1. PICK K \in SUBSET tg : /\ PullTo(r, s, K) /\ s \in Job
                               /\ stored' = stored \cup Rows(K)
    BY PullEffect
  <1>2. \A k \in Jobs \ {j} : job'[k] = job[k]
    BY DEF Pull, TypeOK
  <1>3. UNCHANGED <<tg, top, smin, smax, base, torn>>
    BY DEF Pull, telegram, marks, history
  <1>4. Missing' = Missing \ K
    BY <1>1, <1>3 DEF Missing, Rows
  <1>5. r \in Job /\ K \subseteq Ids /\ r.pc = "pull"
    BY <1>1 DEF TypeOK, PullTo
  <1>6. Shape(r) /\ Placed(r) /\ Reads(r) /\ Topped(r)
    BY <1>5 DEF Kept, Tops, Busy
  <1>7. \A i \in Missing : i \in Ids /\ i \in tg /\ i \in Int /\ i <= MaxId
    BY SyncAssumption DEF Missing, TypeOK, Ids
  <1>8. \A i \in Missing : Missed(i) /\ Apart(i, r)
    BY <1>5 DEF Kept, Missed, Busy
  <1>9. base # None => base \in Int
    BY MarkInt DEF TypeOK
  <1>10. \A x \in K : x <= top
    BY <1>1 DEF Kept, Tops
  <1> HIDE DEF r, s
  <1>11. Numbers(r) /\ Numbers(s)
    BY <1>1, <1>5, JobNumbers
  <1>12. Shape(s) /\ Placed(s)
    BY <1>1, <1>5, <1>6, PullShape
  <1>13. \A x \in K : x \in Int /\ x < r.cursor /\ (r.old \/ x > r.above)
    BY <1>1, <1>5, PullsBelow
  <1>14. s.cursor <= r.cursor
    BY <1>1, <1>5, PullsBelow
  <1>15. r.newest # None /\ (~r.old \/ r.from = None) => s.newest = r.newest
    BY <1>1, <1>5, <1>6, PullKeepsNewest
  <1>16. Reads(s)
    BY <1>1, <1>5, <1>6, <1>15, <1>9, SyncAssumption DEF Reads, PullTo, Shape
  <1>17. Topped(s)
    <2>1. s.newest # None => s.newest <= top
      BY <1>1, <1>6, <1>10 DEF Topped, PullTo
    <2> QED
      BY <1>1, <1>6, <2>1 DEF Topped, PullTo
  <1>18. First(j)' => First(j)
    BY <1>1, <1>5 DEF First, PullTo, r, s
  (* Where a message is that is still missing. *)
  <1>19. ASSUME NEW i \in Missing'
         PROVE  /\ i < r.cursor => i < s.cursor \/ (~r.old /\ i <= r.above)
                /\ s.last /\ s.fetched < s.budget => r.cursor <= i \/ (~r.old /\ i <= r.above)
    <2>1. i \in tg /\ i \notin K /\ i \in Int
      BY <1>4, <1>7, <1>19
    <2>2. i \in Available(r) <=> i < r.cursor /\ (r.old \/ i > r.above)
      BY <2>1 DEF Available
    <2>3. ~r.old => r.above \in Int
      BY <1>5, <1>6, <1>11 DEF Placed, Pulling, Numbers
    <2>4. i \in Available(r) => i < s.cursor
      BY <1>1, <2>1, <2>2 DEF PullTo
    <2> QED
      BY <1>1, <1>11, <2>1, <2>2, <2>3, <2>4 DEF PullTo, Numbers
  <1>20. ASSUME NEW i \in Missing'
         PROVE  Apart(i, s)
    <2> DEFINE Gone == s.newest < i /\ s.saw < i
    <2>0. i \in Missing /\ Apart(i, r) /\ i \in Int /\ i <= MaxId
      BY <1>4, <1>7, <1>8, <1>20
    <2>1. /\ s.pc = "read" /\ s.old = r.old /\ s.from = r.from /\ s.above = r.above
          /\ s.saw = r.saw /\ (s.done <=> s.last /\ s.old /\ s.fetched < s.budget)
      BY <1>1 DEF PullTo
    (* A message that the cursor had passed. *)
    <2>2. r.cursor <= i /\ (~r.old \/ r.from = None) => /\ r.newest # None /\ s.newest = r.newest
                                                       /\ r.newest < i /\ r.saw < i
      <3>1. SUFFICES ASSUME r.cursor <= i, ~r.old \/ r.from = None
                     PROVE  /\ r.newest # None /\ s.newest = r.newest
                            /\ r.newest < i /\ r.saw < i
        OBVIOUS
      <3>2. r.newest # None
        BY <1>5, <1>6, <1>11, <2>0, <3>1 DEF Placed, Pulling, Numbers
      <3> QED
        BY <1>5, <1>11, <1>15, <2>0, <3>1, <3>2 DEF Apart, Pulling, Numbers
    <2>3. s.old /\ s.from # None => i < s.cursor \/ base < i
      BY <1>11, <1>19, <1>20, <2>0, <2>1 DEF Apart, Numbers
    <2>4. s.done => r.cursor <= i
      BY <1>19, <1>20, <2>1
    <2>5. s.done /\ base # None => base < i
      <3>1. CASE r.from = None
        BY <1>6, <2>1, <2>2, <2>4, <3>1 DEF Reads
      <3>2. CASE r.from # None
        BY <1>11, <2>0, <2>1, <2>4, <3>2 DEF Apart, Numbers
      <3> QED
        BY <3>1, <3>2
    <2>6. s.newest # None /\ (s.from = None \/ (~s.old /\ Pulling(s))) => i < s.cursor \/ Gone
      <3>1. SUFFICES ASSUME s.newest # None, s.from = None \/ (~s.old /\ Pulling(s))
                     PROVE  i < s.cursor \/ Gone
        OBVIOUS
      <3>2. CASE i < r.cursor
        <4>1. i < s.cursor \/ (~r.old /\ i <= r.above)
          BY <1>19, <1>20, <3>2
        <4>2. ~r.old => s.above < s.cursor /\ s.above # None
          BY <1>12, <2>1, <3>1 DEF Placed, Pulling
        <4> QED
          BY <1>11, <2>0, <2>1, <4>1, <4>2 DEF Numbers
      <3>3. CASE r.cursor <= i
        <4>1. ~r.old \/ r.from = None
          BY <2>1, <3>1
        <4> QED
          BY <2>1, <2>2, <3>3, <4>1
      <3> QED
        BY <1>11, <2>0, <3>2, <3>3 DEF Numbers
    <2>7. s.from = None /\ s.done => s.saw < i /\ (s.newest # None => s.newest < i)
      BY <2>1, <2>2, <2>4
    <2>8. ~s.old /\ s.last /\ s.fetched < s.budget =>
            s.above >= i \/ (s.saw < i /\ (s.newest # None => s.newest < i))
      <3>1. SUFFICES ASSUME ~s.old, s.last, s.fetched < s.budget
                     PROVE  s.above >= i \/ (s.saw < i /\ s.newest < i)
        OBVIOUS
      <3>2. s.above # None
        BY <1>12, <2>1, <3>1 DEF Placed, Pulling
      <3> QED
        BY <1>11, <1>19, <1>20, <2>0, <2>1, <2>2, <3>1, <3>2 DEF Numbers
    <2>9. s.above # None /\ (s.old \/ s.pc = "finish") /\ ~torn => i <= s.above \/ s.saw < i
      BY <2>0, <2>1 DEF Apart
    <2> QED
      BY <2>0, <2>1, <2>3, <2>5, <2>6, <2>7, <2>8, <2>9 DEF Apart, Pulling
  <1>21. ASSUME NEW i \in Missing', InGap(r, i)
         PROVE  InGap(s, i)
    <2>1. i < r.cursor /\ ~r.old /\ r.above < i /\ r.newest # None /\ r.above # None /\ i \in Int
      BY <1>4, <1>5, <1>6, <1>7, <1>21 DEF InGap, Placed, Pulling
    <2>2. i < s.cursor
      BY <1>11, <1>19, <1>21, <2>1 DEF Numbers
    <2> QED
      BY <1>1, <1>15, <2>1, <2>2 DEF InGap, Pulling, PullTo
  <1>22. ASSUME NEW i \in Missing', base # None, base < i, Newer(i)
         PROVE  Over(s, i) \/ InGap(s, i)
    <2>1. Over(r, i) /\ i \in Int
      BY <1>4, <1>5, <1>7, <1>22 DEF Newer, Busy, r
    <2>2. s.above # None => s.above < i
      BY <1>1, <2>1 DEF Over, PullTo
    <2>3. CASE K = {}
      BY <1>1, <2>1, <2>2, <2>3 DEF Over, PullTo
    <2>4. CASE K # {}
      <3>1. s.newest \in K \/ s.newest = r.newest
        BY <1>1, <2>4 DEF PullTo
      <3>2. CASE r.old /\ r.from # None
        <4>1. r.cursor <= r.from /\ r.from <= base
          BY <1>6, <3>2 DEF Placed, Reads
        <4>2. \A x \in K : x < i
          BY <1>9, <1>11, <1>13, <1>22, <2>1, <3>2, <4>1 DEF Numbers
        <4> QED
          BY <2>1, <2>2, <3>1, <4>2 DEF Over
      <3>3. CASE r.old /\ r.from = None
        <4>1. s.newest = r.newest
          BY <1>6, <1>15, <1>22, <3>3 DEF Reads
        <4> QED
          BY <2>1, <2>2, <4>1 DEF Over
      <3>4. CASE ~r.old
        <4>1. s.newest # None /\ r.above # None /\ r.above < i
          BY <1>1, <1>5, <1>6, <2>1, <2>4, <3>4, SyncAssumption
          DEF Placed, Pulling, Over, PullTo, Ids
        <4>2. CASE i < r.cursor
          <5>1. i < s.cursor
            BY <1>11, <1>19, <1>22, <2>1, <4>1, <4>2 DEF Numbers
          <5> QED
            BY <1>1, <3>4, <4>1, <5>1 DEF InGap, Pulling, PullTo
        <4>3. CASE r.cursor <= i
          <5>1. \A x \in K : x < i
            BY <1>11, <1>13, <2>1, <4>3 DEF Numbers
          <5> QED
            BY <2>1, <2>2, <3>1, <5>1 DEF Over
        <4> QED
          BY <1>11, <2>1, <4>2, <4>3 DEF Numbers
      <3> QED
        BY <3>2, <3>3, <3>4
    <2> QED
      BY <2>3, <2>4
  <1>23. Missing' \subseteq Missing
    BY <1>4
  <1> QED
    BY <1>2, <1>3, <1>12, <1>16, <1>17, <1>18, <1>20, <1>21, <1>22, <1>23, OneMoves DEF r, s

-----------------------------------------------------------------------------
(* Moving the marks.                                                       *)

(* What becomes of a job r that has moved them: it pulls its next batch,     *)
(* goes on to the backfill, or is at its end.                              *)
WroteTo(r, c) ==
  /\ c.from = r.from /\ c.above = r.above /\ c.newest = r.newest /\ c.oldest = r.oldest
  /\ c.done = r.done /\ c.saw = r.saw
  /\ \/ /\ ~r.last /\ c.pc = "pull" /\ ~c.last /\ c.old = r.old /\ c.cursor = r.cursor
        /\ c.fetched = r.fetched /\ c.budget = r.budget
     \/ /\ r.last /\ r.old /\ c.pc = "finish" /\ c.old /\ c.last /\ c.cursor = r.cursor
        /\ c.fetched = r.fetched /\ c.budget = r.budget
     \/ /\ r.last /\ ~r.old /\ r.fetched < r.budget /\ NeedsBackfill(r.from)
        /\ c.pc = "pull" /\ c.old /\ ~c.last /\ c.cursor = OldCursor(r.from) /\ c.fetched = 0
        /\ c.fetched <= c.budget
     \/ /\ r.last /\ ~r.old /\ r.fetched < r.budget /\ ~NeedsBackfill(r.from)
        /\ c.pc = "finish" /\ ~c.old /\ c.fetched = r.fetched /\ c.budget = r.budget
     \/ /\ r.last /\ ~r.old /\ r.fetched >= r.budget
        /\ c.pc = "finish" /\ ~c.old /\ c.fetched = r.fetched /\ c.budget = r.budget

LEMMA WriteEffect ==
  ASSUME TypeOK, NEW j \in Jobs, ProgressWrite(j)
  PROVE  /\ job[j] \in Job /\ job[j].pc = "write"
         /\ WroteTo(job[j], job'[j])
         /\ \A k \in Jobs \ {j} : job'[k] = job[k]
  <1> DEFINE r == job[j]
             c == IF ~r.last THEN [r EXCEPT !.pc = "pull"]
                  ELSE IF r.old THEN [r EXCEPT !.pc = "finish"]
                  ELSE StartOldOrFinish(r, r.budget - r.fetched)
  <1>1. r \in Job /\ r.pc = "write" /\ job' = [job EXCEPT ![j] = c]
    BY DEF ProgressWrite, TypeOK
  <1>2. job'[j] = c /\ \A k \in Jobs \ {j} : job'[k] = job[k]
    BY <1>1 DEF TypeOK
  <1> HIDE DEF r
  <1>3. r.budget - r.fetched > 0 <=> r.fetched < r.budget
    BY <1>1, JobNumbers DEF Numbers
  <1>4. ~(r.fetched < r.budget) => r.fetched >= r.budget
    BY <1>1, JobNumbers DEF Numbers
  <1>5. WroteTo(r, c)
    <2>1. CASE ~r.last
      BY <1>1, <2>1 DEF WroteTo, Job
    <2>2. CASE r.last /\ r.old
      BY <1>1, <2>2 DEF WroteTo, Job
    <2>3. CASE r.last /\ ~r.old /\ r.fetched < r.budget /\ NeedsBackfill(r.from)
      <3>1. 0 <= r.budget - r.fetched
        BY <1>1, <2>3, JobNumbers DEF Numbers
      <3> QED
        BY <1>1, <1>3, <2>3, <3>1 DEF WroteTo, StartOldOrFinish, Job
    <2>4. CASE r.last /\ ~r.old /\ r.fetched < r.budget /\ ~NeedsBackfill(r.from)
      BY <1>1, <1>3, <2>4 DEF WroteTo, StartOldOrFinish, Job
    <2>5. CASE r.last /\ ~r.old /\ ~(r.fetched < r.budget)
      BY <1>1, <1>3, <1>4, <2>5 DEF WroteTo, StartOldOrFinish, Job
    <2> QED
      BY <2>1, <2>2, <2>3, <2>4, <2>5
  <1> QED
    BY <1>1, <1>2, <1>5 DEF r

(* What is said of the place of a job holds of the job it becomes.         *)
LEMMA WroteShape ==
  ASSUME NEW r \in Job, NEW c, WroteTo(r, c), r.pc = "write", Shape(r), Placed(r)
  PROVE  /\ Shape(c) /\ Placed(c) /\ Busy(c) /\ c.pc \in {"pull", "finish"}
         /\ c.cursor = r.cursor \/ c.pc = "finish" \/ (c.old /\ ~r.old)
  <1>0. Numbers(r)
    BY JobNumbers
  <1>1. CASE ~r.last
    BY <1>1 DEF WroteTo, Shape, Placed, Pulling, Busy
  <1>2. CASE r.last /\ r.old
    BY <1>2 DEF WroteTo, Shape, Placed, Pulling, Busy
  <1>3. CASE r.last /\ ~r.old
    <2>1. r.above # None /\ r.from # None /\ ~r.done
      BY <1>3 DEF Shape, Placed, Pulling
    <2>2. r.newest # None => r.newest > r.above /\ r.oldest > r.above
      <3>1. SUFFICES ASSUME r.newest # None
                     PROVE  r.newest > r.above /\ r.oldest > r.above
        OBVIOUS
      <3>2. r.oldest = r.cursor /\ r.cursor <= r.newest /\ r.above < r.cursor
        BY <1>3, <3>1 DEF Placed, Pulling
      <3> QED
        BY <1>0, <2>1, <3>1, <3>2 DEF Numbers
    <2>3. CASE r.fetched < r.budget /\ NeedsBackfill(r.from)
      <3>1. /\ c.pc = "pull" /\ c.old /\ ~c.last /\ c.cursor = r.from /\ ~c.done
            /\ c.from = r.from /\ c.above = r.above /\ c.newest = r.newest
            /\ c.oldest = r.oldest /\ c.fetched <= c.budget
        BY <1>0, <1>3, <2>1, <2>3 DEF Numbers, WroteTo, OldCursor
      <3>2. r.from > 1 /\ r.from <= r.from
        BY <1>0, <2>1, <2>3 DEF NeedsBackfill, Numbers
      <3>3. r.newest = None <=> r.oldest = None
        BY DEF Shape
      <3>4. Shape(c)
        BY <2>1, <3>1, <3>3 DEF Shape
      <3>5. Placed(c)
        BY <2>1, <2>2, <3>1, <3>2, <3>3 DEF Placed
      <3> QED
        BY <1>3, <3>1, <3>4, <3>5 DEF Busy
    <2>4. CASE r.fetched < r.budget /\ ~NeedsBackfill(r.from)
      <3>1. r.from = 1
        BY <1>0, <2>1, <2>4 DEF NeedsBackfill, Numbers
      <3> QED
        BY <1>0, <1>3, <2>1, <2>4, <3>1 DEF WroteTo, Shape, Placed, Pulling, Busy
    <2>5. CASE ~(r.fetched < r.budget)
      BY <1>3, <2>1, <2>5 DEF WroteTo, Shape, Placed, Pulling, Busy
    <2> QED
      BY <2>3, <2>4, <2>5
  <1> QED
    BY <1>1, <1>2, <1>3

(* The marks that are moved are there already.                             *)
LEMMA WriteStepLater ==
  ASSUME TypeOK, TypeOK', Kept, NEW j \in Jobs, ProgressWrite(j), base # None
  PROVE  Kept'
  <1> DEFINE r == job[j]
             c == job'[j]
  <1>1. /\ r \in Job /\ Numbers(r) /\ r.pc = "write" /\ WroteTo(r, c)
        /\ \A k \in Jobs \ {j} : job'[k] = job[k]
    BY WriteEffect, JobNumbers
  <1>2. Shape(r) /\ Placed(r) /\ Reads(r) /\ Topped(r)
    BY <1>1 DEF Kept, Tops, Busy
  <1>3. /\ UNCHANGED <<tg, top, stored>>
        /\ base' = base
        /\ torn' = (torn \/ (r.last /\ ~r.old /\ r.fetched = r.budget))
        /\ smax' = IF r.newMax = None THEN smax ELSE r.newMax
        /\ smin' = IF r.newMin = None THEN smin ELSE r.newMin
    BY DEF ProgressWrite, MoveMarks, telegram
  <1>4. Missing' = Missing
    BY <1>3 DEF Missing
  <1>5. \A i \in Missing : Missed(i) /\ Apart(i, r) /\ i \in Int /\ 1 <= i
    BY <1>1, SyncAssumption DEF Kept, Missed, Busy, Missing, TypeOK, Ids
  <1>6. base \in Int /\ smax \in Int /\ smin \in Int /\ smax # None /\ smin # None
    <2>1. smax # None /\ smin # None
      BY DEF Kept, Marks
    <2> QED
      BY <2>1, MarkInt DEF TypeOK
  <1> HIDE DEF r, c
  <1>7. Shape(c) /\ Placed(c) /\ Busy(c) /\ c.pc \in {"pull", "finish"}
    BY <1>1, <1>2, WroteShape
  <1>8. c.from = r.from /\ c.above = r.above /\ c.newest = r.newest /\ c.saw = r.saw
        /\ c.done = r.done
    BY <1>1 DEF WroteTo
  <1>9. r.from = None => r.old /\ c.old /\ c.cursor = r.cursor
    <2>1. r.from = None => r.old
      BY <1>1, <1>2 DEF Shape, Placed, Pulling
    <2> QED
      BY <1>1, <2>1 DEF WroteTo
  <1>10. \A k \in Jobs : Busy(job'[k]) =>
           Shape(job'[k]) /\ Placed(job'[k]) /\ Reads(job'[k]) /\ Topped(job'[k])
    <2>1. Reads(c) /\ Topped(c)
      BY <1>2, <1>7, <1>8 DEF Reads, Topped
    <2> QED
      BY <1>1, <1>7, <2>1 DEF Kept, Tops, c
  <1>11. \A k \in Jobs : Reads(job'[k]) => Reads(job[k])'
    BY <1>3 DEF Reads
  <1>12. Tops'
    <2>1. \A k \in Jobs : Topped(job'[k]) => Topped(job[k])'
      BY <1>3 DEF Topped
    <2>2. smax' <= top
      <3>1. smax <= top
        BY <1>6 DEF Kept, Tops
      <3>2. r.newMax # None => r.newMax = r.newest /\ r.newest <= top
        BY <1>1, <1>2 DEF Shape, Topped
      <3> QED
        BY <1>3, <3>1, <3>2
    <2>3. smax' # None => smax' <= top'
      BY <1>3, <2>2
    <2>4. base' # None => base' <= top'
      BY <1>3 DEF Kept, Tops
    <2>5. \A i \in tg' : i <= top'
      BY <1>3 DEF Kept, Tops
    <2>6. \A k \in Jobs : Busy(job[k])' => Topped(job[k])'
      BY <1>10, <2>1 DEF Busy
    <2> QED
      BY <2>3, <2>4, <2>5, <2>6 DEF Tops
  <1>13. Marks'
    <2>1. r.newMax # None => base <= r.newMax
      BY <1>1, <1>2 DEF Reads
    <2>2. r.newMin # None => r.newMin <= base
      BY <1>1, <1>2 DEF Reads
    <2> QED
      BY <1>3, <1>6, <2>1, <2>2 DEF Kept, Marks
  <1>14. OneFirst'
    <2>1. \A k \in Jobs : First(k)' => First(k)
      BY <1>1, <1>7, <1>8 DEF First, r, c
    <2> QED
      BY <2>1 DEF Kept, OneFirst
  <1>15. ASSUME NEW i \in Missing
         PROVE  Missed(i)'
    <2>1. Apart(i, r) /\ Outside(i) /\ i \in Int
      BY <1>5 DEF Missed
    <2>2. Outside(i)'
      BY <1>1, <1>3, <2>1 DEF Outside, Apart
    (* A pull of new messages that was the last of its own is done. *)
    <2>3. ~r.old /\ r.last /\ ~torn' => i <= r.above \/ (r.saw < i /\ (r.newest # None => r.newest < i))
      <3>1. SUFFICES ASSUME ~r.old, r.last, ~torn'
                     PROVE  i <= r.above \/ (r.saw < i /\ (r.newest # None => r.newest < i))
        OBVIOUS
      <3>2. r.fetched < r.budget
        <4>1. r.fetched # r.budget
          BY <1>3, <3>1
        <4>2. r.fetched <= r.budget
          BY <1>2 DEF Shape
        <4> QED
          BY <1>1, <4>1, <4>2 DEF Numbers
      <3> QED
        BY <1>1, <2>1, <3>1, <3>2 DEF Apart
    <2>4. Apart(i, job[j])'
      <3>1. c.from # None /\ c.above # None => i < c.from \/ base < i
        BY <1>8, <2>1 DEF Apart
      <3>2. c.old /\ c.from # None => i < c.cursor \/ base < i
        <4>1. SUFFICES ASSUME c.old, c.from # None
                       PROVE  i < c.cursor \/ base < i
          OBVIOUS
        <4>2. CASE r.old
          BY <1>1, <1>8, <2>1, <4>1, <4>2 DEF Apart, WroteTo
        <4>3. CASE ~r.old
          <5>1. c.cursor = r.from /\ r.above # None
            BY <1>1, <1>2, <1>8, <4>1, <4>3 DEF WroteTo, OldCursor, Placed, Pulling
          <5> QED
            BY <1>8, <2>1, <4>1, <5>1 DEF Apart
        <4> QED
          BY <4>2, <4>3
      <3>3. c.done => base < i
        BY <1>8, <2>1 DEF Apart
      <3>4. c.newest # None /\ (c.from = None \/ (~c.old /\ Pulling(c))) =>
              i < c.cursor \/ (c.newest < i /\ c.saw < i)
        <4>1. SUFFICES ASSUME c.newest # None, c.from = None \/ (~c.old /\ Pulling(c))
                       PROVE  i < c.cursor \/ (c.newest < i /\ c.saw < i)
          OBVIOUS
        <4>2. c.cursor = r.cursor /\ (r.from = None \/ (~r.old /\ Pulling(r)))
          <5>1. CASE c.from = None
            BY <1>8, <1>9, <5>1
          <5>2. CASE ~c.old /\ Pulling(c)
            <6>1. c.pc = "pull"
              BY <1>7, <5>2 DEF Pulling
            <6>2. c.cursor = r.cursor /\ ~r.old
              BY <1>1, <5>2, <6>1 DEF WroteTo
            <6> QED
              BY <1>1, <6>2 DEF Pulling
          <5> QED
            BY <4>1, <5>1, <5>2
        <4> QED
          BY <1>8, <2>1, <4>1, <4>2 DEF Apart
      <3>5. c.from = None /\ c.done => c.saw < i /\ (c.newest # None => c.newest < i)
        BY <1>8, <2>1 DEF Apart
      <3>6. c.above # None /\ (c.old \/ c.pc = "finish") /\ ~torn' => i <= c.above \/ c.saw < i
        <4>1. SUFFICES ASSUME c.above # None, c.old \/ c.pc = "finish", ~torn'
                       PROVE  i <= c.above \/ c.saw < i
          OBVIOUS
        <4>2. CASE r.old
          BY <1>3, <1>8, <2>1, <4>1, <4>2 DEF Apart
        <4>3. CASE ~r.old
          <5>1. r.last
            BY <1>1, <4>1, <4>3 DEF WroteTo
          <5> QED
            BY <1>8, <2>3, <4>1, <4>3, <5>1
        <4> QED
          BY <4>2, <4>3
      <3>7. c.pc # "write" /\ c.pc \notin {"read", "write"}
        BY <1>7
      <3> QED
        BY <1>3, <3>1, <3>2, <3>3, <3>4, <3>5, <3>6, <3>7 DEF Apart, c, Pulling
    <2>5. ASSUME NEW k \in Jobs, Busy(job'[k])
          PROVE  Apart(i, job[k])'
      <3>1. CASE k = j
        BY <2>4, <3>1
      <3>2. CASE k # j
        <4>1. Apart(i, job[k])
          BY <1>1, <1>5, <2>5, <3>2 DEF Missed
        <4> QED
          BY <1>1, <1>3, <3>2, <4>1 DEF Apart
      <3> QED
        BY <3>1, <3>2
    <2>6. ASSUME ~torn', base < i
          PROVE  Owed(i)' \/ Newer(i)'
      <3>0. Owed(i) \/ Newer(i)
        BY <1>3, <1>5, <2>6 DEF Missed
      <3>1. ASSUME NEW k \in Jobs, InGap(job[k], i)
            PROVE  InGap(job'[k], i)
        <4>1. CASE k # j
          BY <1>1, <3>1, <4>1
        <4>2. CASE k = j
          <5>1. InGap(r, i)
            BY <3>1, <4>2 DEF r
          <5>2. ~r.old /\ r.newest # None /\ r.above < i /\ i < r.cursor /\ r.above # None
            BY <1>1, <1>2, <5>1 DEF InGap, Placed, Pulling
          <5>3. r.cursor <= r.newest
            BY <1>1, <1>2, <5>2 DEF Placed, Pulling
          <5>4. ~r.last
            BY <1>1, <2>1, <2>3, <2>6, <5>2, <5>3 DEF Numbers
          <5>5. c.pc = "pull" /\ c.old = r.old /\ c.cursor = r.cursor
            BY <1>1, <5>4 DEF WroteTo
          <5> QED
            BY <1>8, <4>2, <5>2, <5>5 DEF InGap, Pulling, c
        <4> QED
          BY <4>1, <4>2
      <3>2. CASE Owed(i)
        <4>1. \E k \in Jobs : InGap(job'[k], i)
          BY <3>1, <3>2 DEF Owed
        <4> QED
          BY <4>1 DEF Owed, InGap
      <3>3. CASE Newer(i)
        <4>1. smax' < i
          <5>1. r.newMax # None => r.newMax = r.newest
            BY <1>1, <1>2 DEF Shape
          <5>2. r.newest # None => r.newest < i
            BY <1>1, <3>3 DEF Newer, Over, Busy, r
          <5> QED
            BY <1>3, <3>3, <5>1, <5>2 DEF Newer
        <4>2. \A k \in Jobs : Busy(job'[k]) => Over(job'[k], i)
          <5>1. Over(c, i)
            BY <1>1, <1>8, <3>3 DEF Newer, Over, Busy, r
          <5> QED
            BY <1>1, <3>3, <5>1 DEF Newer, c
        <4> QED
          BY <4>1, <4>2 DEF Newer, Over
      <3> QED
        BY <3>0, <3>2, <3>3
    <2> QED
      BY <1>3, <2>2, <2>5, <2>6 DEF Missed, Busy
  <1> QED
    BY <1>4, <1>10, <1>11, <1>12, <1>13, <1>14, <1>15 DEF Kept, Busy, Shape, Placed, Pulling

(* The first batch of a first sync sets the marks; no other job is at work.  *)
LEMMA WriteStepFirst ==
  ASSUME TypeOK, TypeOK', Kept, NEW j \in Jobs, ProgressWrite(j), base = None
  PROVE  Kept'
  <1> DEFINE r == job[j]
             c == job'[j]
  <1>1. /\ r \in Job /\ Numbers(r) /\ r.pc = "write" /\ WroteTo(r, c)
        /\ \A k \in Jobs \ {j} : job'[k] = job[k]
    BY WriteEffect, JobNumbers
  <1>2. Shape(r) /\ Placed(r) /\ Reads(r) /\ Topped(r)
    BY <1>1 DEF Kept, Tops, Busy
  <1>3. /\ UNCHANGED <<tg, top, stored>>
        /\ torn' = (torn \/ (r.last /\ ~r.old /\ r.fetched = r.budget))
        /\ smax' = IF r.newMax = None THEN smax ELSE r.newMax
        /\ smin' = IF r.newMin = None THEN smin ELSE r.newMin
        /\ base' = smax'
    BY DEF ProgressWrite, MoveMarks, telegram
  <1>4. Missing' = Missing
    BY <1>3 DEF Missing
  <1>5. \A i \in Missing : Missed(i) /\ Apart(i, r) /\ i \in Int
    <2>1. \A i \in Missing : i \in Int
      BY SyncAssumption DEF Missing, TypeOK, Ids
    <2> QED
      BY <1>1, <2>1 DEF Kept, Missed, Busy
  <1>6. smax = None /\ (smin = None \/ smin = 1)
    BY DEF Kept, Marks
  <1>7. First(j)
    <2>1. r.from # None /\ r.above # None => FALSE
      BY <1>2 DEF Reads
    <2>2. r.from # None /\ r.above = None => FALSE
      BY <1>1, <1>2 DEF Shape, Pulling
    <2> QED
      BY <1>1, <2>1, <2>2 DEF First
  <1>8. r.from = None /\ smin = None /\ r.old /\ r.above = None
    BY <1>1, <1>2, <1>7 DEF First, Reads, Shape, Placed, Pulling
  <1>9. \A k \in Jobs \ {j} : ~Busy(job[k])
    <2>1. SUFFICES ASSUME NEW k \in Jobs \ {j}, Busy(job[k])
                   PROVE  FALSE
      OBVIOUS
    <2>2. ~First(k)
      BY <1>7, <2>1 DEF Kept, OneFirst
    <2>3. job[k].from # None
      BY <2>1, <2>2 DEF First, Busy
    <2> QED
      BY <1>8, <2>1, <2>3 DEF Kept, Reads
  <1> HIDE DEF r, c
  <1>10. Shape(c) /\ Placed(c) /\ Busy(c) /\ c.pc \in {"pull", "finish"}
    BY <1>1, <1>2, WroteShape
  <1>11. c.from = r.from /\ c.above = r.above /\ c.newest = r.newest /\ c.saw = r.saw
         /\ c.done = r.done /\ c.old /\ c.cursor = r.cursor
    BY <1>1, <1>8 DEF WroteTo
  <1>12. r.newest = None => smax' = None /\ smin' = None
    BY <1>1, <1>2, <1>3, <1>6, <1>8 DEF Shape
  <1>13. r.newest # None => /\ smax' = r.newest /\ smin' = r.cursor /\ r.cursor <= r.newest
                            /\ r.oldest # None /\ r.oldest = r.cursor
    <2>1. SUFFICES ASSUME r.newest # None
                   PROVE  /\ smax' = r.newest /\ smin' = r.cursor /\ r.cursor <= r.newest
                          /\ r.oldest # None /\ r.oldest = r.cursor
      OBVIOUS
    <2>2. r.newMax = r.newest /\ r.newMin = r.oldest
      BY <1>1, <1>2, <1>8, <2>1 DEF Reads
    <2>3. r.oldest # None /\ r.oldest = r.cursor /\ r.cursor <= r.newest
      BY <1>2, <1>8, <2>1 DEF Shape, Placed
    <2> QED
      BY <1>3, <2>1, <2>2, <2>3
  <1>14. Marks'
    BY <1>1, <1>3, <1>12, <1>13 DEF Marks, Numbers
  <1>15. Reads(job[j])'
    BY <1>3, <1>8, <1>10, <1>11, <1>12, <1>13 DEF Reads, c
  <1>16. Tops'
    <2>1. Topped(c)
      BY <1>2, <1>11 DEF Topped
    <2>2. smax' # None => smax' <= top
      BY <1>2, <1>12, <1>13 DEF Topped
    <2>3. \A k \in Jobs : Busy(job'[k]) => k = j
      BY <1>1, <1>9
    <2> QED
      BY <1>3, <2>1, <2>2, <2>3 DEF Kept, Tops, Topped, Busy, c
  <1>17. OneFirst'
    <2>1. \A k \in Jobs : First(k)' => First(k)
      BY <1>1, <1>7 DEF First
    <2> QED
      BY <2>1 DEF Kept, OneFirst
  <1>18. ASSUME NEW i \in Missing
         PROVE  Missed(i)'
    <2>1. Apart(i, r) /\ i \in Int
      BY <1>5
    <2>2. Outside(i)'
      BY <1>3, <1>8, <1>12, <1>13, <2>1 DEF Outside, Apart
    <2>3. Apart(i, job[j])'
      BY <1>3, <1>8, <1>10, <1>11, <1>12, <1>13, <2>1 DEF Apart, c, Pulling
    <2>4. base' # None /\ base' < i => Newer(i)'
      <3>1. SUFFICES ASSUME base' # None, base' < i
                     PROVE  Newer(i)'
        OBVIOUS
      <3>2. smax' < i /\ Over(c, i)
        BY <1>3, <1>8, <1>11, <1>12, <1>13, <3>1 DEF Over
      <3>3. \A k \in Jobs : Busy(job'[k]) => Over(job'[k], i)
        BY <1>1, <1>9, <3>2 DEF c
      <3> QED
        BY <3>2, <3>3 DEF Newer, Over
    <2>5. \A k \in Jobs : Busy(job'[k]) => k = j
      BY <1>1, <1>9
    <2> QED
      BY <2>2, <2>3, <2>4, <2>5 DEF Missed, Busy
  <1>19. \A k \in Jobs : Busy(job'[k]) => k = j
    BY <1>1, <1>9
  <1> QED
    BY <1>4, <1>10, <1>14, <1>15, <1>16, <1>17, <1>18, <1>19
    DEF Kept, Busy, Shape, Placed, Pulling, c

LEMMA FinishStep ==
  ASSUME TypeOK, Kept, NEW j \in Jobs, Finish(j)
  PROVE  Kept'
  <1> DEFINE r == job[j]
  <1>1. /\ r.pc = "finish" /\ r \in Job
        /\ job'[j] = Idle
        /\ \A k \in Jobs \ {j} : job'[k] = job[k]
        /\ smin' = IF r.done THEN 1 ELSE smin
        /\ UNCHANGED <<tg, top, stored, smax, base, torn>>
    BY DEF Finish, TypeOK, telegram, history
  <1>2. Missing' = Missing
    BY <1>1 DEF Missing
  <1>3. Shape(r) /\ Placed(r) /\ Reads(r)
    BY <1>1 DEF Kept, Busy
  <1>4. \A i \in Missing : Missed(i) /\ Apart(i, r) /\ i \in Int
    <2>1. \A i \in Missing : i \in Int
      BY SyncAssumption DEF Missing, TypeOK, Ids
    <2> QED
      BY <1>1, <2>1 DEF Kept, Missed, Busy
  <1>5. ~Busy(job'[j]) /\ ~First(j)'
    BY <1>1 DEF Busy, First, Idle
  <1>6. 1 # None /\ (base # None => 1 <= base /\ base \in Int)
    BY MarkInt, SyncAssumption DEF TypeOK
  <1> HIDE DEF r
  (* A job that reaches the beginning while there are no marks is the first. *)
  <1>7. r.done /\ base = None => \A k \in Jobs \ {j} : ~First(k)
    <2>1. r.done /\ base = None => r.from = None
      BY <1>3 DEF Shape, Placed, Reads
    <2> QED
      BY <1>1, <2>1 DEF Kept, OneFirst, First, r
  <1>8. ASSUME NEW k \in Jobs, Busy(job'[k])
        PROVE  Shape(job'[k]) /\ Placed(job'[k]) /\ Reads(job[k])' /\ Topped(job[k])'
    <2>1. k # j /\ job'[k] = job[k] /\ Busy(job[k])
      BY <1>1, <1>5, <1>8
    <2>2. Shape(job[k]) /\ Placed(job[k]) /\ Reads(job[k]) /\ Topped(job[k])
      BY <2>1 DEF Kept, Tops
    <2>3. job[k].from = None => First(k)
      BY <2>1 DEF First, Busy
    <2>4. Reads(job[k])'
      BY <1>1, <1>6, <1>7, <2>1, <2>2, <2>3 DEF Reads
    <2> QED
      BY <1>1, <2>1, <2>2, <2>4 DEF Topped
  <1>9. Tops'
    BY <1>1, <1>8 DEF Kept, Tops, Busy
  <1>10. Marks'
    BY <1>1, <1>6 DEF Kept, Marks
  <1>11. OneFirst'
    BY <1>1, <1>5 DEF Kept, OneFirst, First
  <1>12. ASSUME NEW i \in Missing
         PROVE  Missed(i)'
    <2>1. Outside(i)'
      BY <1>1, <1>4 DEF Missed, Outside, Apart
    <2>2. ASSUME NEW k \in Jobs, Busy(job'[k])
          PROVE  Apart(i, job[k])'
      <3>1. job'[k] = job[k] /\ Apart(i, job[k])
        BY <1>1, <1>4, <1>5, <2>2 DEF Missed
      <3> QED
        BY <1>1, <3>1 DEF Apart
    <2>3. Owed(i) => Owed(i)'
      <3>1. ~InGap(r, i)
        BY <1>1 DEF InGap, Pulling
      <3> QED
        BY <1>1, <3>1 DEF Owed, InGap, Pulling, r
    <2>4. Newer(i) => Newer(i)'
      BY <1>1, <1>5 DEF Newer, Over, Busy
    <2> QED
      BY <1>1, <1>4, <2>1, <2>2, <2>3, <2>4 DEF Missed, Busy
  <1> QED
    BY <1>2, <1>8, <1>9, <1>10, <1>11, <1>12 DEF Kept, Busy, Shape, Placed, Pulling

-----------------------------------------------------------------------------
(* The worker and the chat.                                                *)
LEMMA RestartStep ==
  ASSUME TypeOK, Kept, WorkerRestart
  PROVE  Kept'
  <1>1. /\ job' = [j \in Jobs |-> Idle]
        /\ torn' = (torn \/ \E j \in Jobs : MidNew(j))
        /\ UNCHANGED <<tg, top, stored, smin, smax, base>>
    BY DEF WorkerRestart, telegram, marks
  <1>2. \A k \in Jobs : ~Busy(job'[k]) /\ ~First(k)'
    BY <1>1 DEF Busy, First, Idle
  <1>3. Missing' = Missing
    BY <1>1 DEF Missing
  <1>4. Tops' /\ Marks' /\ OneFirst'
    BY <1>1, <1>2 DEF Kept, Tops, Marks, OneFirst, Busy
  <1>5. ASSUME NEW i \in Missing
        PROVE  Missed(i)'
    <2>1. Outside(i)'
      BY <1>1 DEF Kept, Missed, Outside
    <2>2. ~torn' => ~torn /\ ~Owed(i)
      <3>1. ~torn' => ~torn /\ \A k \in Jobs : ~MidNew(k)
        BY <1>1
      <3>2. \A k \in Jobs : InGap(job[k], i) => MidNew(k)
        BY DEF InGap, MidNew, Pulling
      <3> QED
        BY <3>1, <3>2 DEF Owed
    <2>3. Newer(i) => Newer(i)'
      BY <1>1, <1>2 DEF Newer, Busy
    <2> QED
      BY <1>1, <1>2, <2>1, <2>2, <2>3 DEF Kept, Missed, Busy
  <1> QED
    BY <1>2, <1>3, <1>4, <1>5 DEF Kept, Busy

LEMMA NewMessageStep ==
  ASSUME TypeOK, Kept, NewMessage
  PROVE  Kept'
  <1>1. /\ top' = top + 1 /\ tg' = tg \cup {top'} /\ top \in Int
        /\ UNCHANGED <<stored, smin, smax, base, job, torn>>
    BY SyncAssumption DEF NewMessage, marks, history, TypeOK
  <1>2. \A i \in Missing' : i \in Missing \/ i = top + 1
    BY <1>1 DEF Missing
  <1>3. Marks' /\ OneFirst'
    BY <1>1 DEF Kept, Marks, OneFirst, First
  <1>4. \A v \in Mark : v # None => v \in Int
    BY MarkInt
  <1>5. smax \in Mark /\ base \in Mark /\ \A k \in Jobs : job[k] \in Job
    BY DEF TypeOK
  <1>6. \A k \in Jobs : Numbers(job[k])
    BY <1>5, JobNumbers
  <1>7. \A i \in tg : i \in Int
    BY SyncAssumption DEF TypeOK, Ids
  <1>8. Tops'
    <2>1. \A i \in tg' : i <= top'
      BY <1>1, <1>7 DEF Kept, Tops
    <2>2. \A v \in {smax, base} : v # None => v <= top'
      BY <1>1, <1>4, <1>5 DEF Kept, Tops
    <2>3. ASSUME NEW k \in Jobs, Busy(job[k])
          PROVE  Topped(job[k])'
      <3>1. Topped(job[k]) /\ Numbers(job[k])
        BY <1>6, <2>3 DEF Kept, Tops
      <3> QED
        BY <1>1, <3>1 DEF Topped, Numbers
    <2> QED
      BY <1>1, <2>1, <2>2, <2>3 DEF Tops, Busy
  <1>9. \A k \in Jobs : Busy(job[k]) => Shape(job[k]) /\ Placed(job[k]) /\ Reads(job[k])
    BY DEF Kept
  <1>10. \A k \in Jobs : Reads(job[k]) => Reads(job[k])'
    BY <1>1 DEF Reads
  <1>11. ASSUME NEW i \in Missing
         PROVE  Missed(i)'
    <2>1. Outside(i)' /\ (Owed(i) => Owed(i)') /\ (Newer(i) => Newer(i)')
      BY <1>1, <1>11 DEF Kept, Missed, Outside, Owed, InGap, Pulling, Newer, Over, Busy
    <2>2. \A k \in Jobs : Apart(i, job[k]) => Apart(i, job[k])'
      BY <1>1 DEF Apart
    <2>3. \A k \in Jobs : Busy(job[k])' <=> Busy(job[k])
      BY <1>1 DEF Busy
    <2> QED
      BY <1>1, <1>11, <2>1, <2>2, <2>3 DEF Kept, Missed
  (* The new message is above everything anybody has seen. *)
  <1>12. ASSUME NEW i, i = top + 1
         PROVE  Missed(i)'
    <2>1. i \in Int /\ top < i
      BY <1>1, <1>12
    <2>2. (base # None => base < i) /\ (smax # None => smax < i)
      BY <1>1, <1>4, <1>5, <2>1 DEF Kept, Tops
    <2>3. ASSUME NEW k \in Jobs, Busy(job[k])
          PROVE  /\ job[k].saw < i
                 /\ job[k].newest # None => job[k].newest < i
                 /\ job[k].above # None => job[k].above < i
      <3>1. Topped(job[k]) /\ Numbers(job[k])
        BY <1>6, <2>3 DEF Kept, Tops
      <3> QED
        BY <1>1, <2>1, <3>1 DEF Topped, Numbers
    <2>4. Outside(i)'
      BY <1>1, <2>2 DEF Outside
    <2>5. ASSUME NEW k \in Jobs, Busy(job[k])
          PROVE  Apart(i, job[k])'
      <3>1. Shape(job[k]) /\ Placed(job[k]) /\ Reads(job[k])
        BY <1>9, <2>5
      <3>2. job[k].from # None /\ job[k].above # None => base # None
        BY <3>1 DEF Reads
      <3>3. job[k].old /\ job[k].from # None => job[k].above # None
        BY <3>1 DEF Placed
      <3> QED
        BY <1>1, <2>2, <2>3, <2>5, <3>2, <3>3 DEF Apart
    <2>6. base # None => Newer(i)'
      <3>1. base # None => smax # None
        BY DEF Kept, Marks
      <3> QED
        BY <1>1, <2>2, <2>3, <3>1 DEF Newer, Over, Busy
    <2>7. \A k \in Jobs : Busy(job[k])' <=> Busy(job[k])
      BY <1>1 DEF Busy
    <2> QED
      BY <1>1, <2>4, <2>5, <2>6, <2>7 DEF Missed
  <1>13. \A i \in Missing' : Missed(i)'
    BY <1>2, <1>11, <1>12
  <1> QED
    BY <1>1, <1>3, <1>8, <1>9, <1>10, <1>13 DEF Kept, Busy, Shape, Placed, Pulling

(* Nothing that is kept speaks of a message but that it is missing.         *)
LEMMA QuietStep ==
  ASSUME TypeOK, Kept, tg' \subseteq tg,
         UNCHANGED <<top, stored, smin, smax, base, job, torn>>
  PROVE  Kept'
  <1>1. Missing' \subseteq Missing
    BY DEF Missing
  <1>2. Tops' /\ Marks' /\ OneFirst'
    BY DEF Kept, Tops, Topped, Marks, OneFirst, First, Busy
  <1>3. ASSUME NEW i \in Missing'
        PROVE  Missed(i)'
    <2>1. Missed(i)
      BY <1>1, <1>3 DEF Kept
    <2>2. Outside(i)' /\ (Owed(i) => Owed(i)') /\ (Newer(i) => Newer(i)')
      BY <2>1 DEF Missed, Outside, Owed, InGap, Pulling, Newer, Over, Busy
    <2>3. \A k \in Jobs : Apart(i, job[k]) => Apart(i, job[k])'
      BY DEF Apart
    <2>4. \A k \in Jobs : Busy(job[k])' <=> Busy(job[k])
      BY DEF Busy
    <2> QED
      BY <2>1, <2>2, <2>3, <2>4 DEF Missed
  <1>4. \A k \in Jobs : Reads(job[k]) => Reads(job[k])'
    BY DEF Reads
  <1> QED
    BY <1>2, <1>3, <1>4 DEF Kept, Busy, Shape, Placed, Pulling

-----------------------------------------------------------------------------
(* Types.                                                                  *)
LEMMA IdleIsJob == Idle \in Job
  BY SyncAssumption DEF Idle, Job, Mark, Ids

LEMMA JobMoves ==
  ASSUME TypeOK, NEW j \in Jobs, NEW c \in Job, job' = [job EXCEPT ![j] = c]
  PROVE  job' \in [Jobs -> Job]
  BY DEF TypeOK

(* The marks a step may set are ids.                                       *)
LEMMA TypeStep ==
  ASSUME TypeOK, [Next]_vars
  PROVE  TypeOK'
  <1> USE SyncAssumption
  <1>1. ASSUME NEW j \in Jobs, Select(j)
        PROVE  TypeOK'
    <2>1. [job[j] EXCEPT !.pc = "selected"] \in Job
      BY DEF TypeOK, Job
    <2>2. job' = [job EXCEPT ![j] = [job[j] EXCEPT !.pc = "selected"]]
      BY <1>1 DEF Select, TypeOK
    <2> QED
      BY <1>1, <2>1, <2>2, JobMoves DEF Select, TypeOK, telegram, marks, bounds, history
  <1>2. ASSUME NEW j \in Jobs, Begin(j)
        PROVE  TypeOK'
    <2> DEFINE c == [Idle EXCEPT !.pc = "connect", !.from = smin, !.above = smax,
                                 !.budget = Budget, !.saw = top]
    <2>1. Budget \in 0..Budget /\ smin \in Mark /\ smax \in Mark /\ top \in 0..MaxId
      BY DEF TypeOK
    <2>2. c \in Job
      <3>1. Idle \in Job
        BY IdleIsJob
      <3> HIDE DEF c
      <3> QED
        BY <2>1, <3>1 DEF Job, c
    <2>3. job' = [job EXCEPT ![j] = c]
      BY <1>2 DEF Begin
    <2>4. split' \in BOOLEAN
      BY <1>2 DEF Begin, TypeOK, First
    <2> HIDE DEF c
    <2> QED
      BY <1>2, <2>2, <2>3, <2>4, JobMoves DEF Begin, TypeOK, telegram, marks, bounds
  <1>3. ASSUME NEW r \in Job, NEW left \in 0..Budget
        PROVE  StartNew(r) \in Job /\ StartOldOrFinish(r, left) \in Job
    <2>1. MaxId + 1 \in 1..(MaxId + 1) /\ 0 \in 0..Budget
      OBVIOUS
    <2>2. OldCursor(r.from) \in 1..(MaxId + 1)
      BY <2>1, MarkInt DEF OldCursor, Job, Mark, Ids
    <2>3. StartNew(r) \in Job
      BY <2>1 DEF StartNew, Job
    <2>4. CASE left > 0 /\ NeedsBackfill(r.from)
      <3> DEFINE o == OldCursor(r.from)
                 c == [r EXCEPT !.pc = "pull", !.old = TRUE, !.cursor = o,
                                !.budget = left, !.fetched = 0, !.last = FALSE]
      <3>1. o \in 1..(MaxId + 1)
        BY <2>2
      <3> HIDE DEF o
      <3>2. c \in Job
        BY <2>1, <3>1 DEF Job
      <3> QED
        BY <2>3, <2>4, <3>2 DEF StartOldOrFinish, o
    <2>5. CASE ~(left > 0 /\ NeedsBackfill(r.from))
      BY <2>3, <2>5 DEF StartOldOrFinish, Job
    <2> QED
      BY <2>4, <2>5
  <1>4. ASSUME NEW j \in Jobs, Connect(j)
        PROVE  TypeOK'
    <2>1. job[j] \in Job /\ job[j].budget \in 0..Budget
      BY DEF TypeOK, Job
    <2>2. PICK c \in Job : job' = [job EXCEPT ![j] = c]
      BY <1>3, <1>4, <2>1 DEF Connect
    <2> QED
      BY <1>4, <2>2, JobMoves DEF Connect, TypeOK, telegram, marks, bounds, history
  <1>5. ASSUME NEW j \in Jobs, Pull(j)
        PROVE  TypeOK'
    <2>1. PICK K \in SUBSET tg : job'[j] \in Job /\ stored' = stored \cup Rows(K)
      BY <1>5, PullEffect
    <2>2. stored' \subseteq Ids \ Service
      BY <2>1 DEF Rows, TypeOK
    <2>3. \A k \in Jobs \ {j} : job'[k] = job[k]
      BY <1>5 DEF Pull, TypeOK
    <2>4. job' \in [Jobs -> Job]
      <3>1. \E c : job' = [job EXCEPT ![j] = c]
        BY <1>5 DEF Pull
      <3>2. job' = [job EXCEPT ![j] = job'[j]]
        BY <3>1 DEF TypeOK
      <3> QED
        BY <2>1, <3>2, JobMoves
    <2> QED
      BY <1>5, <2>2, <2>4 DEF Pull, TypeOK, telegram, marks, bounds, history
  <1>6. ASSUME NEW j \in Jobs, ProgressRead(j)
        PROVE  TypeOK'
    <2> DEFINE r == job[j]
               nx == IF r.newest # None /\ (smax = None \/ r.newest > smax)
                     THEN r.newest ELSE None
               nn == IF r.oldest # None /\ (smin = None \/ r.oldest < smin)
                     THEN r.oldest ELSE None
               c == [r EXCEPT !.pc = "write", !.newMax = nx, !.newMin = nn]
    <2>1. r \in Job
      BY DEF TypeOK
    <2>2. job' = [job EXCEPT ![j] = c]
      BY <1>6 DEF ProgressRead
    <2> HIDE DEF r
    <2>3. nx \in Mark /\ nn \in Mark
      BY <2>1 DEF Job, Mark
    <2> HIDE DEF nx, nn
    <2>4. c \in Job
      BY <2>1, <2>3 DEF Job
    <2> HIDE DEF c
    <2> QED
      BY <1>6, <2>2, <2>4, JobMoves DEF ProgressRead, TypeOK, telegram, marks, bounds, history
  <1>7. ASSUME NEW j \in Jobs, ProgressWrite(j)
        PROVE  TypeOK'
    <2> DEFINE r == job[j]
               c == IF ~r.last THEN [r EXCEPT !.pc = "pull"]
                    ELSE IF r.old THEN [r EXCEPT !.pc = "finish"]
                    ELSE StartOldOrFinish(r, r.budget - r.fetched)
    <2>1. r \in Job
      BY DEF TypeOK
    <2>2. job' = [job EXCEPT ![j] = c]
      BY <1>7 DEF ProgressWrite
    <2>3. smax' \in Mark /\ smin' \in Mark /\ base' \in Mark
      BY <1>7 DEF ProgressWrite, MoveMarks, TypeOK, Job
    <2>4. torn' \in BOOLEAN
      BY <1>7 DEF ProgressWrite, TypeOK, Job
    <2> HIDE DEF r
    <2>5. [r EXCEPT !.pc = "pull"] \in Job /\ [r EXCEPT !.pc = "finish"] \in Job
      BY <2>1 DEF Job
    <2>6. StartOldOrFinish(r, r.budget - r.fetched) \in Job
      <3>1. CASE r.budget - r.fetched \in 0..Budget
        BY <1>3, <2>1, <3>1
      <3>2. CASE ~(r.budget - r.fetched > 0)
        BY <2>5, <3>2 DEF StartOldOrFinish
      <3>3. r.budget - r.fetched \in 0..Budget \/ ~(r.budget - r.fetched > 0)
        <4>1. r.budget \in 0..Budget /\ r.fetched \in 0..Budget
          BY <2>1 DEF Job
        <4> QED
          BY <4>1
      <3> QED
        BY <3>1, <3>2, <3>3
    <2>7. c \in Job
      BY <2>5, <2>6
    <2> HIDE DEF c
    <2> QED
      BY <1>7, <2>2, <2>3, <2>4, <2>7, JobMoves DEF ProgressWrite, TypeOK, telegram, bounds
  <1>8. ASSUME NEW j \in Jobs, Finish(j)
        PROVE  TypeOK'
    <2>1. smin' \in Mark
      <3>1. CASE job[j].done
        <4>1. 1 \in Mark
          BY DEF Mark, Ids
        <4> QED
          BY <1>8, <3>1, <4>1 DEF Finish
      <3>2. CASE ~job[j].done
        BY <1>8, <3>2 DEF Finish, TypeOK
      <3> QED
        BY <3>1, <3>2
    <2>2. job' \in [Jobs -> Job]
      BY <1>8, IdleIsJob, JobMoves DEF Finish
    <2> QED
      BY <1>8, <2>1, <2>2 DEF Finish, Settled, TypeOK, telegram, bounds, history
  <1>9. ASSUME NEW j \in Jobs, Flood(j) \/ Error(j)
        PROVE  TypeOK'
    <2>1. job' \in [Jobs -> Job]
      BY <1>9, IdleIsJob, JobMoves DEF Flood, Error
    <2>2. cuts' \in 0..MaxCuts
      BY <1>9 DEF Flood, Error, TypeOK
    <2>3. torn' \in BOOLEAN
      BY <1>9 DEF Flood, Error, TypeOK, MidNew
    <2> QED
      BY <1>9, <2>1, <2>2, <2>3
      DEF Flood, Error, AfterFlood, Settled, TypeOK, telegram, marks
  <1>10. ASSUME NEW j \in Jobs, Abort(j)
         PROVE  TypeOK'
    <2>1. job' \in [Jobs -> Job]
      BY <1>10, IdleIsJob, JobMoves DEF Abort
    <2>2. aborts' \in 0..MaxAborts
      BY <1>10 DEF Abort, TypeOK
    <2>3. torn' \in BOOLEAN
      BY <1>10 DEF Abort, TypeOK, MidNew
    <2> QED
      BY <1>10, <2>1, <2>2, <2>3 DEF Abort, TypeOK, telegram, marks
  <1>11. CASE WorkerRestart
    <2>1. job' \in [Jobs -> Job]
      BY <1>11, IdleIsJob DEF WorkerRestart
    <2>2. cuts' \in 0..MaxCuts
      BY <1>11 DEF WorkerRestart, TypeOK
    <2>3. torn' \in BOOLEAN
      BY <1>11 DEF WorkerRestart, TypeOK, MidNew
    <2>4. aborts' \in 0..MaxAborts
      BY <1>11, SyncAssumption DEF WorkerRestart, TypeOK
    <2> QED
      BY <1>11, <2>1, <2>2, <2>3, <2>4 DEF WorkerRestart, TypeOK, telegram, marks
  <1>12. CASE NewMessage
    <2>1. top' \in 0..MaxId /\ top' \in Ids
      BY <1>12 DEF NewMessage, TypeOK, Ids
    <2> QED
      BY <1>12, <2>1 DEF NewMessage, TypeOK, marks, bounds, history
  <1>13. ASSUME NEW i \in Deletable, DeleteMessage(i)
         PROVE  TypeOK'
    BY <1>13 DEF DeleteMessage, TypeOK, marks, bounds, history
  <1>14. CASE UNCHANGED vars
    BY <1>14 DEF vars, TypeOK
  <1> QED
    BY <1>1, <1>2, <1>4, <1>5, <1>6, <1>7, <1>8, <1>9, <1>10, <1>11, <1>12, <1>13, <1>14
    DEF Next, Progress

-----------------------------------------------------------------------------
LEMMA KeptStep ==
  ASSUME TypeOK, TypeOK', Kept, [Next]_vars, ~split'
  PROVE  Kept'
  <1>1. CASE UNCHANGED vars
    BY <1>1, QuietStep DEF vars
  <1>2. ASSUME NEW j \in Jobs, ProgressWrite(j)
        PROVE  Kept'
    BY <1>2, WriteStepLater, WriteStepFirst
  <1>3. ASSUME NEW i \in Deletable, DeleteMessage(i)
        PROVE  Kept'
    BY <1>3, QuietStep DEF DeleteMessage, marks, history
  <1> QED
    BY <1>1, <1>2, <1>3, SelectStep, BeginStep, ConnectStep, PullStep, ProgressReadStep,
       FinishStep, CutStep, RestartStep, NewMessageStep
    DEF Next, Progress

LEMMA Starts == Init => Inv
  <1> SUFFICES ASSUME Init
               PROVE  Inv
    OBVIOUS
  <1> USE SyncAssumption
  <1>1. There \in SUBSET Ids
    OBVIOUS
  <1>2. \A i \in There : i <= top
    BY <1>1, SomeIds DEF Init
  <1>3. top \in 0..MaxId
    <2>1. CASE There = {}
      BY <2>1 DEF Init
    <2>2. CASE There # {}
      <3>1. MaxOf(There) \in Ids
        BY <1>1, <2>2, SomeIds
      <3> QED
        BY <2>2, <3>1 DEF Init, Ids
    <2> QED
      BY <2>1, <2>2
  <1>4. job \in [Jobs -> Job] /\ \A j \in Jobs : job[j] = Idle
    BY IdleIsJob DEF Init
  <1>5. TypeOK
    <2>1. cuts \in 0..MaxCuts /\ aborts \in 0..MaxAborts
      BY DEF Init
    <2>2. smin \in Mark /\ smax \in Mark /\ base \in Mark /\ tg \subseteq Ids
      BY <1>1 DEF Init, Mark
    <2> QED
      BY <1>3, <1>4, <2>1, <2>2 DEF Init, TypeOK
  <1>6. \A j \in Jobs : ~Busy(job[j]) /\ ~First(j)
    BY <1>4 DEF Idle, Busy, First
  <1>7. Kept
    BY <1>2, <1>6 DEF Init, Kept, Tops, Marks, OneFirst, Missed, Outside
  <1> QED
    BY <1>5, <1>7 DEF Inv

LEMMA Inductive == Inv /\ [Next]_vars => Inv'
  <1> SUFFICES ASSUME Inv, [Next]_vars
               PROVE  Inv'
    OBVIOUS
  <1>1. TypeOK /\ TypeOK'
    BY TypeStep DEF Inv
  <1>2. ~split' => ~split
    BY DEF Next, Select, Begin, Progress, Connect, Pull, ProgressRead, ProgressWrite, Finish,
           Flood, Error, Abort, WorkerRestart, NewMessage, DeleteMessage, history, vars
  <1>3. ~split' => Kept'
    BY <1>1, <1>2, KeptStep DEF Inv
  <1> QED
    BY <1>1, <1>3 DEF Inv

LEMMA Invariant == Spec => []Inv
  BY Starts, Inductive, PTL DEF Spec

-----------------------------------------------------------------------------
(* However jobs overlap, fail and are cut short, and whatever is posted and  *)
(* deleted meanwhile, the backfill leaves no hole: what is missing is below  *)
(* synced_min_id or newer than the first sync.                             *)
THEOREM BackfillIsWhole == Spec => []SyncInv
  <1>1. Inv => SyncInv
    <2> SUFFICES ASSUME Inv, ~split, NEW i \in Missing,
                        smin # None, base # None, smin <= i, i <= base
                 PROVE  FALSE
      BY DEF Inv, SyncInv, BackfillHasNoHole
    <2>1. i < smin \/ base < i
      BY DEF Inv, Kept, Missed, Outside
    <2>2. i \in Int /\ smin \in Int /\ base \in Int
      BY MarkInt, SyncAssumption DEF Inv, TypeOK, Missing, Ids
    <2> QED
      BY <2>1, <2>2
  <1> QED
    BY <1>1, Invariant, PTL

(* When no job is at work the two marks tell the truth, unless a pull of new *)
(* messages has ended early or two first syncs have overlapped.             *)
THEOREM MarksTellTheTruth == Spec => []RestsWithoutHole
  <1>1. Inv => RestsWithoutHole
    <2> SUFFICES ASSUME Inv, ~torn, ~split, \A j \in Jobs : job[j].pc = "idle",
                        NEW i \in Missing,
                        smin # None, smax # None, smin <= i, i <= smax
                 PROVE  FALSE
      BY DEF RestsWithoutHole, NoHole
    <2>1. Kept /\ Missed(i) /\ base # None
      BY DEF Inv, Kept, Marks
    <2>2. i \in Int /\ smin \in Int /\ base \in Int /\ smax \in Int
      BY <2>1, MarkInt, SyncAssumption DEF Inv, TypeOK, Missing, Ids
    <2>3. base < i
      BY <2>1, <2>2 DEF Missed, Outside
    <2>4. ~Owed(i)
      BY DEF Owed, InGap, Pulling
    <2>5. smax < i
      BY <2>1, <2>3, <2>4 DEF Missed, Newer
    <2> QED
      BY <2>2, <2>5
  <1> QED
    BY <1>1, Invariant, PTL

(* A job that ends by itself with room in its budget has left nothing behind *)
(* of what there was when it began.                                        *)
THEOREM FinishedJobsAreCurrent == Spec => FinishedIsCurrent
  <1> DEFINE Current ==
        \A j \in Jobs :
          (/\ job[j].pc = "finish" /\ Finish(j) /\ job[j].fetched < job[j].budget
           /\ ~torn /\ ~split /\ base # None /\ \A k \in Jobs : ~MidNew(k))
            => \A i \in Missing : i > job[j].saw
  <1>1. Inv => Current
    <2> SUFFICES ASSUME Inv, NEW j \in Jobs, job[j].pc = "finish",
                        job[j].fetched < job[j].budget,
                        ~torn, ~split, base # None, \A k \in Jobs : ~MidNew(k),
                        NEW i \in Missing
                 PROVE  i > job[j].saw
      OBVIOUS
    <2> DEFINE r == job[j]
    <2>1. Kept /\ Missed(i)
      BY DEF Inv, Kept
    <2>2. Shape(r) /\ Placed(r) /\ Reads(r) /\ Apart(i, r)
      BY <2>1 DEF Kept, Missed, Busy
    <2>3. r.pc = "finish" /\ r.fetched < r.budget
      OBVIOUS
    <2>4. ~Owed(i)
      BY DEF Owed, InGap, MidNew, Pulling
    <2>5. i \in Int /\ 1 <= i /\ base \in Int
      BY MarkInt, SyncAssumption DEF Inv, TypeOK, Missing, Ids
    <2>6. base < i => Over(r, i)
      BY <2>1, <2>4 DEF Missed, Newer, Busy
    <2> HIDE DEF r
    <2>7. Numbers(r)
      BY JobNumbers DEF Inv, TypeOK, r
    <2>8. r.saw < i
      <3>1. CASE r.from = None
        BY <2>2, <2>3, <3>1 DEF Shape, Apart
      <3>2. CASE r.from # None
        <4>1. r.above # None
          BY <2>2, <3>2 DEF Reads
        <4>2. i <= r.above \/ r.saw < i
          BY <2>2, <2>3, <4>1 DEF Apart
        <4>3. base < i
          <5>1. CASE r.old
            BY <2>2, <2>3, <5>1 DEF Shape, Apart
          <5>2. CASE ~r.old
            <6>1. r.from = 1
              BY <2>2, <2>3, <5>2 DEF Shape
            <6> QED
              BY <2>2, <2>5, <3>2, <4>1, <6>1 DEF Apart
          <5> QED
            BY <5>1, <5>2
        <4>4. r.above < i
          BY <2>6, <4>1, <4>3 DEF Over
        <4> QED
          BY <2>5, <2>7, <4>1, <4>2, <4>4 DEF Numbers
      <3> QED
        BY <3>1, <3>2
    <2> QED
      BY <2>5, <2>7, <2>8 DEF r, Numbers
  <1>2. Inv /\ [Next]_vars => [Current]_vars
    BY <1>1
  <1> HIDE DEF Current
  <1>3. Spec => [][Current]_vars
    BY <1>2, Invariant, PTL DEF Spec
  <1> QED
    BY <1>3 DEF FinishedIsCurrent, Current
=============================================================================
