---------------------------- MODULE AutoReplyProofs ----------------------------
(***************************************************************************)
(* What holds of AutoReply for any number of runs that overlap, any        *)
(* messages, limits, hours of the day and faults.                          *)
(***************************************************************************)
EXTENDS AutoReply, FiniteSetTheorems, SequenceTheorems, TLAPS

(* What a run knows: its list is above the cursor it began with, its rows    *)
(* answer messages of the list, and every match that it has left behind it  *)
(* has asked about, but for the one at which a limit has stopped it.        *)
Passed(r) == {m \in r.list \cap Matching : m <= r.last} \ r.asked

Works(r) == r.pc \in {"work", "draft", "save"}

RunInv(r) ==
  /\ ~Works(r) => r.made = <<>> /\ r.budget = 0 /\ r.list = {}
  /\ Works(r) =>
       /\ start <= r.last /\ \A m \in r.list : m > start
       /\ \E m \in r.list : r.last <= m
       /\ \A i \in DOMAIN r.made : r.made[i].msg \in r.list
  /\ r.pc = "draft" => r.last \in r.list /\ r.budget > 0
  /\ r.pc \in {"work", "draft"} => Passed(r) = {}
  /\ r.pc = "save" => Passed(r) \subseteq {r.last}

(* Nothing happens before there is a rule, and nothing to older messages.    *)
Ruled ==
  /\ ~rule.exists => /\ ~rule.enabled /\ acts = <<>>
                     /\ \A r \in Runs : run[r].pc = "idle"
                     /\ \A m \in Ids : delivered[m] = 0
  /\ start <= rule.cursor
  /\ \A i \in DOMAIN acts : acts[i].msg > start
  /\ \A m \in Ids : delivered[m] > 0 => m > start

(* A message m that is not at risk is in the list of one run at most, which  *)
(* is then the only one at work and the first to answer it; and once it is   *)
(* answered the cursor, and all that may become the cursor, is beyond it.    *)
Alone(m) ==
  \A r \in Runs : Works(run[r]) /\ m \in run[r].list =>
    /\ \A o \in Runs \ {r} : ~Works(run[o])
    /\ \A i \in DOMAIN acts : acts[i].msg # m
    /\ \A i, k \in DOMAIN run[r].made : run[r].made[i].msg = m /\ run[r].made[k].msg = m => i = k
    /\ (delivered[m] > 0 \/ \E i \in DOMAIN run[r].made : run[r].made[i].msg = m) =>
         m <= run[r].last /\ (m = run[r].last => run[r].pc # "draft")

Spent(m) == delivered[m] > 0 \/ \E i \in DOMAIN acts : acts[i].msg = m

Behind(m) ==
  Spent(m) /\ (\A r \in Runs : Works(run[r]) => m \notin run[r].list) =>
    m <= rule.cursor /\ \A r \in Runs : Works(run[r]) => m <= run[r].last

Single(m) ==
  /\ delivered[m] <= 1
  /\ \A i, k \in DOMAIN acts : acts[i].msg = m /\ acts[k].msg = m => i = k

Once == \A m \in Ids \ risky : Alone(m) /\ Behind(m) /\ Single(m)

(* The rows of the last hour, and what the runs at work may still add.       *)
Counts(s) == {i \in DOMAIN s : s[i].status \notin {"failed", "rejected"}}
Hour == {i \in DOMAIN acts : acts[i].age <= 1 /\ acts[i].status \notin {"failed", "rejected"}}
Left(r) == Cardinality(Counts(r.made)) + (IF r.budget > 0 THEN r.budget ELSE 0)
Lefts == [r \in Runs |-> Left(run[r])]
Tokens(f) == {t \in Runs \X (1..MaxPerHour) : t[2] <= f[t[1]]}

Shared ==
  /\ Lefts \in [Runs -> 0..MaxPerHour]
  /\ Cardinality(Hour) + Cardinality(Tokens(Lefts)) <= MaxPerHour * Cardinality(Runs)

(* A run at work has looked at an hour that was not quiet, its own or the last. *)
Calm ==
  \A r \in Runs : Works(run[r]) =>
    /\ run[r].age = 0 => ~InQuietHours(hour)
    /\ run[r].age = 1 => ~InQuietHours(Before(hour))

Inv == TypeOK /\ (\A r \in Runs : RunInv(run[r])) /\ Ruled /\ Once /\ Shared /\ Calm

-----------------------------------------------------------------------------
(* The least and the greatest element of a bounded set.                    *)
LEMMA LeastOf ==
  ASSUME NEW n \in Nat, NEW K \in SUBSET (0..n), K # {}
  PROVE  Min(K) \in K /\ \A y \in K : Min(K) <= y
  <1> DEFINE Down(x) == {y \in K : y <= x}
             T == {Down(x) : x \in K}
  <1>0. IsFiniteSet(K)
    <2>1. IsFiniteSet(0..n)
      BY FS_Interval
    <2> QED
      BY <2>1, FS_Subset
  <1>1. T \subseteq FiniteSubsetsOf(K) /\ T # {}
    <2>1. \A x \in K : Down(x) \subseteq K
      OBVIOUS
    <2>2. \A x \in K : IsFiniteSet(Down(x))
      BY <1>0, <2>1, FS_Subset
    <2> QED
      BY <2>1, <2>2 DEF FiniteSubsetsOf
  <1>2. \E D \in T : \A E \in T : <<E, D>> \notin StrictSubsetOrdering(K)
    BY <1>0, <1>1, FS_StrictSubsetOrderingWellFounded, WFMin
  <1>3. PICK x \in K : \A E \in T : <<E, Down(x)>> \notin StrictSubsetOrdering(K)
    BY <1>2
  <1>4. ASSUME NEW y \in K, y < x
        PROVE  FALSE
    <2>0. K \subseteq Int /\ x \in Int /\ y \in Int
      OBVIOUS
    <2>1. Down(y) \in T
      OBVIOUS
    <2>2. Down(y) \subseteq Down(x)
      <3> SUFFICES ASSUME NEW z \in K, z <= y
                   PROVE  z <= x
        OBVIOUS
      <3>1. z \in Int
        BY <2>0
      <3> QED
        BY <1>4, <2>0, <3>1
    <2>3. x \in Down(x) /\ x \notin Down(y)
      BY <1>4, <2>0
    <2> HIDE DEF Down
    <2>4. Down(y) # Down(x)
      BY <2>3
    <2>5. Down(x) \in SUBSET K /\ Down(y) \in SUBSET K
      BY DEF Down
    <2>6. <<Down(y), Down(x)>> \in StrictSubsetOrdering(K)
      BY <2>2, <2>4, <2>5 DEF StrictSubsetOrdering
    <2> QED
      BY <1>3, <2>1, <2>6
  <1>5. \E z \in K : \A y \in K : z <= y
    BY <1>4
  <1> QED
    BY <1>5 DEF Min

LEMMA GreatestOf ==
  ASSUME NEW n \in Nat, NEW K \in SUBSET (0..n), K # {}
  PROVE  Max(K) \in K /\ \A y \in K : y <= Max(K)
  <1> DEFINE L == {n - x : x \in K}
  <1>0. \A x \in K : x \in Int /\ n - x \in 0..n
    OBVIOUS
  <1>1. L \in SUBSET (0..n) /\ L # {}
    BY <1>0
  <1>2. PICK l \in L : \A y \in L : l <= y
    <2> HIDE DEF L
    <2> QED
      BY <1>1, LeastOf
  <1>3. PICK x \in K : l = n - x
    BY <1>2
  <1>4. ASSUME NEW y \in K
        PROVE  y <= x
    <2>1. n - y \in L
      OBVIOUS
    <2>2. n - x <= n - y
      BY <1>2, <1>3, <2>1
    <2>3. x \in Int /\ y \in Int
      BY <1>0
    <2> QED
      BY <2>2, <2>3
  <1>5. \E z \in K : \A y \in K : z >= y
    BY <1>0, <1>4
  <1>6. Max(K) \in K /\ \A y \in K : Max(K) >= y
    BY <1>5 DEF Max
  <1> QED
    BY <1>0, <1>6

LEMMA SomeIds ==
  ASSUME NEW K \in SUBSET Ids
  PROVE  /\ IsFiniteSet(K) /\ Cardinality(K) \in Nat
         /\ \A x \in K : x \in Int /\ x \in 0..MaxId
         /\ K # {} => /\ Min(K) \in K /\ \A y \in K : Min(K) <= y
                      /\ Max(K) \in K /\ \A y \in K : y <= Max(K)
  <1>0. MaxId \in Nat
    BY AutoReplyAssumption
  <1>1. IsFiniteSet(Ids)
    BY <1>0, FS_Interval DEF Ids
  <1>2. IsFiniteSet(K)
    BY <1>1, FS_Subset
  <1>3. Cardinality(K) \in Nat
    BY <1>2, FS_CardinalityType
  <1>4. K \in SUBSET (0..MaxId) /\ \A x \in K : x \in Int /\ x \in 0..MaxId
    BY <1>0 DEF Ids
  <1> QED
    BY <1>0, <1>2, <1>3, <1>4, LeastOf, GreatestOf

LEMMA NewestOf ==
  ASSUME NEW S \in SUBSET Ids
  PROVE  Newest(S) \in 0..MaxId /\ \A m \in S : m <= Newest(S)
  <1>1. MaxId \in Nat /\ S \cup {0} \in SUBSET (0..MaxId) /\ S \cup {0} # {}
    BY AutoReplyAssumption DEF Ids
  <1> QED
    BY <1>1, GreatestOf DEF Newest

-----------------------------------------------------------------------------
(* What the steps of a run make of it.                                     *)
LEMMA IdleIsRun == Idle \in Run /\ Idle.pc = "idle" /\ Idle.made = <<>> /\ Idle.budget = 0
                   /\ Idle.list = {}
  <1>1. <<>> \in Seq(AnswerRow)
    BY EmptySeq
  <1>2. 0 \in 0..1 /\ 0 \in 0..MaxId
    BY AutoReplyAssumption
  <1> QED
    BY <1>1, <1>2 DEF Idle, Run, Modes

LEMMA RunMoves ==
  ASSUME TypeOK, NEW r \in Runs, NEW c, run' = [run EXCEPT ![r] = c]
  PROVE  /\ run'[r] = c /\ \A o \in Runs \ {r} : run'[o] = run[o]
         /\ c \in Run => run' \in [Runs -> Run]
  BY DEF TypeOK

LEMMA NewAreStored ==
  ASSUME TypeOK
  PROVE  /\ NewMessages \subseteq stored /\ NewMessages \subseteq Ids
         /\ \A m \in NewMessages : m > rule.cursor
  BY DEF TypeOK, NewMessages, Above

LEMMA SentIsNat ==
  ASSUME TypeOK
  PROVE  SentLastHour \in Nat /\ IsFiniteSet(Hour) /\ SentLastHour = Cardinality(Hour)
  <1>1. Hour \subseteq 1..Len(acts) /\ Len(acts) \in Nat
    BY LenProperties DEF Hour, TypeOK
  <1>2. IsFiniteSet(Hour) /\ Cardinality(Hour) \in Nat
    <2>1. IsFiniteSet(1..Len(acts))
      BY <1>1, FS_Interval
    <2>2. IsFiniteSet(Hour)
      BY <1>1, <2>1, FS_Subset
    <2> QED
      BY <2>2, FS_CardinalityType
  <1>3. Hour = {i \in DOMAIN acts : acts[i].age <= 1 /\ acts[i].status \in Counted}
    <2>1. ASSUME NEW i \in DOMAIN acts
          PROVE  acts[i].status \in Counted <=> acts[i].status \notin {"failed", "rejected"}
      <3>1. acts[i] \in AnswerRow
        BY ElementOfSeq, LenProperties DEF TypeOK
      <3> QED
        BY <3>1 DEF AnswerRow, Counted, Statuses
    <2> QED
      BY <2>1 DEF Hour
  <1> QED
    BY <1>2, <1>3 DEF SentLastHour

(* What Open has made of the run r when it does not skip.                   *)
Begun(r) ==
  /\ run'[r] \in Run /\ \A o \in Runs \ {r} : run'[o] = run[o]
  /\ run[r].pc = "chosen"
  /\ run'[r].pc = "work" /\ run'[r].age = 0 /\ run'[r].list = NewMessages
  /\ run'[r].last = rule.cursor /\ run'[r].budget = MaxPerHour - SentLastHour
  /\ run'[r].asked = {} /\ run'[r].made = <<>>
  /\ NewMessages # {} /\ ~InQuietHours(hour)
  /\ risky \subseteq risky'
  /\ (\E o \in Runs : Works(run[o])) =>
       NewMessages \subseteq risky' /\ \A o \in Runs : Works(run[o]) => run[o].list \subseteq risky'
  /\ UNCHANGED <<stored, rule, mode, active, hour, acts, delivered, start, faults, edits>>

(* What a step of the run r does that is not at work and comes to nothing.   *)
Rests(r) ==
  /\ run'[r] \in Run /\ \A o \in Runs \ {r} : run'[o] = run[o]
  /\ run[r].pc \in {"idle", "chosen"} /\ run'[r].pc \in {"idle", "chosen"}
  /\ run[r].pc = "idle" => rule.enabled
  /\ run'[r].made = <<>> /\ run'[r].budget = 0 /\ run'[r].list = {}
  /\ UNCHANGED <<stored, rule, mode, active, hour, acts, delivered, risky, start, faults, edits>>

LEMMA StartEffect ==
  ASSUME TypeOK, NEW r \in Runs, RunInv(run[r]), StartRun(r)
  PROVE  Rests(r)
  <1> DEFINE c == [run[r] EXCEPT !.pc = "chosen"]
  <1>1. run' = [run EXCEPT ![r] = c] /\ run[r] \in Run
    BY DEF StartRun, TypeOK
  <1>2. c \in Run /\ c.pc = "chosen" /\ c.made = run[r].made /\ c.budget = run[r].budget
        /\ c.list = run[r].list
    BY <1>1 DEF Run
  <1> HIDE DEF c
  <1>3. run'[r] = c /\ \A o \in Runs \ {r} : run'[o] = run[o]
    BY <1>1, RunMoves
  <1> QED
    BY <1>2, <1>3 DEF StartRun, RunInv, Works, Rests, At, bounds, world

LEMMA OpenEffect ==
  ASSUME TypeOK, NEW r \in Runs, Open(r)
  PROVE  Rests(r) \/ Begun(r)
  <1>1. CASE Skips
    <2>1. run' = [run EXCEPT ![r] = Idle]
      BY <1>1 DEF Open
    <2>2. run'[r] = Idle /\ \A o \in Runs \ {r} : run'[o] = run[o]
      BY <2>1, RunMoves
    <2> QED
      BY <1>1, <2>2, IdleIsRun DEF Open, Rests, At, bounds, world
  <1>2. CASE ~Skips
    <2> DEFINE b == MaxPerHour - SentLastHour
               l == NewMessages
               c == [Idle EXCEPT !.pc = "work", !.mode = mode, !.list = l,
                                 !.last = rule.cursor, !.budget = b]
    <2>1. run' = [run EXCEPT ![r] = c]
      BY <1>2 DEF Open
    <2>2. b \in Int /\ l \in SUBSET Ids
      BY SentIsNat, NewAreStored, AutoReplyAssumption
    <2>3. mode \in Modes /\ rule.cursor \in 0..MaxId
      BY DEF TypeOK
    <2> HIDE DEF b, l
    <2>4. c \in Run /\ c.pc = "work" /\ c.age = 0 /\ c.list = l /\ c.last = rule.cursor
          /\ c.budget = b /\ c.asked = {} /\ c.made = <<>>
      <3>1. Idle \in Run /\ Idle.asked = {} /\ Idle.made = <<>> /\ Idle.age = 0
        BY IdleIsRun DEF Idle
      <3> HIDE DEF Idle
      <3> QED
        BY <2>2, <2>3, <3>1 DEF Run
    <2> HIDE DEF c
    <2>5. run'[r] = c /\ \A o \in Runs \ {r} : run'[o] = run[o]
      BY <2>1, RunMoves
    <2>6. risky \subseteq risky' /\ ((\E o \in Runs : Works(run[o])) =>
            l \subseteq risky' /\ \A o \in Runs : Works(run[o]) => run[o].list \subseteq risky')
      <3> DEFINE others == {o \in Runs : Active(o)}
      <3>1. risky' = IF others = {} THEN risky ELSE risky \cup l \cup UNION {run[o].list : o \in others}
        BY <1>2 DEF Open, l
      <3>2. \A o \in Runs : Works(run[o]) <=> o \in others
        BY DEF Works, Active
      <3> QED
        BY <3>1, <3>2
    <2>7. l # {} /\ ~InQuietHours(hour)
      BY <1>2 DEF Skips, l
    <2> QED
      BY <1>2, <2>4, <2>5, <2>6, <2>7 DEF Open, Begun, At, bounds, world, b, l
  <1> QED
    BY <1>1, <1>2

(* What Judge and NoDraft have made of the run r.                           *)
Judged(r, s) ==
  /\ s \in Run /\ s.age = r.age /\ s.mode = r.mode /\ s.list = r.list
  /\ s.budget = r.budget /\ s.made = r.made
  /\ \/ /\ r.pc = "work" /\ s.pc = "save" /\ s.asked = r.asked
        /\ \A m \in r.list \cap Matching : m <= r.last
        /\ s.last \in r.list /\ \A m \in r.list : m <= s.last
     \/ /\ r.pc = "work"
        /\ s.last \in r.list \cap Matching /\ r.last < s.last
        /\ \A m \in r.list \cap Matching : m > r.last => s.last <= m
        /\ \/ s.pc = "save" /\ s.asked = r.asked
           \/ s.pc = "draft" /\ s.asked = r.asked \cup {s.last} /\ r.budget > 0
     \/ r.pc = "draft" /\ s.pc = "work" /\ s.asked = r.asked /\ s.last = r.last

LEMMA JudgeEffect ==
  ASSUME TypeOK, NEW r \in Runs, RunInv(run[r]), Judge(r)
  PROVE  Judged(run[r], run'[r]) /\ \A o \in Runs \ {r} : run'[o] = run[o]
  <1> DEFINE R == run[r]
             matches == Rest(r) \cap Matching
             m == Min(matches)
  <1>1. R \in Run /\ R.pc = "work" /\ R.list \subseteq Ids /\ R.last \in 0..MaxId
    BY DEF TypeOK, Judge, At, Run
  <1>2. R.list # {}
    BY <1>1 DEF RunInv, Works
  <1>3. \A x \in R.list : x \in Int /\ x \in 0..MaxId
    BY <1>1, SomeIds
  <1>4. matches = {x \in R.list \cap Matching : x > R.last}
    BY DEF Rest, Above
  <1>5. CASE matches = {}
    <2> DEFINE g == Max(R.list)
               c == [R EXCEPT !.last = g, !.pc = "save"]
    <2>1. run' = [run EXCEPT ![r] = c]
      BY <1>5 DEF Judge, TypeOK
    <2>2. g \in R.list /\ g \in 0..MaxId /\ \A x \in R.list : x <= g
      BY <1>1, <1>2, SomeIds
    <2>3. \A x \in R.list \cap Matching : x <= R.last
      <3>1. R.last \in Int
        BY <1>1, AutoReplyAssumption
      <3> QED
        BY <1>3, <1>4, <1>5, <3>1
    <2> HIDE DEF g, R
    <2>4. /\ c \in Run /\ c.pc = "save" /\ c.last = g /\ c.age = R.age /\ c.mode = R.mode
          /\ c.list = R.list /\ c.budget = R.budget /\ c.made = R.made /\ c.asked = R.asked
      BY <1>1, <2>2 DEF Run
    <2> HIDE DEF c
    <2> QED
      BY <1>1, <2>1, <2>2, <2>3, <2>4, RunMoves DEF Judged, R
  <1>6. CASE matches # {}
    <2> DEFINE a == IF Limited(r) THEN R.asked ELSE R.asked \cup {m}
               p == IF Limited(r) THEN "save" ELSE "draft"
               c == [R EXCEPT !.last = m, !.asked = a, !.pc = p]
    <2>1. run' = [run EXCEPT ![r] = c]
      BY <1>6 DEF Judge, TypeOK, Advance
    <2>2. m \in matches /\ \A x \in matches : m <= x
      <3>1. matches \subseteq Ids
        BY <1>1, <1>4
      <3> QED
        BY <1>6, <3>1, SomeIds
    <2>3. m \in R.list /\ m \in Ids /\ m \in 0..MaxId /\ m \in Matching /\ m > R.last
      BY <1>1, <1>3, <1>4, <2>2
    <2>4. \A x \in R.list \cap Matching : x > R.last => m <= x
      BY <1>4, <2>2
    <2>5. ~Limited(r) => R.budget > 0
      BY <1>1 DEF Limited, Run
    <2> HIDE DEF m, R
    <2>6. a \in SUBSET Ids /\ p \in {"save", "draft"}
      BY <1>1, <2>3 DEF Run
    <2>7. \/ p = "save" /\ a = R.asked
          \/ p = "draft" /\ a = R.asked \cup {m} /\ R.budget > 0
      BY <2>5
    <2> HIDE DEF a, p
    <2>8. /\ c \in Run /\ c.pc = p /\ c.last = m /\ c.age = R.age /\ c.mode = R.mode
          /\ c.list = R.list /\ c.budget = R.budget /\ c.made = R.made /\ c.asked = a
      BY <1>1, <2>3, <2>6 DEF Run
    <2> HIDE DEF c
    <2>9. R.last < m
      <3>1. R.last \in Int /\ m \in Int
        BY <1>1, <2>3, AutoReplyAssumption
      <3> QED
        BY <2>3, <3>1
    <2> QED
      BY <1>1, <2>1, <2>3, <2>4, <2>7, <2>8, <2>9, RunMoves DEF Judged, R
  <1> QED
    BY <1>5, <1>6

LEMMA NoDraftEffect ==
  ASSUME TypeOK, NEW r \in Runs, NoDraft(r)
  PROVE  Judged(run[r], run'[r]) /\ \A o \in Runs \ {r} : run'[o] = run[o]
  <1> DEFINE R == run[r]
             c == [R EXCEPT !.pc = "work"]
  <1>1. run' = [run EXCEPT ![r] = c] /\ R \in Run /\ R.pc = "draft"
    BY DEF NoDraft, TypeOK, At
  <1> HIDE DEF R
  <1>2. /\ c \in Run /\ c.pc = "work" /\ c.last = R.last /\ c.age = R.age /\ c.mode = R.mode
        /\ c.list = R.list /\ c.budget = R.budget /\ c.made = R.made /\ c.asked = R.asked
    BY <1>1 DEF Run
  <1> HIDE DEF c
  <1> QED
    BY <1>1, <1>2, RunMoves DEF Judged, R

(* What Propose has made of it: one more row, for the message it is at.      *)
Answered(r, s, row) ==
  /\ s \in Run /\ r.pc = "draft" /\ s.pc = "work"
  /\ s.age = r.age /\ s.mode = r.mode /\ s.list = r.list /\ s.last = r.last
  /\ s.asked = r.asked /\ s.made = Append(r.made, row)
  /\ row \in AnswerRow /\ row.msg = r.last
  /\ s.budget = IF row.status = "failed" THEN r.budget ELSE r.budget - 1

LEMMA AnswerEffect ==
  ASSUME TypeOK, NEW r \in Runs, RunInv(run[r]), Propose(r)
  PROVE  /\ \E row : Answered(run[r], run'[r], row)
         /\ \A o \in Runs \ {r} : run'[o] = run[o]
         /\ delivered' \in [Ids -> Nat] /\ run[r].last \in Ids
         /\ delivered'[run[r].last] \in {delivered[run[r].last], delivered[run[r].last] + 1}
         /\ \A m \in Ids \ {run[r].last} : delivered'[m] = delivered[m]
         /\ faults' \in {faults, faults + 1}
         /\ UNCHANGED <<stored, rule, mode, active, hour, acts, risky, start, edits>>
  <1>1. PICK status \in {"proposed", "executed", "failed"}, sends \in BOOLEAN :
          Answer(r, status, sends) /\ faults' \in {faults, faults + 1}
    BY DEF Propose
  <1> DEFINE R == run[r]
             row == Row(r, status)
             b == IF status = "failed" THEN R.budget ELSE R.budget - 1
             l == Append(R.made, row)
             c == [R EXCEPT !.made = l, !.budget = b, !.pc = "work"]
  <1>2. run' = [run EXCEPT ![r] = c] /\ R \in Run /\ R.pc = "draft"
    BY <1>1 DEF Answer, TypeOK, At
  <1>3. R.last \in R.list /\ R.last \in Ids /\ R.age \in 0..2
    BY <1>2 DEF RunInv, Run
  <1>4. row \in AnswerRow /\ row.msg = R.last /\ row.status = status
    BY <1>1, <1>3 DEF Row, AnswerRow, Statuses
  <1>5. /\ delivered' \in [Ids -> Nat]
        /\ delivered'[R.last] \in {delivered[R.last], delivered[R.last] + 1}
        /\ \A m \in Ids \ {R.last} : delivered'[m] = delivered[m]
    BY <1>1, <1>3 DEF Answer, TypeOK
  <1>6. /\ faults' \in {faults, faults + 1}
        /\ UNCHANGED <<stored, rule, mode, active, hour, acts, risky, start, edits>>
    BY <1>1 DEF Answer, world
  <1> HIDE DEF R, row
  <1>7. l \in Seq(AnswerRow) /\ b \in Int
    BY <1>2, <1>4, AppendProperties DEF Run
  <1> HIDE DEF l, b
  <1>8. /\ c \in Run /\ c.pc = "work" /\ c.last = R.last /\ c.age = R.age /\ c.mode = R.mode
        /\ c.list = R.list /\ c.budget = b /\ c.made = l /\ c.asked = R.asked
    BY <1>2, <1>7 DEF Run
  <1> HIDE DEF c
  <1>9. run'[r] = c /\ \A o \in Runs \ {r} : run'[o] = run[o]
    BY <1>2, RunMoves
  <1>10. Answered(R, c, row)
    BY <1>2, <1>4, <1>8 DEF Answered, l, b
  <1> QED
    BY <1>3, <1>5, <1>6, <1>9, <1>10 DEF R

(* What a run r commits at its end, or leaves when it fails: the rows it has *)
(* made and, of an autonomous run that raises, one more.                    *)
Commits(r, rows) ==
  /\ Works(run[r])
  /\ run'[r] = Idle /\ \A o \in Runs \ {r} : run'[o] = run[o]
  /\ rows \in Seq(AnswerRow)
  /\ \/ rows = run[r].made \/ rows = <<>>
     \/ run[r].pc = "draft" /\ \E row \in AnswerRow : rows = Append(run[r].made, row)
                                 /\ row.msg = run[r].last
  /\ acts' = acts \o rows
  /\ \/ /\ run[r].pc = "save" /\ rows = run[r].made
        /\ rule' = [rule EXCEPT !.cursor = run[r].last] /\ risky' = risky
     \/ rule' = rule /\ risky' = risky \cup run[r].list
  /\ UNCHANGED <<stored, mode, active, hour, delivered, start, edits>>

LEMMA CommitEffect ==
  ASSUME TypeOK, NEW r \in Runs, RunInv(run[r]), Save(r) \/ Raise(r) \/ Die(r)
  PROVE  \E rows : Commits(r, rows)
  <1>0. run[r] \in Run /\ run[r].made \in Seq(AnswerRow)
    BY DEF TypeOK, Run
  <1>1. CASE Save(r)
    <2>1. run' = [run EXCEPT ![r] = Idle] /\ run[r].pc = "save"
      BY <1>1 DEF Save, At
    <2>2. Commits(r, run[r].made)
      BY <1>0, <1>1, <2>1, RunMoves DEF Save, Commits, Works, MovedCursor, bounds, world
    <2> QED
      BY <2>2
  <1>2. CASE Fail(r) /\ UNCHANGED <<acts, delivered>>
    <2>1. run' = [run EXCEPT ![r] = Idle] /\ Works(run[r])
      BY <1>2 DEF Fail, Active, Works
    <2>2. <<>> \in Seq(AnswerRow) /\ acts \o <<>> = acts
      BY EmptySeq, ConcatEmptySeq DEF TypeOK
    <2>3. Commits(r, <<>>)
      BY <1>2, <2>1, <2>2, RunMoves DEF Fail, Commits, world
    <2> QED
      BY <2>3
  <1>3. CASE Raise(r)
    <2>1. run' = [run EXCEPT ![r] = Idle] /\ Works(run[r])
      BY <1>3 DEF Raise, Fail, Active, Works
    <2>2. PICK begun \in IF At(r, "draft") /\ run[r].mode = "autonomous" THEN BOOLEAN ELSE {FALSE} :
            acts' = acts \o run[r].made \o (IF begun THEN <<Row(r, "confirmed")>> ELSE <<>>)
      BY <1>3 DEF Raise
    <2>3. /\ risky' = risky \cup run[r].list
          /\ UNCHANGED <<stored, rule, mode, active, hour, delivered, start, edits>>
      BY <1>3 DEF Raise, Fail, world
    <2>4. CASE ~begun
      <3>1. acts' = acts \o run[r].made
        <4>1. acts \o run[r].made \in Seq(AnswerRow)
          BY <1>0, ConcatProperties DEF TypeOK
        <4> QED
          BY <2>2, <2>4, <4>1, ConcatEmptySeq
      <3>2. Commits(r, run[r].made)
        BY <1>0, <2>1, <2>3, <3>1, RunMoves DEF Commits
      <3> QED
        BY <3>2
    <2>5. CASE begun
      <3> DEFINE row == Row(r, "confirmed")
      <3>1. run[r].pc = "draft"
        BY <2>2, <2>5 DEF At
      <3>2. row \in AnswerRow /\ row.msg = run[r].last
        <4>1. run[r].last \in Ids /\ run[r].age \in 0..2
          BY <1>0, <3>1 DEF RunInv, Run
        <4> QED
          BY <4>1 DEF Row, AnswerRow, Statuses
      <3> HIDE DEF row
      <3>3. Append(run[r].made, row) \in Seq(AnswerRow)
        BY <1>0, <3>2, AppendProperties
      <3>4. acts' = acts \o Append(run[r].made, row)
        <4>1. <<row>> \in Seq(AnswerRow) /\ acts \in Seq(AnswerRow)
          BY <3>2 DEF TypeOK
        <4>2. Append(run[r].made, row) = run[r].made \o <<row>>
          BY <1>0, <3>2, AppendIsConcat
        <4>3. (acts \o run[r].made) \o <<row>> = acts \o (run[r].made \o <<row>>)
          <5>1. \A a, b, c \in Seq(AnswerRow) : (a \o b) \o c = a \o (b \o c)
            BY ConcatAssociative
          <5> QED
            BY <1>0, <4>1, <5>1, Zenon
        <4> QED
          BY <2>2, <2>5, <4>2, <4>3 DEF row
      <3>5. Commits(r, Append(run[r].made, row))
        BY <2>1, <2>3, <3>1, <3>2, <3>3, <3>4, RunMoves DEF Commits
      <3> QED
        BY <3>5
    <2> QED
      BY <2>4, <2>5
  <1> QED
    BY <1>1, <1>2, <1>3 DEF Die

-----------------------------------------------------------------------------
(* What an hour that passes makes of a run: all stays, but for the ages.     *)
Ages(r, s) ==
  /\ s \in Run /\ s.pc = r.pc /\ s.list = r.list /\ s.last = r.last
  /\ s.budget = r.budget /\ s.asked = r.asked
  /\ Len(s.made) = Len(r.made) /\ DOMAIN s.made = DOMAIN r.made
  /\ \A i \in DOMAIN r.made : s.made[i].msg = r.made[i].msg /\ s.made[i].status = r.made[i].status
  /\ r.made = <<>> => s.made = <<>>

LEMMA AgedRows ==
  ASSUME NEW rows \in Seq(AnswerRow)
  PROVE  /\ Aged(rows) \in Seq(AnswerRow) /\ Len(Aged(rows)) = Len(rows)
         /\ DOMAIN Aged(rows) = DOMAIN rows
         /\ \A i \in DOMAIN rows : /\ Aged(rows)[i].msg = rows[i].msg
                                   /\ Aged(rows)[i].status = rows[i].status
                                   /\ Aged(rows)[i].age <= 1 => rows[i].age <= 1
         /\ rows = <<>> => Aged(rows) = <<>>
  <1>1. Len(rows) \in Nat /\ DOMAIN rows = 1..Len(rows)
    BY LenProperties
  <1>2. ASSUME NEW i \in DOMAIN rows
        PROVE  /\ Older(rows[i]) \in AnswerRow
               /\ Older(rows[i]).msg = rows[i].msg /\ Older(rows[i]).status = rows[i].status
               /\ Older(rows[i]).age <= 1 => rows[i].age <= 1
    <2>1. rows[i] \in AnswerRow
      BY <1>1, ElementOfSeq
    <2> DEFINE a == IF rows[i].age < 2 THEN rows[i].age + 1 ELSE 2
               o == [rows[i] EXCEPT !.age = a]
    <2>2. Older(rows[i]) = o
      BY <2>1 DEF Older, AnswerRow
    <2>3. a \in 0..2 /\ (a <= 1 => rows[i].age <= 1)
      BY <2>1 DEF AnswerRow
    <2> HIDE DEF a
    <2>4. o \in AnswerRow /\ o.msg = rows[i].msg /\ o.status = rows[i].status /\ o.age = a
      BY <2>1, <2>3 DEF AnswerRow
    <2> HIDE DEF o
    <2> QED
      BY <2>2, <2>3, <2>4
  <1>3. /\ DOMAIN Aged(rows) = 1..Len(rows)
        /\ \A i \in DOMAIN rows : Aged(rows)[i] = Older(rows[i])
    BY <1>1 DEF Aged
  <1>4. Aged(rows) \in [1..Len(rows) -> AnswerRow]
    BY <1>1, <1>2 DEF Aged
  <1>5. Aged(rows) \in Seq(AnswerRow)
    BY <1>1, <1>4, SeqDef
  <1>6. Len(Aged(rows)) = Len(rows)
    BY <1>1, <1>3, <1>5, LenProperties
  <1>7. rows = <<>> => Aged(rows) = <<>>
    BY <1>1, <1>5, <1>6, EmptySeq
  <1> QED
    BY <1>1, <1>2, <1>3, <1>5, <1>6, <1>7

LEMMA TickEffect ==
  ASSUME TypeOK, Tick
  PROVE  /\ \A r \in Runs : /\ Ages(run[r], run'[r])
                            /\ Works(run[r]) => run[r].age = 0 /\ run'[r].age = 1
         /\ run' \in [Runs -> Run]
         /\ acts' \in Seq(AnswerRow) /\ DOMAIN acts' = DOMAIN acts
         /\ acts = <<>> => acts' = <<>>
         /\ \A i \in DOMAIN acts : /\ acts'[i].msg = acts[i].msg
                                   /\ acts'[i].status = acts[i].status
                                   /\ acts'[i].age <= 1 => acts[i].age <= 1
  <1>1. acts' = Aged(acts) /\ acts \in Seq(AnswerRow)
    BY DEF Tick, TypeOK
  <1>2. ASSUME NEW r \in Runs
        PROVE  /\ run'[r] \in Run /\ Ages(run[r], run'[r])
               /\ Works(run[r]) => run[r].age = 0 /\ run'[r].age = 1
    <2> DEFINE R == run[r]
               l == Aged(R.made)
               c == [R EXCEPT !.age = 1, !.made = l]
    <2>1. R \in Run /\ R.made \in Seq(AnswerRow)
      BY DEF TypeOK, Run
    <2>2. CASE Works(R)
      <3>1. run'[r] = c /\ R.age = 0
        BY <2>1, <2>2 DEF Tick, Active, Works, Run
      <3>2. /\ l \in Seq(AnswerRow) /\ Len(l) = Len(R.made) /\ DOMAIN l = DOMAIN R.made
            /\ \A i \in DOMAIN R.made : l[i].msg = R.made[i].msg /\ l[i].status = R.made[i].status
            /\ R.made = <<>> => l = <<>>
        BY <2>1, AgedRows
      <3>3. l \in Seq(AnswerRow) /\ 1 \in 0..1
        BY <3>2
      <3> HIDE DEF l, R
      <3>4. /\ c \in Run /\ c.pc = R.pc /\ c.list = R.list /\ c.last = R.last /\ c.age = 1
            /\ c.budget = R.budget /\ c.asked = R.asked /\ c.made = l
        BY <2>1, <3>3 DEF Run
      <3> HIDE DEF c
      <3> QED
        BY <3>1, <3>2, <3>4 DEF Ages, R
    <2>3. CASE ~Works(R)
      <3>1. run'[r] = R
        BY <2>3 DEF Tick, Active, Works
      <3> QED
        BY <2>1, <2>3, <3>1 DEF Ages
    <2> QED
      BY <2>2, <2>3
  <1>3. run' \in [Runs -> Run]
    <2>1. DOMAIN run' = Runs /\ run' = [r \in Runs |-> run'[r]]
      BY DEF Tick
    <2> QED
      BY <1>2, <2>1
  <1> QED
    BY <1>1, <1>2, <1>3, AgedRows

-----------------------------------------------------------------------------
(* What a step of the system can be.                                       *)
Others(r) == \A o \in Runs \ {r} : run'[o] = run[o]

GoesOn(r) ==
  /\ Judged(run[r], run'[r]) /\ Others(r)
  /\ UNCHANGED <<stored, rule, mode, active, hour, acts, delivered, risky, start, faults, edits>>

Answers(r, row) ==
  /\ Answered(run[r], run'[r], row) /\ Others(r)
  /\ delivered' \in [Ids -> Nat] /\ run[r].last \in Ids
  /\ delivered'[run[r].last] \in {delivered[run[r].last], delivered[run[r].last] + 1}
  /\ \A m \in Ids \ {run[r].last} : delivered'[m] = delivered[m]
  /\ faults' \in {faults, faults + 1}
  /\ UNCHANGED <<stored, rule, mode, active, hour, acts, risky, start, edits>>

Elsewhere == UNCHANGED <<rule, acts, run, delivered, risky, start, hour>>

LEMMA Effects ==
  ASSUME TypeOK, \A r \in Runs : RunInv(run[r]), [Next]_vars
  PROVE  \/ \E r \in Runs : Rests(r) \/ Begun(r) \/ GoesOn(r)
         \/ \E r \in Runs : \E row : Answers(r, row)
         \/ \E r \in Runs : \E rows : Commits(r, rows)
         \/ Elsewhere
         \/ \E e \in BOOLEAN : UpsertRule(e)
         \/ \E i \in DOMAIN acts : Reject(i)
         \/ Tick
  <1>1. ASSUME NEW r \in Runs, StartRun(r) \/ Open(r)
        PROVE  Rests(r) \/ Begun(r)
    BY <1>1, StartEffect, OpenEffect
  <1>2. ASSUME NEW r \in Runs, Judge(r) \/ NoDraft(r)
        PROVE  GoesOn(r)
    BY <1>2, JudgeEffect, NoDraftEffect DEF GoesOn, Others, Judge, NoDraft, bounds, world
  <1>3. ASSUME NEW r \in Runs, Propose(r)
        PROVE  \E row : Answers(r, row)
    BY <1>3, AnswerEffect DEF Answers, Others
  <1>4. ASSUME NEW r \in Runs, Save(r) \/ Raise(r) \/ Die(r)
        PROVE  \E rows : Commits(r, rows)
    BY <1>4, CommitEffect
  <1>5. ASSUME \/ \E m \in Ids : Store(m)
               \/ \E m \in Modes : SetMode(m)
               \/ \E a \in BOOLEAN : SetStatus(a)
               \/ UNCHANGED vars
        PROVE  Elsewhere
    BY <1>5 DEF Store, SetMode, SetStatus, vars, world, Elsewhere
  <1> QED
    BY <1>1, <1>2, <1>3, <1>4, <1>5 DEF Next, Progress

LEMMA TypeStep ==
  ASSUME TypeOK, \A r \in Runs : RunInv(run[r]), [Next]_vars
  PROVE  TypeOK'
  <1> USE AutoReplyAssumption
  <1>0. ASSUME NEW r \in Runs, run'[r] \in Run, \E c : run' = [run EXCEPT ![r] = c]
        PROVE  run' \in [Runs -> Run]
    BY <1>0 DEF TypeOK
  <1>1. ASSUME NEW r \in Runs, StartRun(r) \/ Open(r) \/ Judge(r) \/ NoDraft(r)
        PROVE  TypeOK'
    <2>1. run'[r] \in Run
      BY <1>1, StartEffect, OpenEffect, JudgeEffect, NoDraftEffect DEF Rests, Begun, Judged
    <2>2. \E c : run' = [run EXCEPT ![r] = c]
      <3>1. CASE StartRun(r)
        BY <3>1 DEF StartRun, TypeOK
      <3>2. CASE Open(r)
        BY <3>2 DEF Open
      <3>3. CASE Judge(r)
        BY <3>3 DEF Judge, TypeOK
      <3>4. CASE NoDraft(r)
        BY <3>4 DEF NoDraft, TypeOK
      <3> QED
        BY <1>1, <3>1, <3>2, <3>3, <3>4
    <2>3. run' \in [Runs -> Run]
      BY <1>0, <2>1, <2>2
    <2>4. risky' \subseteq Ids
      <3>1. CASE Open(r)
        <4>1. \A o \in Runs : run[o].list \subseteq Ids
          BY DEF TypeOK, Run
        <4> QED
          BY <3>1, <4>1, NewAreStored DEF Open, TypeOK
      <3>2. CASE ~Open(r)
        BY <1>1, <3>2 DEF StartRun, Judge, NoDraft, TypeOK
      <3> QED
        BY <3>1, <3>2
    <2>5. UNCHANGED <<stored, rule, mode, active, hour, acts, delivered, start, faults, edits>>
      BY <1>1 DEF StartRun, Open, Judge, NoDraft, bounds, world
    <2> QED
      BY <2>3, <2>4, <2>5 DEF TypeOK
  <1>2. ASSUME NEW r \in Runs, Propose(r)
        PROVE  TypeOK'
    <2>1. /\ run'[r] \in Run /\ delivered' \in [Ids -> Nat]
          /\ faults' \in {faults, faults + 1}
          /\ UNCHANGED <<stored, rule, mode, active, hour, acts, risky, start, edits>>
      BY <1>2, AnswerEffect DEF Answered
    <2>2. \E c : run' = [run EXCEPT ![r] = c]
      BY <1>2 DEF Propose, Answer
    <2>3. run' \in [Runs -> Run]
      BY <1>0, <2>1, <2>2
    <2> QED
      BY <2>1, <2>3 DEF TypeOK
  <1>3. ASSUME NEW r \in Runs, Save(r) \/ Raise(r) \/ Die(r)
        PROVE  TypeOK'
    <2>1. PICK rows : Commits(r, rows)
      BY <1>3, CommitEffect
    <2>2. acts' \in Seq(AnswerRow)
      BY <2>1, ConcatProperties DEF Commits, TypeOK
    <2>3. run' = [run EXCEPT ![r] = Idle]
      BY <1>3 DEF Save, Raise, Die, Fail
    <2>4. run' \in [Runs -> Run]
      BY <2>3, IdleIsRun DEF TypeOK
    <2>5. faults' \in Nat
      <3>1. CASE Save(r)
        BY <3>1 DEF Save, bounds, TypeOK
      <3>2. CASE Raise(r) \/ Die(r)
        <4>1. Fail(r)
          BY <3>2 DEF Raise, Die
        <4> QED
          BY <4>1 DEF Fail, TypeOK
      <3> QED
        BY <1>3, <3>1, <3>2
    <2>6. rule' \in [exists : BOOLEAN, enabled : BOOLEAN, cursor : 0..MaxId]
      <3>1. run[r].last \in 0..MaxId
        BY DEF TypeOK, Run
      <3> QED
        BY <2>1, <3>1 DEF Commits, TypeOK
    <2>7. risky' \subseteq Ids
      BY <2>1 DEF Commits, TypeOK, Run
    <2> QED
      BY <2>1, <2>2, <2>4, <2>5, <2>6, <2>7 DEF Commits, TypeOK
  <1>4. ASSUME NEW m \in Ids, Store(m)
        PROVE  TypeOK'
    BY <1>4 DEF Store, TypeOK, bounds, world
  <1>5. ASSUME NEW e \in BOOLEAN, UpsertRule(e)
        PROVE  TypeOK'
    <2>1. Newest(stored) \in 0..MaxId
      BY NewestOf DEF TypeOK
    <2> QED
      BY <1>5, <2>1 DEF UpsertRule, TypeOK, world
  <1>6. ASSUME NEW m \in Modes, SetMode(m)
        PROVE  TypeOK'
    BY <1>6 DEF SetMode, TypeOK, world
  <1>10. ASSUME NEW a \in BOOLEAN, SetStatus(a)
         PROVE  TypeOK'
    BY <1>10 DEF SetStatus, TypeOK
  <1>7. ASSUME NEW i \in DOMAIN acts, Reject(i)
        PROVE  TypeOK'
    <2>1. /\ edits' = edits + 1
          /\ UNCHANGED <<stored, rule, mode, active, hour, run, delivered, risky, start, faults>>
      BY <1>7 DEF Reject, world
    <2>2. acts' \in Seq(AnswerRow)
      <3> DEFINE e == [acts[i] EXCEPT !.status = "rejected"]
      <3>1. acts[i] \in AnswerRow /\ i \in 1..Len(acts)
        BY ElementOfSeq, LenProperties DEF TypeOK
      <3>2. e \in AnswerRow
        BY <3>1 DEF AnswerRow, Statuses
      <3>3. acts' = [acts EXCEPT ![i] = e]
        BY <1>7 DEF Reject
      <3> HIDE DEF e
      <3> QED
        BY <3>1, <3>2, <3>3, ExceptSeq DEF TypeOK
    <2> QED
      BY <1>7, <2>1, <2>2 DEF TypeOK
  <1>8. CASE Tick
    <2>1. hour' \in 0..Day - 1
      <3>1. hour \in 0..Day - 1 /\ Day \in Nat /\ hour' = After(hour)
        BY <1>8 DEF Tick, TypeOK
      <3> QED
        BY <3>1 DEF After
    <2>2. acts' \in Seq(AnswerRow) /\ run' \in [Runs -> Run]
      BY <1>8, TickEffect
    <2> QED
      BY <1>8, <2>1, <2>2 DEF Tick, TypeOK, bounds
  <1>9. CASE UNCHANGED vars
    BY <1>9 DEF vars, TypeOK
  <1> QED
    BY <1>1, <1>2, <1>3, <1>4, <1>5, <1>6, <1>7, <1>8, <1>9, <1>10 DEF Next, Progress

-----------------------------------------------------------------------------
(* What a run knows stays true.                                            *)
LEMMA RunNumbers ==
  ASSUME NEW r \in Run
  PROVE  /\ r.last \in Int /\ r.budget \in Int /\ r.list \subseteq Ids
         /\ \A m \in r.list : m \in Int
         /\ r.made \in Seq(AnswerRow) /\ Len(r.made) \in Nat /\ DOMAIN r.made = 1..Len(r.made)
         /\ \A i \in DOMAIN r.made : r.made[i] \in AnswerRow
  <1>1. r.last \in 0..MaxId /\ r.budget \in Int /\ r.list \subseteq Ids /\ r.made \in Seq(AnswerRow)
    BY DEF Run
  <1>2. Len(r.made) \in Nat /\ DOMAIN r.made = 1..Len(r.made)
    BY <1>1, LenProperties
  <1>3. \A i \in DOMAIN r.made : r.made[i] \in AnswerRow
    BY <1>1, <1>2, ElementOfSeq
  <1>4. r.last \in Int
    BY <1>1, AutoReplyAssumption
  <1>5. \A m \in r.list : m \in Int
    BY <1>1, SomeIds
  <1> QED
    BY <1>1, <1>2, <1>3, <1>4, <1>5

LEMMA JudgedKeeps ==
  ASSUME TypeOK, NEW r \in Run, NEW s, RunInv(r), Judged(r, s)
  PROVE  RunInv(s)
  <1>0. start \in Int
    BY AutoReplyAssumption DEF TypeOK
  <1>1. s \in Run
    BY DEF Judged
  <1>2. Works(r) /\ Works(s)
    BY DEF Judged, Works
  <1>3. /\ s.age = r.age /\ s.list = r.list /\ s.budget = r.budget /\ s.made = r.made
        /\ start <= r.last /\ \A m \in r.list : m > start
        /\ \E m \in r.list : r.last <= m
        /\ \A i \in DOMAIN r.made : r.made[i].msg \in r.list
    BY <1>2 DEF Judged, RunInv
  <1>4. /\ r.last \in Int /\ s.last \in Int /\ \A m \in r.list : m \in Int
    BY <1>1, RunNumbers
  <1>5. CASE r.pc = "work" /\ s.last \in r.list /\ (\A m \in r.list \cap Matching : m <= r.last)
             /\ (\A m \in r.list : m <= s.last) /\ s.pc = "save" /\ s.asked = r.asked
    <2>1. Passed(r) = {}
      BY <1>5 DEF RunInv
    <2>2. Passed(s) = {}
      BY <1>3, <1>5, <2>1 DEF Passed
    <2>3. start <= s.last /\ s.last <= s.last
      BY <1>0, <1>3, <1>4, <1>5
    <2> QED
      BY <1>2, <1>3, <1>5, <2>2, <2>3 DEF RunInv
  <1>6. CASE /\ r.pc = "work" /\ s.last \in r.list \cap Matching /\ r.last < s.last
             /\ \A m \in r.list \cap Matching : m > r.last => s.last <= m
             /\ \/ s.pc = "save" /\ s.asked = r.asked
                \/ s.pc = "draft" /\ s.asked = r.asked \cup {s.last} /\ r.budget > 0
    <2>1. Passed(r) = {}
      BY <1>6 DEF RunInv
    <2>2. ASSUME NEW m \in r.list \cap Matching, m <= s.last, m # s.last
          PROVE  m \in r.asked
      <3>1. m <= r.last
        BY <1>4, <1>6, <2>2
      <3> QED
        BY <2>1, <3>1 DEF Passed
    <2>3. /\ Passed(s) \subseteq {s.last}
          /\ s.pc = "draft" => Passed(s) = {}
      BY <1>3, <1>6, <2>2 DEF Passed
    <2>4. start <= s.last /\ s.last <= s.last
      BY <1>0, <1>3, <1>4, <1>6
    <2> QED
      BY <1>2, <1>3, <1>6, <2>3, <2>4 DEF RunInv
  <1>7. CASE r.pc = "draft" /\ s.pc = "work" /\ s.asked = r.asked /\ s.last = r.last
    <2>1. Passed(r) = {} /\ Passed(s) = Passed(r)
      BY <1>3, <1>7 DEF RunInv, Passed
    <2> QED
      BY <1>2, <1>3, <1>7, <2>1 DEF RunInv
  <1> QED
    BY <1>5, <1>6, <1>7 DEF Judged

LEMMA AnsweredKeeps ==
  ASSUME TypeOK, NEW r \in Run, NEW s, NEW row, RunInv(r), Answered(r, s, row)
  PROVE  RunInv(s)
  <1>1. Works(r) /\ Works(s) /\ r.pc = "draft" /\ s.pc = "work"
    BY DEF Answered, Works
  <1>2. r.last \in r.list /\ Passed(r) = {} /\ Passed(s) = Passed(r)
    BY <1>1 DEF Answered, RunInv, Passed
  <1>3. \A i \in DOMAIN s.made : s.made[i].msg \in s.list
    <2>1. r.made \in Seq(AnswerRow) /\ row \in AnswerRow /\ s.made = Append(r.made, row)
      BY RunNumbers DEF Answered
    <2>2. \A i \in DOMAIN r.made : r.made[i].msg \in r.list
      BY <1>1 DEF RunInv
    <2>3. row.msg \in r.list
      BY <1>2 DEF Answered
    <2>4. \A i \in DOMAIN s.made : s.made[i] = row \/ (i \in DOMAIN r.made /\ s.made[i] = r.made[i])
      BY <2>1, AppendProperties, LenProperties
    <2> QED
      BY <2>2, <2>3, <2>4 DEF Answered
  <1>4. /\ s.age = r.age /\ s.list = r.list /\ s.last = r.last
    BY DEF Answered
  <1> QED
    BY <1>1, <1>2, <1>3, <1>4 DEF RunInv

LEMMA AgedKeeps ==
  ASSUME NEW r, NEW s, RunInv(r), Ages(r, s)
  PROVE  RunInv(s)
  BY DEF RunInv, Ages, Works, Passed

LEMMA RestIsSafe ==
  ASSUME NEW s, ~Works(s), s.made = <<>>, s.budget = 0, s.list = {}
  PROVE  RunInv(s)
  BY DEF Works, RunInv

LEMMA RunInvStep ==
  ASSUME TypeOK, \A r \in Runs : RunInv(run[r]), Ruled, [Next]_vars
  PROVE  (\A r \in Runs : RunInv(run[r]))'
  <1>0. \A r \in Runs : run[r] \in Run
    BY DEF TypeOK
  <1>1. ASSUME start' = start, NEW r \in Runs, RunInv(run'[r])
        PROVE  RunInv(run[r])'
    BY <1>1 DEF RunInv, Works, Passed
  <1>2. ASSUME NEW r \in Runs, Rests(r) \/ Begun(r)
        PROVE  \A q \in Runs : RunInv(run[q])'
    <2>1. start' = start /\ \A q \in Runs \ {r} : run'[q] = run[q]
      BY <1>2 DEF Rests, Begun
    <2>2. RunInv(run'[r])
      <3>1. CASE Rests(r)
        BY <3>1, RestIsSafe DEF Rests, Works
      <3>2. CASE Begun(r)
        <4> DEFINE s == run'[r]
        <4>0. rule.cursor \in Int /\ start \in Int /\ start <= rule.cursor
          BY AutoReplyAssumption DEF TypeOK, Ruled
        <4>1. s.pc = "work" /\ Works(s) /\ s.list = NewMessages /\ s.last = rule.cursor /\ s.made = <<>>
              /\ NewMessages # {}
          BY <3>2 DEF Begun, Works
        <4>2. \A m \in NewMessages : m > rule.cursor /\ m \in Int
          BY NewAreStored, SomeIds
        <4>3. \A m \in NewMessages : m > start /\ rule.cursor <= m /\ ~(m <= rule.cursor)
          BY <4>0, <4>2
        <4>4. Passed(s) = {}
          BY <4>1, <4>3 DEF Passed
        <4> HIDE DEF s
        <4>5. DOMAIN s.made = {}
          BY <4>1
        <4>6. RunInv(s)
          BY <4>0, <4>1, <4>3, <4>4, <4>5 DEF RunInv
        <4> QED
          BY <4>6 DEF s
      <3> QED
        BY <1>2, <3>1, <3>2
    <2> QED
      BY <1>1, <2>1, <2>2
  <1>3. ASSUME NEW r \in Runs, GoesOn(r)
        PROVE  \A q \in Runs : RunInv(run[q])'
    BY <1>0, <1>1, <1>3, JudgedKeeps DEF GoesOn, Others
  <1>4. ASSUME NEW r \in Runs, NEW row, Answers(r, row)
        PROVE  \A q \in Runs : RunInv(run[q])'
    BY <1>0, <1>1, <1>4, AnsweredKeeps DEF Answers, Others
  <1>5. ASSUME NEW r \in Runs, NEW rows, Commits(r, rows)
        PROVE  \A q \in Runs : RunInv(run[q])'
    <2>1. RunInv(run'[r])
      BY <1>5, IdleIsRun, RestIsSafe DEF Commits, Works
    <2> QED
      BY <1>1, <1>5, <2>1 DEF Commits
  <1>6. CASE Elsewhere \/ \E i \in DOMAIN acts : Reject(i)
    BY <1>1, <1>6 DEF Elsewhere, Reject
  <1>7. ASSUME NEW e \in BOOLEAN, UpsertRule(e)
        PROVE  \A q \in Runs : RunInv(run[q])'
    <2>1. run' = run /\ (rule.exists => start' = start)
      BY <1>7 DEF UpsertRule
    <2>2. CASE rule.exists
      BY <1>1, <2>1, <2>2
    <2>3. CASE ~rule.exists
      BY <2>1, <2>3 DEF Ruled, RunInv, Works
    <2> QED
      BY <2>2, <2>3
  <1>8. CASE Tick
    <2> SUFFICES ASSUME NEW q \in Runs
                 PROVE  RunInv(run[q])'
      OBVIOUS
    <2>1. start' = start /\ Ages(run[q], run'[q])
      BY <1>8, TickEffect DEF Tick
    <2>2. RunInv(run'[q])
      BY <1>0, <2>1, AgedKeeps
    <2> QED
      BY <1>1, <2>1, <2>2
  <1> QED
    BY <1>2, <1>3, <1>4, <1>5, <1>6, <1>7, <1>8, Effects

-----------------------------------------------------------------------------
(* The rows that a run commits: each answers a message of its list; before  *)
(* them the table is what it was.                                          *)
LEMMA CommittedRows ==
  ASSUME TypeOK, NEW r \in Runs, RunInv(run[r]), NEW rows, Commits(r, rows)
  PROVE  /\ \A k \in DOMAIN rows : rows[k].msg \in run[r].list /\ rows[k] \in AnswerRow
         /\ Len(acts) \in Nat /\ Len(rows) \in Nat
         /\ DOMAIN acts = 1..Len(acts) /\ DOMAIN rows = 1..Len(rows)
         /\ DOMAIN acts' = 1..(Len(acts) + Len(rows))
         /\ \A i \in DOMAIN acts : i \in DOMAIN acts' /\ acts'[i] = acts[i]
         /\ \A i \in DOMAIN acts' \ DOMAIN acts :
              i - Len(acts) \in DOMAIN rows /\ acts'[i] = rows[i - Len(acts)]
  <1>1. acts \in Seq(AnswerRow) /\ rows \in Seq(AnswerRow) /\ acts' = acts \o rows
    BY DEF TypeOK, Commits
  <1>2. Works(run[r]) /\ run[r] \in Run
    BY DEF Commits, TypeOK
  <1>3. \A k \in DOMAIN run[r].made : run[r].made[k].msg \in run[r].list
    BY <1>2 DEF RunInv
  <1>4. \A k \in DOMAIN rows : rows[k].msg \in run[r].list
    <2>1. CASE rows = run[r].made
      BY <1>3, <2>1
    <2>2. CASE rows = <<>>
      BY <2>2
    <2>3. ASSUME run[r].pc = "draft", NEW row \in AnswerRow, rows = Append(run[r].made, row),
                 row.msg = run[r].last
          PROVE  \A k \in DOMAIN rows : rows[k].msg \in run[r].list
      <3>1. run[r].last \in run[r].list
        BY <2>3 DEF RunInv
      <3>2. run[r].made \in Seq(AnswerRow)
        BY <1>2, RunNumbers
      <3>3. \A k \in DOMAIN rows : rows[k] = row \/ (k \in DOMAIN run[r].made /\ rows[k] = run[r].made[k])
        BY <2>3, <3>2, AppendProperties, LenProperties
      <3> QED
        BY <1>3, <2>3, <3>1, <3>3
    <2> QED
      BY <2>1, <2>2, <2>3 DEF Commits
  <1>5. \A k \in DOMAIN rows : rows[k] \in AnswerRow
    BY <1>1, ElementOfSeq, LenProperties
  <1>6. /\ Len(acts) \in Nat /\ Len(rows) \in Nat
        /\ DOMAIN acts = 1..Len(acts) /\ DOMAIN rows = 1..Len(rows)
    BY <1>1, LenProperties
  <1>7. Len(acts') = Len(acts) + Len(rows) /\ acts' \in Seq(AnswerRow)
    BY <1>1, ConcatProperties
  <1>8. DOMAIN acts' = 1..(Len(acts) + Len(rows))
    BY <1>7, LenProperties
  <1>9. \A i \in 1..(Len(acts) + Len(rows)) :
          acts'[i] = IF i <= Len(acts) THEN acts[i] ELSE rows[i - Len(acts)]
    BY <1>1, ConcatProperties
  <1> QED
    BY <1>4, <1>5, <1>6, <1>8, <1>9

LEMMA RuledStep ==
  ASSUME TypeOK, \A r \in Runs : RunInv(run[r]), Ruled, [Next]_vars
  PROVE  Ruled'
  <1>0. /\ start \in Int /\ rule.cursor \in Int
        /\ \A r \in Runs : run[r] \in Run
    BY AutoReplyAssumption DEF TypeOK
  <1>1. \A r \in Runs : Works(run[r]) => /\ \A m \in run[r].list : m > start
                                         /\ start <= run[r].last
    BY DEF RunInv
  <1>2. \A r \in Runs : run[r].pc # "idle" => rule.exists
    BY DEF Ruled
  <1>3. ASSUME NEW r \in Runs, Rests(r) \/ Begun(r)
        PROVE  Ruled'
    <2>1. rule.exists /\ UNCHANGED <<rule, start, acts, delivered>>
      BY <1>2, <1>3 DEF Rests, Begun, Ruled
    <2> QED
      BY <2>1 DEF Ruled
  <1>4. ASSUME NEW r \in Runs, GoesOn(r)
        PROVE  Ruled'
    <2>1. rule.exists /\ UNCHANGED <<rule, start, acts, delivered>>
      BY <1>2, <1>4 DEF GoesOn, Judged
    <2> QED
      BY <2>1 DEF Ruled
  <1>5. ASSUME NEW r \in Runs, NEW row, Answers(r, row)
        PROVE  Ruled'
    <2>1. rule.exists /\ UNCHANGED <<rule, start, acts>>
      BY <1>2, <1>5 DEF Answers, Answered
    <2>2. run[r].last > start
      <3>1. run[r].pc = "draft"
        BY <1>5 DEF Answers, Answered
      <3> QED
        BY <1>1, <3>1 DEF RunInv, Works
    <2>3. \A m \in Ids : delivered'[m] > 0 => m > start
      BY <1>5, <2>2 DEF Answers, Ruled
    <2> QED
      BY <2>1, <2>3 DEF Ruled
  <1>6. ASSUME NEW r \in Runs, NEW rows, Commits(r, rows)
        PROVE  Ruled'
    <2>1. Works(run[r]) /\ rule.exists /\ UNCHANGED <<start, delivered>>
      BY <1>2, <1>6 DEF Commits, Works
    <2>2. rule'.exists = rule.exists /\ rule'.cursor \in {rule.cursor, run[r].last}
      BY <1>6 DEF Commits, TypeOK
    <2>3. start <= rule'.cursor
      BY <1>1, <2>1, <2>2 DEF Ruled
    <2>4. \A i \in DOMAIN acts' : acts'[i].msg > start
      <3>1. \A i \in DOMAIN acts : acts'[i].msg > start
        BY <1>6, CommittedRows DEF Ruled
      <3>2. ASSUME NEW i \in DOMAIN acts' \ DOMAIN acts
            PROVE  acts'[i].msg > start
        <4>1. acts'[i].msg \in run[r].list
          BY <1>6, CommittedRows
        <4> QED
          BY <1>1, <2>1, <4>1
      <3> QED
        BY <3>1, <3>2
    <2> QED
      BY <2>1, <2>2, <2>3, <2>4 DEF Ruled
  <1>7. CASE Elsewhere
    BY <1>7 DEF Elsewhere, Ruled
  <1>8. ASSUME NEW e \in BOOLEAN, UpsertRule(e)
        PROVE  Ruled'
    <2>1. /\ UNCHANGED <<acts, run, delivered>> /\ rule'.exists
          /\ rule.exists => rule'.cursor = rule.cursor /\ start' = start
          /\ ~rule.exists => rule'.cursor = Newest(stored) /\ start' = Newest(stored)
      BY <1>8 DEF UpsertRule
    <2>2. CASE rule.exists
      BY <2>1, <2>2 DEF Ruled
    <2>3. CASE ~rule.exists
      <3>1. Newest(stored) \in Int
        BY NewestOf, AutoReplyAssumption DEF TypeOK
      <3>2. DOMAIN acts = {} /\ \A m \in Ids : delivered[m] = 0
        BY <2>3 DEF Ruled
      <3> QED
        BY <2>1, <2>3, <3>1, <3>2 DEF Ruled
    <2> QED
      BY <2>2, <2>3
  <1>9. ASSUME NEW i \in DOMAIN acts, Reject(i)
        PROVE  Ruled'
    <2>1. /\ UNCHANGED <<rule, run, delivered, start>>
          /\ acts' = [acts EXCEPT ![i].status = "rejected"] /\ acts # <<>>
      BY <1>9 DEF Reject
    <2>2. \A k \in DOMAIN acts : acts[k] \in AnswerRow
      BY ElementOfSeq, LenProperties DEF TypeOK
    <2>3. DOMAIN acts' = DOMAIN acts /\ \A k \in DOMAIN acts : acts'[k].msg = acts[k].msg
      BY <2>1, <2>2 DEF AnswerRow
    <2>4. rule.exists
      BY <2>1 DEF Ruled
    <2> QED
      BY <2>1, <2>3, <2>4 DEF Ruled
  <1>10. CASE Tick
    <2>1. /\ UNCHANGED <<rule, start, delivered>>
          /\ DOMAIN acts' = DOMAIN acts /\ \A i \in DOMAIN acts : acts'[i].msg = acts[i].msg
          /\ acts = <<>> => acts' = <<>>
          /\ \A r \in Runs : run'[r].pc = run[r].pc
      BY <1>10, TickEffect DEF Tick, Ages
    <2> QED
      BY <2>1 DEF Ruled
  <1> QED
    BY <1>3, <1>4, <1>5, <1>6, <1>7, <1>8, <1>9, <1>10, Effects

-----------------------------------------------------------------------------
(* A message that is not at risk is answered once.                         *)
Fine(m) == Alone(m) /\ Behind(m) /\ Single(m)

LEMMA OnceStays ==
  ASSUME NEW m, Fine(m), UNCHANGED <<delivered, run>>, rule'.cursor = rule.cursor,
         DOMAIN acts' = DOMAIN acts, \A i \in DOMAIN acts : acts'[i].msg = acts[i].msg
  PROVE  Fine(m)'
  BY DEF Fine, Alone, Behind, Single, Spent, Works

LEMMA OnceAges ==
  ASSUME TypeOK, NEW m, Fine(m), Tick
  PROVE  Fine(m)'
  <1>1. /\ UNCHANGED <<delivered, rule>> /\ DOMAIN acts' = DOMAIN acts
        /\ \A i \in DOMAIN acts : acts'[i].msg = acts[i].msg
        /\ \A r \in Runs : Ages(run[r], run'[r])
    BY TickEffect DEF Tick
  <1>2. \A r \in Runs : /\ Works(run'[r]) <=> Works(run[r])
                        /\ run'[r].pc = run[r].pc /\ run'[r].list = run[r].list
                        /\ run'[r].last = run[r].last
                        /\ DOMAIN run'[r].made = DOMAIN run[r].made
                        /\ \A i \in DOMAIN run[r].made : run'[r].made[i].msg = run[r].made[i].msg
    BY <1>1 DEF Ages, Works
  <1>3. Alone(m)'
    <2> SUFFICES ASSUME NEW q \in Runs, Works(run'[q]), m \in run'[q].list
                 PROVE  /\ \A o \in Runs \ {q} : ~Works(run'[o])
                        /\ \A i \in DOMAIN acts' : acts'[i].msg # m
                        /\ \A i, k \in DOMAIN run'[q].made : run'[q].made[i].msg = m /\ run'[q].made[k].msg = m => i = k
                        /\ (delivered[m] > 0 \/ \E i \in DOMAIN run'[q].made : run'[q].made[i].msg = m) =>
                             m <= run'[q].last /\ (m = run'[q].last => run'[q].pc # "draft")
      BY <1>1 DEF Alone, Works
    <2> QED
      BY <1>1, <1>2 DEF Fine, Alone
  <1>4. Behind(m)'
    <2>1. Spent(m)' <=> Spent(m)
      BY <1>1 DEF Spent
    <2> SUFFICES ASSUME Spent(m), \A q \in Runs : Works(run'[q]) => m \notin run'[q].list
                 PROVE  m <= rule.cursor /\ \A q \in Runs : Works(run'[q]) => m <= run'[q].last
      BY <1>1, <2>1 DEF Behind, Works
    <2> QED
      BY <1>2 DEF Fine, Behind
  <1> QED
    BY <1>1, <1>3, <1>4 DEF Fine, Single

LEMMA OnceRests ==
  ASSUME NEW m, Fine(m), NEW r \in Runs, Rests(r)
  PROVE  Fine(m)'
  <1>1. ~Works(run[r]) /\ ~Works(run'[r]) /\ \A o \in Runs \ {r} : run'[o] = run[o]
    BY DEF Rests, Works
  <1>2. \A o \in Runs : Works(run'[o]) => Works(run[o]) /\ run'[o] = run[o]
    BY <1>1
  <1>3. \A o \in Runs : Works(run[o]) => Works(run'[o]) /\ run'[o] = run[o]
    BY <1>1
  <1>4. UNCHANGED <<rule, acts, delivered>>
    BY DEF Rests
  <1>5. Alone(m)'
    <2> SUFFICES ASSUME NEW q \in Runs, Works(run'[q]), m \in run'[q].list
                 PROVE  /\ \A o \in Runs \ {q} : ~Works(run'[o])
                        /\ \A i \in DOMAIN acts : acts[i].msg # m
                        /\ \A i, k \in DOMAIN run'[q].made : run'[q].made[i].msg = m /\ run'[q].made[k].msg = m => i = k
                        /\ (delivered[m] > 0 \/ \E i \in DOMAIN run'[q].made : run'[q].made[i].msg = m) =>
                             m <= run'[q].last /\ (m = run'[q].last => run'[q].pc # "draft")
      BY <1>4 DEF Alone, Works
    <2>1. run'[q] = run[q]
      BY <1>2
    <2> QED
      BY <1>2, <2>1 DEF Fine, Alone
  <1>6. Behind(m)'
    BY <1>2, <1>3, <1>4 DEF Fine, Behind, Spent, Works
  <1> QED
    BY <1>4, <1>5, <1>6 DEF Fine, Single

LEMMA OnceBegun ==
  ASSUME TypeOK, NEW m \in Ids \ risky', Fine(m), NEW r \in Runs, Begun(r)
  PROVE  Fine(m)'
  <1>0. /\ UNCHANGED <<rule, acts, delivered>> /\ m \in Int /\ rule.cursor \in Int
        /\ delivered[m] \in Nat
    <2>1. rule.cursor \in 0..MaxId /\ MaxId \in Nat
      BY AutoReplyAssumption DEF TypeOK
    <2> QED
      BY <2>1 DEF Begun, TypeOK, Ids
  <1>1. /\ ~Works(run[r]) /\ Works(run'[r]) /\ \A o \in Runs \ {r} : run'[o] = run[o]
        /\ run'[r].list = NewMessages /\ run'[r].last = rule.cursor /\ run'[r].made = <<>>
    BY DEF Begun, Works
  <1>2. \A x \in NewMessages : x > rule.cursor
    BY NewAreStored
  <1>3. CASE m \in NewMessages
    <2>1. \A o \in Runs : ~Works(run[o])
      BY <1>3 DEF Begun
    <2>2. ~Spent(m)
      <3>1. ~(m <= rule.cursor)
        BY <1>0, <1>2, <1>3
      <3> QED
        BY <2>1, <3>1 DEF Fine, Behind
    <2>3. \A q \in Runs : Works(run'[q]) => q = r
      BY <1>1, <2>1
    <2>4. ~(delivered[m] > 0) /\ DOMAIN run'[r].made = {}
      BY <1>1, <2>2 DEF Spent
    <2>5. Alone(m)'
      <3> SUFFICES ASSUME NEW q \in Runs, Works(run'[q])
                   PROVE  /\ \A o \in Runs \ {q} : ~Works(run'[o])
                          /\ \A i \in DOMAIN acts : acts[i].msg # m
                          /\ DOMAIN run'[q].made = {}
                          /\ ~(delivered[m] > 0)
        BY <1>0 DEF Alone, Works
      <3> QED
        BY <2>2, <2>3, <2>4 DEF Spent
    <2>6. Behind(m)'
      BY <1>1, <1>3 DEF Behind, Works
    <2> QED
      BY <1>0, <2>5, <2>6 DEF Fine, Single
  <1>4. CASE m \notin NewMessages
    <2>1. \A o \in Runs : Works(run'[o]) => o = r \/ (Works(run[o]) /\ run'[o] = run[o])
      BY <1>1
    <2>2. ASSUME NEW q \in Runs, Works(run'[q]), m \in run'[q].list
          PROVE  FALSE
      <3>1. q # r /\ Works(run[q]) /\ m \in run[q].list
        BY <1>1, <1>4, <2>1, <2>2
      <3> QED
        BY <3>1 DEF Begun
    <2>3. ASSUME NEW q \in Runs, Works(run[q]), m \in run[q].list
          PROVE  FALSE
      <3>1. q # r
        BY <1>1, <2>3
      <3> QED
        BY <2>3, <3>1 DEF Begun
    <2>4. Alone(m)'
      BY <2>2 DEF Alone, Works
    <2>5. Behind(m)'
      <3> SUFFICES ASSUME Spent(m)
                   PROVE  m <= rule.cursor /\ \A q \in Runs : Works(run'[q]) => m <= run'[q].last
        BY <1>0 DEF Behind, Spent, Works
      <3>1. m <= rule.cursor /\ \A q \in Runs : Works(run[q]) => m <= run[q].last
        BY <2>3 DEF Fine, Behind
      <3> QED
        BY <1>1, <2>1, <3>1
    <2> QED
      BY <1>0, <2>4, <2>5 DEF Fine, Single
  <1> QED
    BY <1>3, <1>4

LEMMA OnceGoesOn ==
  ASSUME TypeOK, NEW m \in Ids, Fine(m), NEW r \in Runs, RunInv(run[r]), GoesOn(r)
  PROVE  Fine(m)'
  <1>0. /\ UNCHANGED <<rule, acts, delivered>> /\ m \in Int
    BY SomeIds DEF GoesOn
  <1> DEFINE R == run[r]
             s == run'[r]
  <1>1. /\ Works(R) /\ Works(s) /\ \A o \in Runs \ {r} : run'[o] = run[o]
        /\ s.list = R.list /\ s.made = R.made
    BY DEF GoesOn, Others, Judged, Works
  <1>2. R \in Run /\ s \in Run
    BY DEF TypeOK, GoesOn, Judged
  <1>3. R.last \in Int /\ s.last \in Int /\ \A x \in R.list : x \in Int
    BY <1>2, RunNumbers
  <1>4. PICK x \in R.list : R.last <= x
    BY <1>1 DEF RunInv
  <1>5. R.last <= s.last /\ (s.pc = "draft" => R.last < s.last)
    <2>1. CASE s.pc = "save" /\ \A y \in R.list : y <= s.last
      BY <1>3, <1>4, <2>1
    <2>2. CASE R.last < s.last
      BY <1>3, <2>2
    <2>3. CASE s.pc = "work" /\ s.last = R.last
      BY <1>3, <2>3
    <2> QED
      BY <2>1, <2>2, <2>3 DEF GoesOn, Judged
  <1>6. \A q \in Runs : /\ Works(run'[q]) <=> Works(run[q])
                        /\ run'[q].list = run[q].list /\ run'[q].made = run[q].made
    BY <1>1
  <1>7. \A q \in Runs : m <= run[q].last /\ Works(run[q]) => m <= run'[q].last
    BY <1>0, <1>1, <1>3, <1>5
  <1>8. \A q \in Runs : m <= run[q].last /\ (m = run[q].last => run[q].pc # "draft") =>
                          (m = run'[q].last => run'[q].pc # "draft")
    BY <1>0, <1>1, <1>3, <1>5
  <1>9. Alone(m)'
    <2> SUFFICES ASSUME NEW q \in Runs, Works(run'[q]), m \in run'[q].list
                 PROVE  /\ \A o \in Runs \ {q} : ~Works(run'[o])
                        /\ \A i \in DOMAIN acts : acts[i].msg # m
                        /\ \A i, k \in DOMAIN run'[q].made : run'[q].made[i].msg = m /\ run'[q].made[k].msg = m => i = k
                        /\ (delivered[m] > 0 \/ \E i \in DOMAIN run'[q].made : run'[q].made[i].msg = m) =>
                             m <= run'[q].last /\ (m = run'[q].last => run'[q].pc # "draft")
      BY <1>0 DEF Alone, Works
    <2>1. Works(run[q]) /\ m \in run[q].list /\ run'[q].made = run[q].made
      BY <1>6
    <2> QED
      BY <1>6, <1>7, <1>8, <2>1 DEF Fine, Alone
  <1>10. Behind(m)'
    <2> SUFFICES ASSUME Spent(m), \A q \in Runs : Works(run'[q]) => m \notin run'[q].list
                 PROVE  m <= rule.cursor /\ \A q \in Runs : Works(run'[q]) => m <= run'[q].last
      BY <1>0 DEF Behind, Spent, Works
    <2> QED
      BY <1>6, <1>7 DEF Fine, Behind
  <1> QED
    BY <1>0, <1>9, <1>10 DEF Fine, Single

LEMMA OnceAnswers ==
  ASSUME TypeOK, NEW m \in Ids, Fine(m), NEW r \in Runs, RunInv(run[r]), NEW row, Answers(r, row)
  PROVE  Fine(m)'
  <1>0. UNCHANGED <<rule, acts>> /\ m \in Int /\ delivered[m] \in Nat
    BY SomeIds DEF Answers, TypeOK
  <1> DEFINE R == run[r]
             s == run'[r]
  <1>1. /\ Works(R) /\ Works(s) /\ \A o \in Runs \ {r} : run'[o] = run[o]
        /\ s.list = R.list /\ s.last = R.last /\ R.pc = "draft" /\ s.pc = "work"
    BY DEF Answers, Others, Answered, Works
  <1>2. R \in Run /\ s \in Run /\ R.last \in R.list
    BY <1>1 DEF TypeOK, Answers, Answered, RunInv
  <1>3. R.last \in Int /\ \A x \in R.list : x \in Int
    BY <1>2, RunNumbers
  <1>4. /\ R.made \in Seq(AnswerRow) /\ row \in AnswerRow /\ s.made = Append(R.made, row)
        /\ row.msg = R.last
    BY <1>2, RunNumbers DEF Answers, Answered
  <1>5. \A i \in DOMAIN s.made : (i = Len(R.made) + 1 /\ s.made[i] = row)
                                 \/ (i \in DOMAIN R.made /\ s.made[i] = R.made[i])
    BY <1>4, AppendProperties, LenProperties
  <1>6. \A q \in Runs : /\ Works(run'[q]) <=> Works(run[q])
                        /\ run'[q].list = run[q].list /\ run'[q].last = run[q].last
    BY <1>1
  <1>7. CASE m # R.last
    <2>1. delivered'[m] = delivered[m]
      BY <1>7 DEF Answers
    <2>2. \A i \in DOMAIN s.made : s.made[i].msg = m => i \in DOMAIN R.made /\ s.made[i] = R.made[i]
      BY <1>4, <1>5, <1>7
    <2>3. \A q \in Runs : \A i \in DOMAIN run'[q].made :
            run'[q].made[i].msg = m => i \in DOMAIN run[q].made /\ run'[q].made[i] = run[q].made[i]
      BY <1>1, <2>2
    <2>4. \A q \in Runs : (m = run[q].last => run[q].pc # "draft") => (m = run'[q].last => run'[q].pc # "draft")
      BY <1>1
    <2>5. Alone(m)'
      <3> SUFFICES ASSUME NEW q \in Runs, Works(run'[q]), m \in run'[q].list
                   PROVE  /\ \A o \in Runs \ {q} : ~Works(run'[o])
                          /\ \A i \in DOMAIN acts : acts[i].msg # m
                          /\ \A i, k \in DOMAIN run'[q].made : run'[q].made[i].msg = m /\ run'[q].made[k].msg = m => i = k
                          /\ (delivered[m] > 0 \/ \E i \in DOMAIN run'[q].made : run'[q].made[i].msg = m) =>
                               m <= run'[q].last /\ (m = run'[q].last => run'[q].pc # "draft")
        BY <1>0, <2>1 DEF Alone, Works
      <3>1. Works(run[q]) /\ m \in run[q].list /\ run'[q].last = run[q].last
        BY <1>6
      <3>2. \A i, k \in DOMAIN run'[q].made : run'[q].made[i].msg = m /\ run'[q].made[k].msg = m => i = k
        BY <2>3, <3>1 DEF Fine, Alone
      <3>3. (\E i \in DOMAIN run'[q].made : run'[q].made[i].msg = m) => \E i \in DOMAIN run[q].made : run[q].made[i].msg = m
        BY <2>3
      <3> QED
        BY <1>6, <2>4, <3>1, <3>2, <3>3 DEF Fine, Alone
    <2>6. Behind(m)'
      <3> SUFFICES ASSUME Spent(m), \A q \in Runs : Works(run'[q]) => m \notin run'[q].list
                   PROVE  m <= rule.cursor /\ \A q \in Runs : Works(run'[q]) => m <= run'[q].last
        BY <1>0, <2>1 DEF Behind, Spent, Works
      <3> QED
        BY <1>6 DEF Fine, Behind
    <2> QED
      BY <1>0, <2>1, <2>5, <2>6 DEF Fine, Single
  <1>8. CASE m = R.last
    <2>1. /\ \A o \in Runs \ {r} : ~Works(run[o])
          /\ \A i \in DOMAIN acts : acts[i].msg # m
          /\ ~(delivered[m] > 0) /\ \A i \in DOMAIN R.made : R.made[i].msg # m
      BY <1>1, <1>2, <1>8 DEF Fine, Alone
    <2>2. delivered'[m] <= 1
      BY <1>0, <1>8, <2>1 DEF Answers
    <2>3. \A i \in DOMAIN s.made : s.made[i].msg = m => i = Len(R.made) + 1
      BY <1>5, <2>1
    <2>4. \A q \in Runs : Works(run'[q]) => q = r
      BY <1>6, <2>1
    <2>5. Alone(m)'
      <3> SUFFICES ASSUME NEW q \in Runs, Works(run'[q])
                   PROVE  /\ \A o \in Runs \ {q} : ~Works(run'[o])
                          /\ \A i \in DOMAIN acts : acts[i].msg # m
                          /\ \A i, k \in DOMAIN run'[q].made : run'[q].made[i].msg = m /\ run'[q].made[k].msg = m => i = k
                          /\ m <= run'[q].last /\ run'[q].pc # "draft"
        BY <1>0 DEF Alone, Works
      <3>1. q = r
        BY <2>4
      <3> QED
        BY <1>0, <1>1, <1>3, <1>8, <2>1, <2>3, <2>4, <3>1
    <2>6. Behind(m)'
      BY <1>1, <1>2, <1>8 DEF Behind, Works
    <2> QED
      BY <1>0, <2>1, <2>2, <2>5, <2>6 DEF Fine, Single
  <1> QED
    BY <1>7, <1>8

LEMMA OnceCommits ==
  ASSUME TypeOK, NEW m \in Ids \ risky', Fine(m), NEW r \in Runs, RunInv(run[r]),
         NEW rows, Commits(r, rows)
  PROVE  Fine(m)'
  <1>0. delivered' = delivered /\ m \in Int
    BY SomeIds DEF Commits
  <1>1. /\ Works(run[r]) /\ ~Works(run'[r]) /\ \A o \in Runs \ {r} : run'[o] = run[o]
    BY IdleIsRun DEF Commits, Works
  <1>2. \A q \in Runs : Works(run'[q]) => q # r /\ Works(run[q]) /\ run'[q] = run[q]
    BY <1>1
  <1>3. CASE m \in run[r].list
    <2>1. /\ \A o \in Runs \ {r} : ~Works(run[o])
          /\ \A i \in DOMAIN acts : acts[i].msg # m
          /\ \A i, k \in DOMAIN run[r].made : run[r].made[i].msg = m /\ run[r].made[k].msg = m => i = k
          /\ (delivered[m] > 0 \/ \E i \in DOMAIN run[r].made : run[r].made[i].msg = m) => m <= run[r].last
      BY <1>1, <1>3 DEF Fine, Alone
    <2>2. /\ rows = run[r].made /\ rule'.cursor = run[r].last
      BY <1>3 DEF Commits, TypeOK
    <2>3. \A q \in Runs : ~Works(run'[q])
      BY <1>2, <2>1
    <2>4. \A i \in DOMAIN acts' : acts'[i].msg = m =>
            i \notin DOMAIN acts /\ i - Len(acts) \in DOMAIN rows /\ rows[i - Len(acts)].msg = m
      BY <2>1, CommittedRows
    <2>5. \A i, k \in DOMAIN acts' : acts'[i].msg = m /\ acts'[k].msg = m => i = k
      <3> SUFFICES ASSUME NEW i \in DOMAIN acts', NEW k \in DOMAIN acts', acts'[i].msg = m, acts'[k].msg = m
                   PROVE  i = k
        OBVIOUS
      <3>1. i - Len(acts) = k - Len(acts)
        BY <2>1, <2>2, <2>4
      <3>2. i \in Int /\ k \in Int /\ Len(acts) \in Int
        BY CommittedRows
      <3> QED
        BY <3>1, <3>2
    <2>6. Spent(m)' => m <= rule'.cursor
      <3>1. Spent(m)' => delivered[m] > 0 \/ \E i \in DOMAIN rows : rows[i].msg = m
        BY <1>0, <2>4 DEF Spent
      <3> QED
        BY <2>1, <2>2, <3>1
    <2> QED
      BY <1>0, <2>3, <2>5, <2>6 DEF Fine, Alone, Behind, Single, Works
  <1>4. CASE m \notin run[r].list
    <2>1. \A i \in DOMAIN acts' : acts'[i].msg = m => i \in DOMAIN acts /\ acts[i].msg = m
      BY <1>4, CommittedRows
    <2>2. Spent(m)' => Spent(m)
      BY <1>0, <2>1 DEF Spent
    <2>3. ASSUME NEW q \in Runs, Works(run'[q])
          PROVE  m \notin run'[q].list
      BY <1>1, <1>2, <2>3 DEF Fine, Alone
    <2>4. ASSUME NEW q \in Runs, Works(run[q])
          PROVE  m \notin run[q].list
      BY <1>1, <1>4, <2>3, <2>4
    <2>5. rule'.cursor \in {rule.cursor, run[r].last}
      BY DEF Commits, TypeOK
    <2>6. Behind(m)'
      <3> SUFFICES ASSUME Spent(m)
                   PROVE  m <= rule'.cursor /\ \A q \in Runs : Works(run'[q]) => m <= run'[q].last
        BY <2>2 DEF Behind, Works
      <3>1. m <= rule.cursor /\ \A q \in Runs : Works(run[q]) => m <= run[q].last
        BY <2>4 DEF Fine, Behind
      <3> QED
        BY <1>1, <1>2, <2>5, <3>1
    <2>7. Alone(m)'
      BY <2>3 DEF Alone, Works
    <2>8. Single(m)'
      BY <1>0, <2>1 DEF Fine, Single
    <2> QED
      BY <2>6, <2>7, <2>8 DEF Fine
  <1> QED
    BY <1>3, <1>4

LEMMA OnceStep ==
  ASSUME TypeOK, \A r \in Runs : RunInv(run[r]), Ruled, Once, [Next]_vars
  PROVE  Once'
  <1>1. risky \subseteq risky'
    BY Effects DEF Rests, Begun, GoesOn, Answers, Commits, Elsewhere, UpsertRule, Reject, Tick
  <1> SUFFICES ASSUME NEW m \in Ids \ risky'
               PROVE  Fine(m)'
    BY DEF Once, Fine
  <1>2. Fine(m)
    BY <1>1 DEF Once, Fine
  <1>3. ASSUME NEW r \in Runs, Rests(r) \/ Begun(r) \/ GoesOn(r)
        PROVE  Fine(m)'
    BY <1>2, <1>3, OnceRests, OnceBegun, OnceGoesOn
  <1>4. ASSUME NEW r \in Runs, NEW row, Answers(r, row)
        PROVE  Fine(m)'
    BY <1>2, <1>4, OnceAnswers
  <1>5. ASSUME NEW r \in Runs, NEW rows, Commits(r, rows)
        PROVE  Fine(m)'
    BY <1>2, <1>5, OnceCommits
  <1>6. CASE Elsewhere
    BY <1>2, <1>6, OnceStays DEF Elsewhere
  <1>7. ASSUME NEW e \in BOOLEAN, UpsertRule(e)
        PROVE  Fine(m)'
    <2>1. UNCHANGED <<acts, run, delivered>>
      BY <1>7 DEF UpsertRule
    <2>2. CASE rule.exists
      <3>1. rule'.cursor = rule.cursor
        BY <1>7, <2>2 DEF UpsertRule
      <3> QED
        BY <1>2, <2>1, <3>1, OnceStays
    <2>3. CASE ~rule.exists
      <3>1. /\ DOMAIN acts = {} /\ delivered[m] = 0 /\ \A q \in Runs : ~Works(run[q])
        BY <2>3 DEF Ruled, Works
      <3> QED
        BY <2>1, <3>1 DEF Fine, Alone, Behind, Single, Spent, Works
    <2> QED
      BY <2>2, <2>3
  <1>8. ASSUME NEW i \in DOMAIN acts, Reject(i)
        PROVE  Fine(m)'
    <2>1. /\ UNCHANGED <<rule, run, delivered>>
          /\ acts' = [acts EXCEPT ![i].status = "rejected"]
      BY <1>8 DEF Reject
    <2>2. \A k \in DOMAIN acts : acts[k] \in AnswerRow
      BY ElementOfSeq, LenProperties DEF TypeOK
    <2>3. DOMAIN acts' = DOMAIN acts /\ \A k \in DOMAIN acts : acts'[k].msg = acts[k].msg
      BY <2>1, <2>2 DEF AnswerRow
    <2> QED
      BY <1>2, <2>1, <2>3, OnceStays
  <1>9. CASE Tick
    BY <1>2, <1>9, OnceAges
  <1> QED
    BY <1>3, <1>4, <1>5, <1>6, <1>7, <1>8, <1>9, Effects

-----------------------------------------------------------------------------
(* What the runs may still add to the hour, counted one by one.            *)
Own(f, r) == {t \in Tokens(f) : t[1] = r}
Foreign(f, r) == {t \in Tokens(f) : t[1] # r}

LEMMA TokensAreFinite ==
  ASSUME NEW f
  PROVE  IsFiniteSet(Tokens(f)) /\ Cardinality(Tokens(f)) \in Nat
  <1>1. IsFiniteSet(Runs) /\ IsFiniteSet(1..MaxPerHour)
    BY AutoReplyAssumption, FS_Interval
  <1>2. IsFiniteSet(Runs \X (1..MaxPerHour))
    BY <1>1, FS_Product
  <1>3. IsFiniteSet(Tokens(f))
    BY <1>2, FS_Subset DEF Tokens
  <1> QED
    BY <1>3, FS_CardinalityType

LEMMA TokensOfOne ==
  ASSUME NEW f \in [Runs -> 0..MaxPerHour], NEW r \in Runs
  PROVE  /\ IsFiniteSet(Foreign(f, r)) /\ Cardinality(Foreign(f, r)) \in Nat
         /\ Cardinality(Tokens(f)) = Cardinality(Foreign(f, r)) + f[r]
         /\ Cardinality(Foreign(f, r)) + MaxPerHour <= MaxPerHour * Cardinality(Runs)
  <1>0. /\ MaxPerHour \in Nat /\ f[r] \in 0..MaxPerHour /\ f[r] \in Nat
        /\ IsFiniteSet(Runs) /\ Cardinality(Runs) \in Nat
    BY AutoReplyAssumption, FS_CardinalityType
  <1>1. IsFiniteSet(Own(f, r)) /\ Cardinality(Own(f, r)) = f[r]
    <2>1. Own(f, r) = {r} \X (1..f[r])
      <3>1. \A k \in Int : k \in 1..f[r] => k \in 1..MaxPerHour
        BY <1>0
      <3> QED
        BY <1>0, <3>1 DEF Own, Tokens
    <2>2. IsFiniteSet(1..f[r]) /\ Cardinality(1..f[r]) = f[r]
      BY <1>0, FS_Interval
    <2>3. IsFiniteSet({r}) /\ Cardinality({r}) = 1
      BY FS_Singleton
    <2>4. /\ IsFiniteSet({r} \X (1..f[r]))
          /\ Cardinality({r} \X (1..f[r])) = Cardinality({r}) * Cardinality(1..f[r])
      BY <2>2, <2>3, FS_Product, Zenon
    <2>5. 1 * f[r] = f[r]
      BY <1>0
    <2> QED
      BY <2>1, <2>2, <2>3, <2>4, <2>5
  <1>2. IsFiniteSet(Foreign(f, r)) /\ Cardinality(Foreign(f, r)) \in Nat
    <2>1. Foreign(f, r) \subseteq Tokens(f)
      BY DEF Foreign
    <2> QED
      BY <2>1, TokensAreFinite, FS_Subset, FS_CardinalityType
  <1>3. Cardinality(Tokens(f)) = Cardinality(Foreign(f, r)) + f[r]
    <2>1. Tokens(f) = Foreign(f, r) \cup Own(f, r) /\ Foreign(f, r) \cap Own(f, r) = {}
      BY DEF Foreign, Own
    <2>2. Cardinality(Foreign(f, r) \cup Own(f, r)) =
            Cardinality(Foreign(f, r)) + Cardinality(Own(f, r)) - Cardinality(Foreign(f, r) \cap Own(f, r))
      BY <1>1, <1>2, FS_Union
    <2> QED
      BY <1>0, <1>1, <1>2, <2>1, <2>2, FS_EmptySet
  <1>4. Cardinality(Foreign(f, r)) + MaxPerHour <= MaxPerHour * Cardinality(Runs)
    <2> DEFINE N == Cardinality(Runs)
    <2>1. IsFiniteSet(Runs \ {r}) /\ Cardinality(Runs \ {r}) = N - 1
      BY <1>0, FS_RemoveElement
    <2>2. IsFiniteSet(1..MaxPerHour) /\ Cardinality(1..MaxPerHour) = MaxPerHour
      BY <1>0, FS_Interval
    <2>3. /\ IsFiniteSet((Runs \ {r}) \X (1..MaxPerHour))
          /\ Cardinality((Runs \ {r}) \X (1..MaxPerHour)) = (N - 1) * MaxPerHour
      <3>1. /\ IsFiniteSet((Runs \ {r}) \X (1..MaxPerHour))
            /\ Cardinality((Runs \ {r}) \X (1..MaxPerHour))
                 = Cardinality(Runs \ {r}) * Cardinality(1..MaxPerHour)
        BY <2>1, <2>2, FS_Product, Zenon
      <3> QED
        BY <2>1, <2>2, <3>1, Zenon
    <2>4. Foreign(f, r) \subseteq (Runs \ {r}) \X (1..MaxPerHour)
      BY DEF Foreign, Tokens
    <2>5. Cardinality(Foreign(f, r)) <= (N - 1) * MaxPerHour
      BY <2>3, <2>4, FS_Subset
    <2>6. (N - 1) * MaxPerHour + MaxPerHour = MaxPerHour * N
      BY <1>0
    <2>7. (N - 1) * MaxPerHour \in Int /\ MaxPerHour * N \in Int
      BY <1>0
    <2> HIDE DEF N
    <2> QED
      BY <1>0, <1>2, <2>5, <2>6, <2>7 DEF N
  <1> QED
    BY <1>2, <1>3, <1>4

LEMMA CountsAreFinite ==
  ASSUME NEW s \in Seq(AnswerRow)
  PROVE  IsFiniteSet(Counts(s)) /\ Cardinality(Counts(s)) \in Nat
  <1>1. Len(s) \in Nat /\ DOMAIN s = 1..Len(s)
    BY LenProperties
  <1>2. IsFiniteSet(1..Len(s)) /\ Counts(s) \subseteq 1..Len(s)
    BY <1>1, FS_Interval DEF Counts
  <1> QED
    BY <1>2, FS_Subset, FS_CardinalityType

LEMMA CountsOfAppend ==
  ASSUME NEW s \in Seq(AnswerRow), NEW row \in AnswerRow
  PROVE  /\ Cardinality(Counts(Append(s, row))) <= Cardinality(Counts(s)) + 1
         /\ row.status = "failed" => Cardinality(Counts(Append(s, row))) = Cardinality(Counts(s))
  <1> DEFINE t == Append(s, row)
             n == Len(s) + 1
  <1>1. /\ t \in Seq(AnswerRow) /\ Len(s) \in Nat /\ DOMAIN s = 1..Len(s) /\ DOMAIN t = 1..n
        /\ t[n] = row /\ \A i \in 1..Len(s) : t[i] = s[i]
    BY AppendProperties, LenProperties
  <1> HIDE DEF t
  <1>2. \A i \in 1..n : i = n \/ i \in 1..Len(s)
    BY <1>1
  <1>3. \A i \in 1..Len(s) : i \in 1..n
    BY <1>1
  <1>4. Counts(t) \subseteq Counts(s) \cup {n}
    BY <1>1, <1>2 DEF Counts
  <1>5. row.status = "failed" => Counts(t) = Counts(s)
    BY <1>1, <1>2, <1>3 DEF Counts
  <1>6. /\ IsFiniteSet(Counts(s) \cup {n})
        /\ Cardinality(Counts(s) \cup {n}) <= Cardinality(Counts(s)) + 1
    BY CountsAreFinite, FS_AddElement
  <1>7. Cardinality(Counts(t)) <= Cardinality(Counts(s) \cup {n})
    BY <1>4, <1>6, FS_Subset
  <1>8. /\ Cardinality(Counts(t)) \in Int /\ Cardinality(Counts(s)) \in Int
        /\ Cardinality(Counts(s) \cup {n}) \in Int
    BY <1>1, <1>6, CountsAreFinite, FS_CardinalityType
  <1> HIDE DEF n
  <1> QED
    BY <1>5, <1>6, <1>7, <1>8 DEF t

LEMMA LeftIsNat ==
  ASSUME NEW r \in Run
  PROVE  /\ Left(r) \in Nat /\ Cardinality(Counts(r.made)) \in Nat
         /\ r.made = <<>> => Cardinality(Counts(r.made)) = 0
  <1>1. r.made \in Seq(AnswerRow) /\ r.budget \in Int
    BY DEF Run
  <1>2. Cardinality(Counts(r.made)) \in Nat
    BY <1>1, CountsAreFinite
  <1>3. r.made = <<>> => Counts(r.made) = {}
    BY DEF Counts
  <1>4. Left(r) \in Nat
    BY <1>1, <1>2 DEF Left
  <1>5. r.made = <<>> => Cardinality(Counts(r.made)) = 0
    BY <1>3, FS_EmptySet
  <1> QED
    BY <1>2, <1>4, <1>5

LEMMA LeftsNext == Lefts' = [q \in Runs |-> Left(run'[q])]
  BY DEF Lefts, Left, Counts

(* Nothing is added to the hour, and no run may add more than before.        *)
LEMMA SharedShrinks ==
  ASSUME TypeOK, TypeOK', Shared, Hour' \subseteq Hour,
         \A q \in Runs : Left(run'[q]) <= Left(run[q])
  PROVE  Shared'
  <1> DEFINE f == Lefts
             g == [q \in Runs |-> Left(run'[q])]
             B == MaxPerHour * Cardinality(Runs)
  <1>0. MaxPerHour \in Nat
    BY AutoReplyAssumption
  <1>1. f \in [Runs -> 0..MaxPerHour] /\ \A q \in Runs : f[q] = Left(run[q])
    BY DEF Shared, Lefts
  <1>2. \A q \in Runs : Left(run'[q]) \in Nat
    BY LeftIsNat DEF TypeOK
  <1>3. \A q \in Runs : g[q] \in 0..MaxPerHour /\ g[q] <= f[q]
    BY <1>0, <1>1, <1>2
  <1>4. g \in [Runs -> 0..MaxPerHour]
    BY <1>3
  <1>5. Tokens(g) \subseteq Tokens(f)
    <2> SUFFICES ASSUME NEW t \in Runs \X (1..MaxPerHour), t[2] <= g[t[1]]
                 PROVE  t[2] <= f[t[1]]
      BY DEF Tokens
    <2>1. t[1] \in Runs /\ t[2] \in 1..MaxPerHour
      OBVIOUS
    <2> HIDE DEF f, g
    <2>2. f[t[1]] \in 0..MaxPerHour /\ g[t[1]] \in 0..MaxPerHour /\ g[t[1]] <= f[t[1]]
      BY <1>1, <1>3, <2>1
    <2> QED
      BY <1>0, <2>1, <2>2
  <1>6. Cardinality(Tokens(g)) <= Cardinality(Tokens(f))
        /\ Cardinality(Tokens(g)) \in Nat /\ Cardinality(Tokens(f)) \in Nat
    BY <1>5, TokensAreFinite, FS_Subset
  <1>7. Cardinality(Hour') <= Cardinality(Hour) /\ Cardinality(Hour') \in Nat /\ Cardinality(Hour) \in Nat
    BY SentIsNat, FS_Subset, FS_CardinalityType
  <1>8. Cardinality(Runs) \in Nat /\ B \in Int
    BY <1>0, AutoReplyAssumption, FS_CardinalityType
  <1>9. Cardinality(Hour) + Cardinality(Tokens(f)) <= B
    BY DEF Shared
  <1> HIDE DEF B, f, g
  <1>10. Cardinality(Hour') + Cardinality(Tokens(g)) <= B
    BY <1>6, <1>7, <1>8, <1>9
  <1> QED
    BY <1>4, <1>10, LeftsNext DEF Shared, Tokens, B, g

(* A run that opens may add what the hour has left.                          *)
LEMMA SharedBegun ==
  ASSUME TypeOK, TypeOK', Shared, NEW r \in Runs, Begun(r)
  PROVE  Shared'
  <1> DEFINE f == Lefts
             g == [q \in Runs |-> Left(run'[q])]
             B == MaxPerHour * Cardinality(Runs)
             n == Cardinality(Hour)
  <1>0. MaxPerHour \in Nat /\ n \in Nat /\ SentLastHour = n
    BY AutoReplyAssumption, SentIsNat
  <1>1. f \in [Runs -> 0..MaxPerHour] /\ \A q \in Runs : f[q] = Left(run[q])
    BY DEF Shared, Lefts
  <1>2. Hour' = Hour
    BY DEF Begun, Hour
  <1>3. \A q \in Runs \ {r} : g[q] = f[q]
    BY <1>1 DEF Begun
  <1>4. g[r] = IF MaxPerHour - n > 0 THEN MaxPerHour - n ELSE 0
    <2>1. run'[r] \in Run /\ run'[r].made = <<>> /\ run'[r].budget = MaxPerHour - n
      BY <1>0 DEF Begun
    <2>2. Cardinality(Counts(run'[r].made)) = 0
      BY <2>1, LeftIsNat
    <2>3. g[r] = 0 + (IF run'[r].budget > 0 THEN run'[r].budget ELSE 0)
      BY <2>2 DEF Left
    <2> QED
      BY <1>0, <2>1, <2>3
  <1>5. CASE MaxPerHour - n > 0
    <2>1. g[r] = MaxPerHour - n /\ g[r] \in 0..MaxPerHour
      BY <1>0, <1>4, <1>5
    <2>2. \A q \in Runs : g[q] \in 0..MaxPerHour
      BY <1>1, <1>3, <2>1
    <2>3. g \in [Runs -> 0..MaxPerHour]
      BY <2>2
    <2>4. /\ Cardinality(Tokens(g)) = Cardinality(Foreign(g, r)) + g[r]
          /\ Cardinality(Foreign(g, r)) + MaxPerHour <= B
          /\ Cardinality(Foreign(g, r)) \in Nat
      BY <2>3, TokensOfOne
    <2>5. B \in Int
      BY <1>0, AutoReplyAssumption, FS_CardinalityType
    <2> HIDE DEF B, f, g, n
    <2>6. n + Cardinality(Tokens(g)) <= B
      BY <1>0, <2>1, <2>4, <2>5
    <2> QED
      BY <1>2, <2>3, <2>6, LeftsNext DEF Shared, Tokens, B, g, n
  <1>6. CASE ~(MaxPerHour - n > 0)
    <2>1. \A q \in Runs : g[q] <= f[q]
      <3>1. \A q \in Runs : f[q] \in Nat
        BY <1>0, <1>1
      <3> QED
        BY <1>3, <1>4, <1>6, <3>1
    <2>2. \A q \in Runs : Left(run'[q]) <= Left(run[q])
      BY <1>1, <2>1
    <2> QED
      BY <1>2, <2>2, SharedShrinks
  <1> QED
    BY <1>5, <1>6

(* An answer takes one from the budget, if it counts.                        *)
LEMMA AnsweredLeft ==
  ASSUME NEW r \in Run, NEW s, NEW row, RunInv(r), Answered(r, s, row)
  PROVE  Left(s) <= Left(r)
  <1>1. /\ r.made \in Seq(AnswerRow) /\ row \in AnswerRow /\ s.made = Append(r.made, row)
        /\ r.budget \in Int /\ r.budget > 0
        /\ s.budget = IF row.status = "failed" THEN r.budget ELSE r.budget - 1
    BY DEF Answered, Run, RunInv
  <1>2. s \in Run
    BY DEF Answered
  <1>3. /\ Cardinality(Counts(s.made)) <= Cardinality(Counts(r.made)) + 1
        /\ row.status = "failed" => Cardinality(Counts(s.made)) = Cardinality(Counts(r.made))
        /\ Cardinality(Counts(s.made)) \in Nat /\ Cardinality(Counts(r.made)) \in Nat
    BY <1>1, <1>2, CountsOfAppend, LeftIsNat
  <1>4. CASE row.status = "failed"
    BY <1>1, <1>3, <1>4 DEF Left
  <1>5. CASE row.status # "failed"
    <2>1. s.budget = r.budget - 1
      BY <1>1, <1>5
    <2> DEFINE x == Cardinality(Counts(s.made))
               y == Cardinality(Counts(r.made))
    <2>2. Left(s) = x + (IF s.budget > 0 THEN s.budget ELSE 0) /\ Left(r) = y + r.budget
      BY <1>1 DEF Left
    <2>3. x <= y + 1 /\ x \in Nat /\ y \in Nat
      BY <1>3
    <2> HIDE DEF x, y
    <2> QED
      BY <1>1, <2>1, <2>2, <2>3
  <1> QED
    BY <1>4, <1>5

(* What a run commits it could still add.                                    *)
LEMMA SharedCommits ==
  ASSUME TypeOK, TypeOK', Shared, NEW r \in Runs, RunInv(run[r]), NEW rows, Commits(r, rows)
  PROVE  Shared'
  <1> DEFINE f == Lefts
             g == [q \in Runs |-> Left(run'[q])]
             B == MaxPerHour * Cardinality(Runs)
             n == Cardinality(Hour)
             C == Counts(rows)
             D == Hour' \ Hour
  <1>0. MaxPerHour \in Nat /\ n \in Nat /\ IsFiniteSet(Hour)
    BY AutoReplyAssumption, SentIsNat, FS_CardinalityType
  <1>1. f \in [Runs -> 0..MaxPerHour] /\ f[r] = Left(run[r]) /\ \A q \in Runs : f[q] = Left(run[q])
    BY DEF Shared, Lefts
  <1>2. rows \in Seq(AnswerRow) /\ run[r] \in Run
    BY DEF Commits, TypeOK
  <1>3. IsFiniteSet(C) /\ Cardinality(C) \in Nat
    BY <1>2, CountsAreFinite
  <1>4. Cardinality(C) <= f[r]
    <2>0. Left(run[r]) \in Nat /\ Cardinality(Counts(run[r].made)) \in Nat /\ run[r].budget \in Int
      BY <1>2, LeftIsNat DEF Run
    <2>1. CASE rows = run[r].made
      BY <1>1, <2>0, <2>1 DEF Left
    <2>2. CASE rows = <<>>
      <3>1. C = {}
        BY <2>2 DEF Counts
      <3> QED
        BY <1>1, <2>0, <3>1, FS_EmptySet
    <2>3. ASSUME run[r].pc = "draft", NEW row \in AnswerRow, rows = Append(run[r].made, row)
          PROVE  Cardinality(C) <= f[r]
      <3>1. run[r].budget > 0 /\ run[r].made \in Seq(AnswerRow)
        BY <1>2, <2>3 DEF RunInv, Run
      <3>2. Cardinality(C) <= Cardinality(Counts(run[r].made)) + 1
        BY <2>3, <3>1, CountsOfAppend
      <3>3. Left(run[r]) = Cardinality(Counts(run[r].made)) + run[r].budget
        BY <3>1 DEF Left
      <3> HIDE DEF C, f
      <3> QED
        BY <1>1, <1>3, <2>0, <3>1, <3>2, <3>3
    <2> QED
      BY <2>1, <2>2, <2>3 DEF Commits
  <1>5. /\ IsFiniteSet(Hour' \ Hour) /\ Cardinality(Hour' \ Hour) <= Cardinality(C)
        /\ Cardinality(Hour' \ Hour) \in Nat
    <2>1. \A i \in D : i \in DOMAIN acts' /\ acts'[i].status \notin {"failed", "rejected"}
                       /\ acts'[i].age <= 1 /\ i \notin Hour
      BY DEF Hour
    <2>2. \A i \in D : i \notin DOMAIN acts
      BY <2>1, CommittedRows DEF Hour
    <2>3. \A i \in D : i - Len(acts) \in C /\ i \in Int
      <3>1. \A i \in DOMAIN acts' : i \in Int
        BY CommittedRows
      <3> QED
        BY <2>1, <2>2, <3>1, CommittedRows DEF Counts
    <2> DEFINE h == [i \in D |-> i - Len(acts)]
    <2>4. Len(acts) \in Int
      BY CommittedRows
    <2> HIDE DEF D, C
    <2>5. h \in Injection(D, C)
      <3>1. h \in [D -> C]
        BY <2>3
      <3>2. \A i, k \in D : h[i] = h[k] => i = k
        BY <2>3, <2>4
      <3> QED
        BY <3>1, <3>2, Zenon DEF Injection, IsInjective
    <2>6. IsFiniteSet(D) /\ Cardinality(D) <= Cardinality(C)
      <3> HIDE DEF h
      <3> QED
        BY <1>3, <2>5, FS_Injection
    <2> QED
      BY <2>6, FS_CardinalityType DEF D
  <1>6. /\ IsFiniteSet(Hour') /\ Cardinality(Hour') \in Nat
        /\ Cardinality(Hour') <= n + Cardinality(Hour' \ Hour)
    <2>1. /\ IsFiniteSet(Hour \cup (Hour' \ Hour))
          /\ Cardinality(Hour \cup (Hour' \ Hour)) =
               n + Cardinality(Hour' \ Hour) - Cardinality(Hour \cap (Hour' \ Hour))
      BY <1>0, <1>5, FS_Union
    <2>2. Hour \cap (Hour' \ Hour) = {} /\ Hour' \subseteq Hour \cup (Hour' \ Hour)
      OBVIOUS
    <2>3. Cardinality(Hour \cap (Hour' \ Hour)) = 0
      BY <2>2, FS_EmptySet
    <2>4. Cardinality(Hour') <= Cardinality(Hour \cup (Hour' \ Hour)) /\ IsFiniteSet(Hour')
      BY <2>1, <2>2, FS_Subset
    <2>5. Cardinality(Hour') \in Nat
      BY <2>4, FS_CardinalityType
    <2> HIDE DEF n
    <2> QED
      BY <1>0, <1>5, <2>1, <2>3, <2>4, <2>5
  <1>7. g[r] = 0 /\ \A q \in Runs \ {r} : g[q] = f[q]
    <2>1. Left(run'[r]) = 0
      BY IdleIsRun, LeftIsNat DEF Commits, Left
    <2> QED
      BY <1>1, <2>1 DEF Commits
  <1>8. g \in [Runs -> 0..MaxPerHour]
    <2>1. \A q \in Runs : g[q] \in 0..MaxPerHour
      BY <1>0, <1>1, <1>7
    <2> QED
      BY <2>1
  <1>9. Foreign(g, r) = Foreign(f, r)
    <2>1. \A t \in Runs \X (1..MaxPerHour) : t[1] # r => g[t[1]] = f[t[1]]
      BY <1>7
    <2> HIDE DEF f, g
    <2> QED
      BY <2>1 DEF Foreign, Tokens
  <1>10. /\ Cardinality(Tokens(f)) = Cardinality(Foreign(f, r)) + f[r]
         /\ Cardinality(Tokens(g)) = Cardinality(Foreign(f, r)) + g[r]
         /\ Cardinality(Foreign(f, r)) \in Nat
    <2> HIDE DEF f, g
    <2> QED
      BY <1>1, <1>8, <1>9, TokensOfOne
  <1>11. n + Cardinality(Tokens(f)) <= B
    BY DEF Shared
  <1>12. B \in Int /\ f[r] \in Nat
    BY <1>0, <1>1, AutoReplyAssumption, FS_CardinalityType
  <1> HIDE DEF f, g, B, n, C
  <1>13. Cardinality(Hour') + Cardinality(Tokens(g)) <= B
    BY <1>0, <1>3, <1>4, <1>5, <1>6, <1>7, <1>10, <1>11, <1>12
  <1> QED
    BY <1>8, <1>13, LeftsNext DEF Shared, Tokens, B, g

LEMMA SharedStep ==
  ASSUME TypeOK, TypeOK', \A r \in Runs : RunInv(run[r]), Shared, [Next]_vars
  PROVE  Shared'
  <1>0. \A q \in Runs : Left(run[q]) \in Nat
    BY LeftIsNat DEF TypeOK
  <1>1. \A q \in Runs : Left(run[q]) <= Left(run[q])
    BY <1>0
  <1>2. ASSUME NEW r \in Runs, Left(run'[r]) <= Left(run[r]), Others(r), UNCHANGED acts
        PROVE  Shared'
    <2>1. Hour' = Hour
      BY <1>2 DEF Hour
    <2>2. \A q \in Runs : Left(run'[q]) <= Left(run[q])
      BY <1>1, <1>2 DEF Others
    <2> QED
      BY <2>1, <2>2, SharedShrinks
  <1>3. ASSUME NEW r \in Runs, Rests(r)
        PROVE  Shared'
    <2>1. run[r].made = <<>> /\ run[r].budget = 0 /\ run'[r].made = <<>> /\ run'[r].budget = 0
      BY <1>3 DEF Rests, RunInv, Works
    <2>2. Left(run'[r]) = Left(run[r])
      BY <2>1 DEF Left
    <2>3. Others(r) /\ UNCHANGED acts
      BY <1>3 DEF Rests, Others
    <2> QED
      BY <1>1, <1>2, <2>2, <2>3
  <1>4. ASSUME NEW r \in Runs, GoesOn(r)
        PROVE  Shared'
    <2>1. Left(run'[r]) = Left(run[r])
      BY <1>4 DEF GoesOn, Judged, Left
    <2>2. Others(r) /\ UNCHANGED acts
      BY <1>4 DEF GoesOn
    <2> QED
      BY <1>1, <1>2, <2>1, <2>2
  <1>5. ASSUME NEW r \in Runs, NEW row, Answers(r, row)
        PROVE  Shared'
    <2>1. Left(run'[r]) <= Left(run[r])
      BY <1>5, AnsweredLeft DEF Answers, TypeOK
    <2>2. Others(r) /\ UNCHANGED acts
      BY <1>5 DEF Answers
    <2> QED
      BY <1>2, <2>1, <2>2
  <1>6. ASSUME NEW r \in Runs, Begun(r)
        PROVE  Shared'
    BY <1>6, SharedBegun
  <1>7. ASSUME NEW r \in Runs, NEW rows, Commits(r, rows)
        PROVE  Shared'
    BY <1>7, SharedCommits
  <1>8. ASSUME run' = run, Hour' \subseteq Hour
        PROVE  Shared'
    BY <1>1, <1>8, SharedShrinks
  <1>9. \A i \in DOMAIN acts : acts[i] \in AnswerRow
    BY ElementOfSeq, LenProperties DEF TypeOK
  <1>10. CASE Elsewhere
    BY <1>8, <1>10 DEF Elsewhere, Hour
  <1>11. ASSUME NEW e \in BOOLEAN, UpsertRule(e)
         PROVE  Shared'
    BY <1>8, <1>11 DEF UpsertRule, Hour
  <1>12. ASSUME NEW i \in DOMAIN acts, Reject(i)
         PROVE  Shared'
    <2>1. acts' = [acts EXCEPT ![i].status = "rejected"] /\ run' = run
      BY <1>12 DEF Reject
    <2>2. DOMAIN acts' = DOMAIN acts
      BY <2>1
    <2>3. \A k \in DOMAIN acts : acts'[k].age = acts[k].age
                                /\ acts'[k].status \in {acts[k].status, "rejected"}
      BY <1>9, <2>1 DEF AnswerRow
    <2>4. Hour' \subseteq Hour
      BY <2>1, <2>2, <2>3 DEF Hour
    <2> QED
      BY <1>8, <2>1, <2>4
  <1>13. CASE Tick
    <2>1. Hour' \subseteq Hour
      BY <1>13, TickEffect DEF Hour
    <2>2. \A q \in Runs : Left(run'[q]) <= Left(run[q])
      <3> SUFFICES ASSUME NEW q \in Runs
                   PROVE  Left(run'[q]) <= Left(run[q])
        OBVIOUS
      <3>1. Ages(run[q], run'[q])
        BY <1>13, TickEffect
      <3>2. Counts(run'[q].made) = Counts(run[q].made) /\ run'[q].budget = run[q].budget
        BY <3>1 DEF Ages, Counts
      <3>3. Left(run'[q]) = Left(run[q])
        BY <3>2 DEF Left
      <3> QED
        BY <1>1, <3>3
    <2> QED
      BY <2>1, <2>2, SharedShrinks
  <1> QED
    BY <1>3, <1>4, <1>5, <1>6, <1>7, <1>10, <1>11, <1>12, <1>13, Effects

-----------------------------------------------------------------------------
(* A run has seen an hour that was not quiet: the one it is in, or the last. *)
LEMMA CalmStep ==
  ASSUME TypeOK, Calm, \A r \in Runs : RunInv(run[r]), [Next]_vars
  PROVE  Calm'
  <1>1. ASSUME hour' = hour, NEW r \in Runs, Others(r),
               Works(run'[r]) => \/ Works(run[r]) /\ run'[r].age = run[r].age
                                 \/ run'[r].age = 0 /\ ~InQuietHours(hour)
        PROVE  Calm'
    <2> SUFFICES ASSUME NEW q \in Runs, Works(run'[q])
                 PROVE  /\ run'[q].age = 0 => ~InQuietHours(hour)
                        /\ run'[q].age = 1 => ~InQuietHours(Before(hour))
      BY <1>1 DEF Calm, Works, InQuietHours, Before
    <2>1. CASE q = r
      BY <1>1, <2>1 DEF Calm
    <2>2. CASE q # r
      <3>1. run'[q] = run[q]
        BY <1>1, <2>2 DEF Others
      <3> QED
        BY <3>1 DEF Calm
    <2> QED
      BY <2>1, <2>2
  <1>2. ASSUME NEW r \in Runs, Rests(r) \/ Begun(r) \/ GoesOn(r)
        PROVE  Calm'
    BY <1>1, <1>2 DEF Rests, Begun, GoesOn, Judged, Others, Works
  <1>3. ASSUME NEW r \in Runs, NEW row, Answers(r, row)
        PROVE  Calm'
    BY <1>1, <1>3 DEF Answers, Answered, Works
  <1>4. ASSUME NEW r \in Runs, NEW rows, Commits(r, rows)
        PROVE  Calm'
    BY <1>1, <1>4, IdleIsRun DEF Commits, Others, Works
  <1>5. ASSUME UNCHANGED <<hour, run>>
        PROVE  Calm'
    BY <1>5 DEF Calm, Works, InQuietHours, Before
  <1>6. ASSUME NEW e \in BOOLEAN, UpsertRule(e)
        PROVE  Calm'
    BY <1>5, <1>6 DEF UpsertRule, world
  <1>7. ASSUME NEW i \in DOMAIN acts, Reject(i)
        PROVE  Calm'
    BY <1>5, <1>7 DEF Reject, world
  <1>8. CASE Tick
    <2>1. hour' = After(hour) /\ hour \in 0..Day - 1 /\ Day \in Nat
      BY <1>8, AutoReplyAssumption DEF Tick, TypeOK
    <2>2. Before(hour') = hour
      BY <2>1 DEF Before, After
    <2> SUFFICES ASSUME NEW q \in Runs, Works(run'[q])
                 PROVE  /\ run'[q].age = 1
                        /\ ~InQuietHours(hour)
      BY <2>2 DEF Calm, Works, InQuietHours, Before
    <2>3. Works(run[q])
      BY <1>8, TickEffect DEF Ages, Works
    <2>4. run[q].age = 0 /\ run'[q].age = 1
      BY <1>8, <2>3, TickEffect
    <2> QED
      BY <2>3, <2>4 DEF Calm
  <1>9. CASE Elsewhere
    BY <1>5, <1>9 DEF Elsewhere
  <1> QED
    BY <1>2, <1>3, <1>4, <1>6, <1>7, <1>8, <1>9, Effects

-----------------------------------------------------------------------------
LEMMA InitInv ==
  ASSUME Init
  PROVE  Inv
  <1>0. \/ rule = [exists |-> FALSE, enabled |-> FALSE, cursor |-> 0]
        \/ \E e \in BOOLEAN : rule = [exists |-> TRUE, enabled |-> e, cursor |-> Newest(stored)]
    <2>1. (mode # "read_only") \in BOOLEAN
      OBVIOUS
    <2> DEFINE W == mode # "read_only"
    <2>2. rule \in {[exists |-> FALSE, enabled |-> FALSE, cursor |-> 0]} \cup
                  [exists : {TRUE}, enabled : {W}, cursor : {Newest(stored)}]
      BY DEF Init
    <2> HIDE DEF W
    <2>3. rule \in [exists : {TRUE}, enabled : {W}, cursor : {Newest(stored)}] =>
            rule = [exists |-> TRUE, enabled |-> W, cursor |-> Newest(stored)]
      OBVIOUS
    <2> QED
      BY <2>1, <2>2, <2>3 DEF W
  <1>1. TypeOK
    <2>1. stored \subseteq Ids
      BY AutoReplyAssumption DEF Init, Ids
    <2>2. Newest(stored) \in 0..MaxId /\ 0 \in 0..MaxId
      BY <2>1, NewestOf, AutoReplyAssumption
    <2>3. mode \in Modes /\ rule \in [exists : BOOLEAN, enabled : BOOLEAN, cursor : 0..MaxId]
      <3>1. mode \in Modes
        BY DEF Init
      <3>2. [exists |-> FALSE, enabled |-> FALSE, cursor |-> 0]
              \in [exists : BOOLEAN, enabled : BOOLEAN, cursor : 0..MaxId]
        BY <2>2
      <3>3. \A e \in BOOLEAN : [exists |-> TRUE, enabled |-> e, cursor |-> Newest(stored)]
              \in [exists : BOOLEAN, enabled : BOOLEAN, cursor : 0..MaxId]
        BY <2>2
      <3>4. rule \in [exists : BOOLEAN, enabled : BOOLEAN, cursor : 0..MaxId]
        BY <1>0, <3>2, <3>3, Zenon
      <3> QED
        BY <3>1, <3>4
    <2>4. start \in 0..MaxId
      BY <2>3 DEF Init
    <2>5. acts \in Seq(AnswerRow) /\ run \in [Runs -> Run]
      BY EmptySeq, IdleIsRun DEF Init
    <2>6. /\ active \in BOOLEAN /\ hour \in 0..Day - 1 /\ faults \in Nat /\ edits \in Nat
          /\ delivered \in [Ids -> Nat] /\ risky \subseteq Ids
      BY AutoReplyAssumption DEF Init
    <2> QED
      BY <2>1, <2>3, <2>4, <2>5, <2>6 DEF TypeOK
  <1>2. /\ \A r \in Runs : run[r] = Idle /\ ~Works(run[r])
        /\ acts = <<>> /\ DOMAIN acts = {} /\ \A m \in Ids : delivered[m] = 0
    BY IdleIsRun DEF Init, Works
  <1>3. \A r \in Runs : RunInv(run[r])
    BY <1>2, IdleIsRun, RestIsSafe
  <1>4. Ruled
    <2>1. ~rule.exists => ~rule.enabled
      BY <1>0
    <2>2. start <= rule.cursor
      BY <1>1, AutoReplyAssumption DEF TypeOK, Init
    <2> QED
      BY <1>2, <2>1, <2>2, IdleIsRun DEF Ruled
  <1>5. Once
    BY <1>2 DEF Once, Alone, Behind, Single, Spent
  <1>6. Shared
    <2>0. MaxPerHour \in Nat /\ Cardinality(Runs) \in Nat
      BY AutoReplyAssumption, FS_CardinalityType
    <2>1. \A r \in Runs : Left(run[r]) = 0
      BY <1>2, IdleIsRun, LeftIsNat DEF Left
    <2>2. Lefts \in [Runs -> 0..MaxPerHour]
      BY <2>0, <2>1 DEF Lefts
    <2>3. Tokens(Lefts) = {}
      BY <2>0, <2>1 DEF Tokens, Lefts
    <2>4. Hour = {}
      BY <1>2 DEF Hour
    <2>5. MaxPerHour * Cardinality(Runs) \in Nat
      BY <2>0
    <2>6. Cardinality(Hour) + Cardinality(Tokens(Lefts)) <= MaxPerHour * Cardinality(Runs)
      BY <2>3, <2>4, <2>5, FS_EmptySet
    <2> QED
      BY <2>2, <2>6 DEF Shared
  <1>7. Calm
    BY <1>2 DEF Calm
  <1> QED
    BY <1>1, <1>3, <1>4, <1>5, <1>6, <1>7 DEF Inv

LEMMA InvStep ==
  ASSUME Inv, [Next]_vars
  PROVE  Inv'
  <1>1. TypeOK'
    BY TypeStep DEF Inv
  <1>2. (\A r \in Runs : RunInv(run[r]))'
    BY RunInvStep DEF Inv
  <1>3. Ruled'
    BY RuledStep DEF Inv
  <1>4. Once'
    BY OnceStep DEF Inv
  <1>5. Shared'
    BY <1>1, SharedStep DEF Inv
  <1>6. Calm'
    BY CalmStep DEF Inv
  <1> QED
    BY <1>1, <1>2, <1>3, <1>4, <1>5, <1>6 DEF Inv

LEMMA InvAlways == Spec => []Inv
  BY InitInv, InvStep, PTL DEF Spec

-----------------------------------------------------------------------------
(* The hours of a clock.                                                   *)
OnClock(x) == IF x < Day THEN x ELSE x - Day

LEMMA Clock ==
  ASSUME NEW x \in Nat, x < 2 * Day
  PROVE  x % Day = OnClock(x)
  <1>0. Day \in Nat /\ Day > 0
    BY AutoReplyAssumption
  <1> DEFINE q == x \div Day
             t == x % Day
  <1>1. q \in Int /\ t \in 0..Day - 1 /\ x = Day * q + t
    BY <1>0
  <1> HIDE DEF q, t
  <1>2. ASSUME q < 0
        PROVE  FALSE
    <2>1. Day * q <= -Day
      BY <1>0, <1>1, <1>2
    <2> QED
      BY <1>0, <1>1, <2>1
  <1>3. ASSUME q > 1
        PROVE  FALSE
    <2>1. Day * q >= 2 * Day
      BY <1>0, <1>1, <1>3
    <2> QED
      BY <1>0, <1>1, <2>1
  <1>4. q = 0 \/ q = 1
    BY <1>1, <1>2, <1>3
  <1>5. t = IF x < Day THEN x ELSE x - Day
    BY <1>0, <1>1, <1>4
  <1> QED
    BY <1>5 DEF t, OnClock

(* What the owner calls the night is quiet for the code. *)
LEMMA QuietIsQuiet ==
  ASSUME NEW h \in 0..Day - 1, Night(h)
  PROVE  InQuietHours(h)
  <1> SUFFICES ASSUME ~InQuietHours(h)
               PROVE  FALSE
    OBVIOUS
  <1>k. PICK k \in 0..Day - 1 : /\ h = (QuietFrom + k) % Day
                                /\ \A j \in 0..k : (QuietFrom + j) % Day # QuietTo
    BY DEF Night
  <1>0. /\ Day \in Nat /\ Day > 0 /\ h \in Nat /\ h < Day /\ k \in Nat /\ k < Day
        /\ QuietFrom \in Nat /\ QuietFrom < Day /\ QuietTo \in Nat /\ QuietTo < Day
    BY <1>k, AutoReplyAssumption
  <1>1. \A j \in 0..k : (QuietFrom + j) % Day = OnClock(QuietFrom + j)
    <2> SUFFICES ASSUME NEW j \in 0..k
                 PROVE  (QuietFrom + j) % Day = OnClock(QuietFrom + j)
      OBVIOUS
    <2>1. QuietFrom + j \in Nat /\ QuietFrom + j < 2 * Day
      BY <1>0
    <2>2. \A x \in Nat : x < 2 * Day => x % Day = OnClock(x)
      BY Clock
    <2> QED
      BY <2>1, <2>2, Zenon
  <1>2. \A j \in 0..k : OnClock(QuietFrom + j) # QuietTo
    BY <1>k, <1>1, Zenon
  <1>3. h = OnClock(QuietFrom + k)
    <2>1. k \in 0..k
      BY <1>0
    <2> QED
      BY <1>k, <1>1, <2>1, Zenon
  <1>4. QuietFrom # QuietTo
    <2>1. 0 \in 0..k
      BY <1>0
    <2> QED
      BY <1>0, <1>2, <2>1 DEF OnClock
  <1>5. CASE QuietFrom < QuietTo
    <2>1. h < QuietFrom \/ h >= QuietTo
      BY <1>0, <1>4, <1>5 DEF InQuietHours
    <2> DEFINE j == QuietTo - QuietFrom
    <2>2. j \in 0..k
      BY <1>0, <1>3, <1>5, <2>1 DEF OnClock
    <2>3. OnClock(QuietFrom + j) = QuietTo
      BY <1>0 DEF OnClock
    <2> HIDE DEF j
    <2> QED
      BY <1>2, <2>2, <2>3
  <1>6. CASE QuietFrom > QuietTo
    <2>1. h < QuietFrom /\ h >= QuietTo
      BY <1>0, <1>4, <1>6 DEF InQuietHours
    <2> DEFINE j == Day - QuietFrom + QuietTo
    <2>2. j \in 0..k
      BY <1>0, <1>3, <1>6, <2>1 DEF OnClock
    <2>3. OnClock(QuietFrom + j) = QuietTo
      BY <1>0 DEF OnClock
    <2> HIDE DEF j
    <2> QED
      BY <1>2, <2>2, <2>3
  <1> QED
    BY <1>0, <1>4, <1>5, <1>6

LEMMA AtMostOne ==
  ASSUME NEW S, IsFiniteSet(S), \A x, y \in S : x = y
  PROVE  Cardinality(S) <= 1
  <1>1. CASE S = {}
    BY <1>1, FS_EmptySet
  <1>2. CASE S # {}
    <2>1. PICK x \in S : TRUE
      BY <1>2
    <2>2. S = {x}
      BY <2>1
    <2> QED
      BY <2>2, FS_Singleton
  <1> QED
    BY <1>1, <1>2

LEMMA AnswersAreFinite ==
  ASSUME TypeOK, NEW m
  PROVE  IsFiniteSet({i \in DOMAIN acts : acts[i].msg = m}) /\ AnswersTo(m) \in Nat
  <1>1. Len(acts) \in Nat /\ DOMAIN acts = 1..Len(acts)
    BY LenProperties DEF TypeOK
  <1>2. IsFiniteSet(1..Len(acts)) /\ {i \in DOMAIN acts : acts[i].msg = m} \subseteq 1..Len(acts)
    BY <1>1, FS_Interval
  <1>3. IsFiniteSet({i \in DOMAIN acts : acts[i].msg = m})
    BY <1>2, FS_Subset
  <1> QED
    BY <1>3, FS_CardinalityType DEF AnswersTo

LEMMA InvIsReplyInv ==
  ASSUME Inv
  PROVE  ReplyInv
  <1>1. TypeOK
    BY DEF Inv
  <1>2. AnsweredOnce
    <2> SUFFICES ASSUME NEW m \in Ids
                 PROVE  /\ AnswersTo(m) + delivered[m] > 0 => m > start
                        /\ m \notin risky => AnswersTo(m) <= 1 /\ delivered[m] <= 1
      BY DEF AnsweredOnce
    <2> DEFINE A == {i \in DOMAIN acts : acts[i].msg = m}
    <2>1. IsFiniteSet(A) /\ AnswersTo(m) \in Nat /\ AnswersTo(m) = Cardinality(A) /\ delivered[m] \in Nat
      BY <1>1, AnswersAreFinite DEF AnswersTo, TypeOK
    <2>2. (\E i \in DOMAIN acts : acts[i].msg = m) => m > start
      BY DEF Inv, Ruled
    <2>3. delivered[m] > 0 => m > start
      BY DEF Inv, Ruled
    <2>4. AnswersTo(m) > 0 => \E i \in DOMAIN acts : acts[i].msg = m
      <3>1. A = {} => AnswersTo(m) = 0
        BY <2>1, FS_EmptySet
      <3> QED
        BY <2>1, <3>1
    <2>5. ASSUME m \notin risky
          PROVE  AnswersTo(m) <= 1 /\ delivered[m] <= 1
      <3>1. Single(m)
        BY <2>5 DEF Inv, Once
      <3>2. \A i, k \in A : i = k
        BY <3>1 DEF Single
      <3>3. Cardinality(A) <= 1
        BY <2>1, <3>2, AtMostOne
      <3> QED
        BY <2>1, <3>1, <3>3 DEF Single
    <2>6. AnswersTo(m) + delivered[m] > 0 => AnswersTo(m) > 0 \/ delivered[m] > 0
      BY <2>1
    <2> QED
      BY <2>2, <2>3, <2>4, <2>5, <2>6
  <1> QED
    BY <1>1, <1>2 DEF ReplyInv

(* Whatever overlaps, fails or is stored late, a message that was not in the  *)
(* list of a run that overlapped or did not save has at most one answer, and *)
(* nothing older than the rule is answered (services/autoreply.py:           *)
(* process_rule).                                                           *)
THEOREM RepliesAreSound == Spec => []ReplyInv
  BY InvAlways, InvIsReplyInv, PTL

(* Nothing is answered once an hour of the night has passed: a run that looked *)
(* at the clock before the night began has ended by then                    *)
(* (services/autoreply.py: in_quiet_hours and process_rule; the job's time   *)
(* limit in worker/settings.py).                                            *)
THEOREM AnswersKeepTheNight == Spec => NightsAreQuiet
  <1>1. Inv /\ [Next]_vars => [Answering => ~(Night(hour) /\ Night(Before(hour)))]_vars
    <2> SUFFICES ASSUME Inv, [Next]_vars, Answering
                 PROVE  ~(Night(hour) /\ Night(Before(hour)))
      OBVIOUS
    <2>0. TypeOK /\ \A r \in Runs : RunInv(run[r]) /\ run[r] \in Run
      BY DEF Inv, TypeOK
    <2>1. ASSUME delivered' = delivered, \A r \in Runs : ~(Len(run'[r].made) > Len(run[r].made))
          PROVE  FALSE
      BY <2>1 DEF Answering
    <2>2. \A r \in Runs : Len(run[r].made) \in Nat
      BY <2>0, RunNumbers
    <2>3. ASSUME NEW r \in Runs, Rests(r) \/ Begun(r) \/ GoesOn(r)
          PROVE  FALSE
      <3>1. delivered' = delivered /\ \A o \in Runs \ {r} : run'[o] = run[o]
        BY <2>3 DEF Rests, Begun, GoesOn, Others
      <3>2. run'[r].made \in {run[r].made, <<>>}
        BY <2>3 DEF Rests, Begun, GoesOn, Judged
      <3>3. Len(<<>>) = 0
        BY EmptySeq
      <3> QED
        BY <2>1, <2>2, <3>1, <3>2, <3>3
    <2>4. ASSUME NEW r \in Runs, NEW rows, Commits(r, rows)
          PROVE  FALSE
      <3>1. delivered' = delivered /\ (\A o \in Runs \ {r} : run'[o] = run[o]) /\ run'[r].made = <<>>
        BY <2>4, IdleIsRun DEF Commits
      <3>2. Len(<<>>) = 0
        BY EmptySeq
      <3> QED
        BY <2>1, <2>2, <3>1, <3>2
    <2>5. ASSUME UNCHANGED <<delivered, run>>
          PROVE  FALSE
      BY <2>1, <2>2, <2>5
    <2>6. CASE Tick
      <3>1. delivered' = delivered
        BY <2>6 DEF Tick
      <3>2. \A r \in Runs : Len(run'[r].made) = Len(run[r].made)
        BY <2>0, <2>6, TickEffect DEF Ages
      <3> QED
        BY <2>1, <2>2, <3>1, <3>2
    <2>7. ASSUME NEW r \in Runs, NEW row, Answers(r, row)
          PROVE  ~(Night(hour) /\ Night(Before(hour)))
      <3>1. Works(run[r]) /\ run[r].age \in 0..1
        BY <2>0, <2>7 DEF Answers, Answered, Works, Run
      <3>2. ~InQuietHours(hour) \/ ~InQuietHours(Before(hour))
        BY <3>1 DEF Inv, Calm
      <3>3. hour \in 0..Day - 1 /\ Before(hour) \in 0..Day - 1
        BY <2>0, AutoReplyAssumption DEF TypeOK, Before
      <3> QED
        BY <3>2, <3>3, QuietIsQuiet
    <2> QED
      BY <2>0, <2>3, <2>4, <2>5, <2>6, <2>7, Effects DEF Elsewhere, UpsertRule, Reject
  <1> QED
    BY <1>1, InvAlways, PTL DEF Spec, NightsAreQuiet

(* N runs at once exceed the limit of the hour at most N times: what each may *)
(* still add never passes what the hour had left when it began              *)
(* (services/autoreply.py: sent_last_hour and the budget of process_rule).   *)
THEOREM HourIsLimited == Spec => []HourlyLimit
  <1>1. Inv => HourlyLimit
    <2> SUFFICES ASSUME Inv
                 PROVE  HourlyLimit
      OBVIOUS
    <2>1. Cardinality(Hour) \in Nat /\ Cardinality(Tokens(Lefts)) \in Nat
      BY SentIsNat, FS_CardinalityType, TokensAreFinite DEF Inv
    <2>2. Cardinality(Hour) + Cardinality(Tokens(Lefts)) <= MaxPerHour * Cardinality(Runs)
      BY DEF Inv, Shared
    <2>3. MaxPerHour * Cardinality(Runs) \in Int
      BY AutoReplyAssumption, FS_CardinalityType
    <2>4. Cardinality(Hour) <= MaxPerHour * Cardinality(Runs)
      BY <2>1, <2>2, <2>3
    <2> QED
      BY <2>4 DEF Hour, HourlyLimit
  <1> QED
    BY <1>1, InvAlways, PTL

(* A run that moves the cursor leaves at most one match behind that it has   *)
(* not asked the model about (services/autoreply.py: process_rule).          *)
THEOREM LimitsDropOne == Spec => AtMostOneIsDropped
  <1>1. Inv /\ [Next]_vars =>
          [\A r \in Runs : At(r, "save") /\ rule'.cursor # rule.cursor =>
             Cardinality({m \in run[r].list \cap Matching : m <= run[r].last} \ run[r].asked) <= 1]_vars
    <2> SUFFICES ASSUME Inv, NEW r \in Runs, At(r, "save")
                 PROVE  Cardinality(Passed(run[r])) <= 1
      BY DEF Passed
    <2>1. run[r] \in Run /\ run[r].pc = "save" /\ RunInv(run[r])
      BY DEF Inv, TypeOK, At
    <2>2. Passed(run[r]) \subseteq {run[r].last}
      BY <2>1 DEF RunInv
    <2>3. IsFiniteSet(Passed(run[r]))
      BY <2>2, FS_Singleton, FS_Subset
    <2>4. \A x, y \in Passed(run[r]) : x = y
      BY <2>2
    <2> QED
      BY <2>3, <2>4, AtMostOne
  <1> QED
    BY <1>1, InvAlways, PTL DEF Spec, AtMostOneIsDropped
=============================================================================
